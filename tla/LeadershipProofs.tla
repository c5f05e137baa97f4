-------------------------- MODULE LeadershipProofs --------------------------
(***************************************************************************)
(* For any instances, chains and numbers: the leader whose saves land has  *)
(* the store in its map, and a lost lease lets one send more per chain go. *)
(*                                                                         *)
(* Both rest on numbers being told apart (Unique): a lease, once gone, is  *)
(* never an instance's own again.  An instance then has nothing to save    *)
(* over when its saves land, and passes no check after its last.           *)
(***************************************************************************)
EXTENDS Leadership, TLAPS

\* An instance has a number from the INCR to the end of its process, and no
\* two have the same.
Numbered ==
    \A i \in Instances : token[i] = NoToken <=> proc[i] \in {"waiting", "stopped"}

Unique ==
    \A i, j \in Instances : i # j /\ token[i] # NoToken => token[i] # token[j]

\* The lease never names an instance that has yet to acquire it.
Counting == \A i \in Instances : proc[i] = "counted" => lease # token[i]

\* Sends are for leaders, and for what is left of one that closes.
Sends == {"leading", "closing", "released"}
Silent ==
    \A i \in Instances : proc[i] \notin Sends =>
        \A c \in Chains : gate[i][c] = "none" /\ late[i][c] = 0

\* A late send was the last: the lease is gone and the gate not open.
LastSend ==
    \A i \in Instances, c \in Chains :
        late[i][c] # 0 => late[i][c] = 1 /\ ~Holds(i) /\ gate[i][c] # "passed"

Inv == TypeOK /\ Numbered /\ Unique /\ Counting /\ Silent /\ HolderIsCurrent /\ LastSend

USE TokenAssumption

LEMMA InitInv == Init => Inv
  BY DEF Init, Inv, TypeOK, Procs, Numbered, Unique, Counting, Silent, Sends,
         HolderIsCurrent, Holds, LastSend

\* Every step that ends a process.
LEMMA EndsInv ==
    ASSUME Inv, NEW i \in Instances, Ends(i), lease' = lease, saves' = saves
    PROVE  Inv'
  BY DEF Ends, Inv, TypeOK, Procs, Numbered, Unique, Counting, Silent, Sends,
         HolderIsCurrent, Holds, LastSend

LEMMA AcquiresInv ==
    ASSUME Inv, NEW i \in Instances, Acquires(i)
    PROVE  Inv'
  <1> USE DEF Inv, TypeOK, Procs, Numbered, Unique, Counting, Silent, Sends,
              HolderIsCurrent, Holds, LastSend
  <1>1. CASE Count(i)
    <2>1. PICK n \in Fresh : token' = [token EXCEPT ![i] = n]
      BY <1>1 DEF Count
    <2>2. n \in Tokens /\ n # lease /\ n # NoToken /\ \A j \in Instances : token[j] # n
      BY <2>1 DEF Fresh
    <2> QED
      BY <1>1, <2>1, <2>2 DEF Count
  <1>2. CASE Acquire(i)
    <2>1. token[i] # NoToken /\ \A j \in Instances : j # i => lease' # token[j]
      BY <1>2 DEF Acquire
    <2>2. TypeOK' /\ Numbered' /\ Unique' /\ Silent'
      BY <1>2 DEF Acquire
    <2>3. Counting' /\ HolderIsCurrent'
      BY <1>2, <2>1 DEF Acquire
    <2>4. LastSend'
      BY <1>2, <2>1 DEF Acquire
    <2> QED
      BY <2>2, <2>3, <2>4
  <1>3. CASE Refused(i)
    BY <1>3 DEF Refused
  <1>4. CASE Lead(i)
    BY <1>4 DEF Lead
  <1>5. CASE Load(i)
    BY <1>5 DEF Load
  <1> QED
    BY <1>1, <1>2, <1>3, <1>4, <1>5 DEF Acquires

LEMMA SendsInv ==
    ASSUME Inv, NEW i \in Instances, NEW c \in Chains,
           AskToSend(i, c) \/ MaySend(i, c) \/ MayNotSend(i, c) \/ Broadcast(i, c)
    PROVE  Inv'
  <1> USE DEF Inv, TypeOK, Procs, Numbered, Unique, Counting, Silent, Sends,
              HolderIsCurrent, Holds, LastSend
  <1>1. CASE AskToSend(i, c)
    BY <1>1 DEF AskToSend
  <1>2. CASE MaySend(i, c)
    BY <1>2 DEF MaySend
  <1>3. CASE MayNotSend(i, c)
    BY <1>3, EndsInv DEF MayNotSend
  <1>4. CASE Broadcast(i, c)
    \* The check had passed, so no late send came before this one.
    <2>1. late[i][c] = 0 /\ late'[i][c] \in {0, 1} /\ (late'[i][c] = 1 => ~Holds(i))
      BY <1>4 DEF Broadcast
    <2> QED
      BY <1>4, <2>1 DEF Broadcast
  <1> QED
    BY <1>1, <1>2, <1>3, <1>4

LEMMA SavesInv ==
    ASSUME Inv, NEW n \in saves, SaveLands(n) \/ SaveFails(n)
    PROVE  Inv'
  BY DEF SaveLands, SaveFails, Inv, TypeOK, Procs, Numbered, Unique, Counting,
         Silent, Sends, HolderIsCurrent, Holds, LastSend

LEMMA NextInv == Inv /\ [Next]_vars => Inv'
  <1> SUFFICES ASSUME Inv, [Next]_vars PROVE Inv'
    OBVIOUS
  <1> USE DEF Inv, TypeOK, Procs, Numbered, Unique, Counting, Silent, Sends,
              HolderIsCurrent, Holds, LastSend
  <1>1. ASSUME NEW i \in Instances, Acquires(i) PROVE Inv'
    BY <1>1, AcquiresInv
  <1>2. ASSUME NEW i \in Instances, Save(i) PROVE Inv'
    BY <1>2 DEF Save
  <1>3. ASSUME NEW i \in Instances, Gates(i) \/ \E c \in Chains : AskToSend(i, c) PROVE Inv'
    BY <1>3, SendsInv DEF Gates
  <1>4. ASSUME NEW i \in Instances, LoseLease(i) PROVE Inv'
    BY <1>4, EndsInv DEF LoseLease
  <1>5. ASSUME NEW i \in Instances, Close(i) PROVE Inv'
    BY <1>5 DEF Close
  <1>6. ASSUME NEW i \in Instances, Release(i) PROVE Inv'
    BY <1>6 DEF Release
  <1>7. ASSUME NEW i \in Instances, Exit(i) \/ Die(i) PROVE Inv'
    BY <1>7, EndsInv DEF Exit, Die
  <1>8. ASSUME NEW i \in Instances, Restart(i) PROVE Inv'
    BY <1>8 DEF Restart
  <1>9. ASSUME NEW n \in saves, SaveLands(n) \/ SaveFails(n) PROVE Inv'
    BY <1>9, SavesInv
  <1>10. CASE Expire
    BY <1>10 DEF Expire
  <1>11. CASE UNCHANGED vars
    BY <1>11 DEF vars
  <1> QED
    BY <1>1, <1>2, <1>3, <1>4, <1>5, <1>6, <1>7, <1>8, <1>9, <1>10, <1>11 DEF Next

THEOREM LeadershipInvariant == Spec => []Inv
  BY InitInv, NextInv, PTL DEF Spec

\* Every instance is in one of the states of leader.ts and index.ts, with a number of the
\* lease or none, and with a check before a send at most half way on each chain.
THEOREM LeadershipTypes == Spec => []TypeOK
  <1>1. Inv => TypeOK
    BY DEF Inv
  <1> QED
    BY <1>1, LeadershipInvariant, PTL

\* Whoever's saves land has in its map all that others saved (put's comment
\* "this process is the only writer"), by the fence and by restoring first.
THEOREM HolderHasTheStore == Spec => []HolderIsCurrent
  <1>1. Inv => HolderIsCurrent
    BY DEF Inv
  <1> QED
    BY <1>1, LeadershipInvariant, PTL

\* beforeSend limits an instance that has lost the lease to one transaction on
\* each chain.
THEOREM LateSendIsTheLast == Spec => []OneLateSend
  <1>1. Inv => OneLateSend
    BY DEF Inv, TypeOK, LastSend, OneLateSend
  <1> QED
    BY <1>1, LeadershipInvariant, PTL

=============================================================================

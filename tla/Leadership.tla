----------------------------- MODULE Leadership -----------------------------
(***************************************************************************)
(* One writer at a time: the lease of lib/leader.ts, the fenced saves of   *)
(* orders/records.ts and the check fill-engine.ts makes before a send, by  *)
(* several instances of which any may stall, die or be started again.      *)
(*                                                                         *)
(* A step is one command as Redis executes it, together with what its      *)
(* caller does with the answer, unless something can come between the two: *)
(* an acquired lease may have run out when the caller learns of it, and a  *)
(* check may have passed for a lease that is gone when the send follows.   *)
(* Any instance may take any time over its next step: that is a stall.     *)
(***************************************************************************)
EXTENDS Naturals

CONSTANTS
    Instances,  \* processes of the solver
    Chains,     \* chains it signs on: one fill engine, and one turn, for each
    Tokens,     \* numbers of the counter `${key}:epoch`
    NoToken     \* none of them: an absent lease, or an instance without one

ASSUME TokenAssumption == NoToken \notin Tokens

VARIABLES
    lease,  \* the number in the lease key's value, which names its holder too
    proc,   \* where each instance is
    token,  \* the number in its `value`
    saves,  \* numbers under which a save of the order's record is on its way
    gate,   \* per instance and chain: a beforeSend asked, or passed
    stale,  \* instances whose map misses what another one saved
    late    \* per instance and chain: transactions sent after its lease was gone

vars == <<lease, proc, token, saves, gate, stale, late>>

\* "acquired": SET has been executed; "restoring": waitForLeadership has
\* returned; "leading": restore() has, and the worker runs; "closing" and
\* "released": the server is closed, before and after the lease is given back.
Procs == {"waiting", "counted", "acquired", "restoring", "leading", "closing", "released", "stopped"}

Holds(i) == token[i] # NoToken /\ lease = token[i]

\* INCR never gives a number twice.  One that nobody remembers may stand for a
\* later one: a number is only ever compared with others.
Fresh == Tokens \ ({lease} \cup saves \cup {token[i] : i \in Instances})

Init ==
    /\ lease = NoToken
    /\ proc = [i \in Instances |-> "waiting"]
    /\ token = [i \in Instances |-> NoToken]
    /\ saves = {}
    /\ gate = [i \in Instances |-> [c \in Chains |-> "none"]]
    /\ stale = {}
    /\ late = [i \in Instances |-> [c \in Chains |-> 0]]

\* What is left of an instance whose process has ended.
Ends(i) ==
    /\ proc' = [proc EXCEPT ![i] = "stopped"]
    /\ token' = [token EXCEPT ![i] = NoToken]
    /\ gate' = [gate EXCEPT ![i] = [c \in Chains |-> "none"]]
    /\ late' = [late EXCEPT ![i] = [c \in Chains |-> 0]]
    /\ stale' = stale \ {i}

-----------------------------------------------------------------------------
(* Slips: one plausible bug each, of the action it is named after.         *)

\* hset without comparing the lease.
SaveUnfenced(n) ==
    /\ n \in saves
    /\ saves' = saves \ {n}
    /\ stale' = {i \in Instances : token[i] # n}
    /\ UNCHANGED <<lease, proc, token, gate, late>>

\* An instance goes on when its renewal is refused.
LoseLeaseQuietly(i) ==
    /\ proc[i] \in {"restoring", "leading"} /\ ~Holds(i)
    /\ UNCHANGED vars

\* SET without PX: only a deletion takes the lease away.
NeverExpire ==
    /\ lease = NoToken
    /\ UNCHANGED vars

\* The number Redis answers is kept, and not compared.
MaySendUncompared(i, c) ==
    /\ gate[i][c] = "asked"
    /\ gate' = [gate EXCEPT ![i][c] = lease]
    /\ UNCHANGED <<lease, proc, token, saves, stale, late>>

\* One check serves a swap and the payout after it.
BroadcastAndStay(i, c) ==
    /\ gate[i][c] = "passed"
    /\ late' = [late EXCEPT ![i][c] = IF Holds(i) THEN @ ELSE @ + 1]
    /\ UNCHANGED <<lease, proc, token, saves, gate, stale>>

-----------------------------------------------------------------------------
(* Acquiring: tryAcquire, waitForLeadership, restore.                      *)

Count(i) ==
    /\ proc[i] = "waiting"
    /\ \E n \in Fresh : token' = [token EXCEPT ![i] = n]
    /\ proc' = [proc EXCEPT ![i] = "counted"]
    /\ UNCHANGED <<lease, saves, gate, stale, late>>

\* SET NX is executed on no lease.
Acquire(i) ==
    /\ proc[i] = "counted" /\ lease = NoToken
    /\ lease' = token[i]
    /\ proc' = [proc EXCEPT ![i] = "acquired"]
    /\ UNCHANGED <<token, saves, gate, stale, late>>

\* Or on another's: it sleeps a third of a ttl and takes a new number.
Refused(i) ==
    /\ proc[i] = "counted" /\ lease # NoToken
    /\ proc' = [proc EXCEPT ![i] = "waiting"]
    /\ token' = [token EXCEPT ![i] = NoToken]
    /\ UNCHANGED <<lease, saves, gate, stale, late>>

\* The answer arrives: leading is set and the renewals begin.
Lead(i) ==
    /\ proc[i] = "acquired"
    /\ proc' = [proc EXCEPT ![i] = "restoring"]
    /\ UNCHANGED <<lease, token, saves, gate, stale, late>>

\* restore() reads the records, which no lease fences.
Load(i) ==
    /\ proc[i] = "restoring"
    /\ proc' = [proc EXCEPT ![i] = "leading"]
    /\ stale' = stale \ {i}
    /\ UNCHANGED <<lease, token, saves, gate, late>>

-----------------------------------------------------------------------------
(* Leading: saves, sends, and learning that the lease is gone.             *)

\* put(): the record is written from the map, under the fence of this moment.
\* The map follows when the answer comes; no one else reads it before.
Save(i) ==
    /\ proc[i] = "leading" /\ token[i] \notin saves
    /\ saves' = saves \cup {token[i]}
    /\ UNCHANGED <<lease, proc, token, gate, stale, late>>

\* FENCED_HSET executes, whoever sent it and whether or not it still runs.
SaveLands(n) ==
    /\ n \in saves /\ lease = n
    /\ saves' = saves \ {n}
    /\ stale' = {i \in Instances : token[i] # n}
    /\ UNCHANGED <<lease, proc, token, gate, late>>

\* Refused, or it never arrives: save throws, and what waited for it fails.
SaveFails(n) ==
    /\ n \in saves
    /\ saves' = saves \ {n}
    /\ UNCHANGED <<lease, proc, token, gate, stale, late>>

\* beforeSend, in the engine's turn: fence() passes while `leading` is set.
AskToSend(i, c) ==
    /\ proc[i] = "leading" /\ gate[i][c] = "none"
    /\ gate' = [gate EXCEPT ![i][c] = "asked"]
    /\ UNCHANGED <<lease, proc, token, saves, stale, late>>

MaySend(i, c) ==
    /\ gate[i][c] = "asked" /\ Holds(i)
    /\ gate' = [gate EXCEPT ![i][c] = "passed"]
    /\ UNCHANGED <<lease, proc, token, saves, stale, late>>

\* The lease says otherwise: onLost ends the process.
MayNotSend(i, c) ==
    /\ gate[i][c] = "asked" /\ ~Holds(i)
    /\ Ends(i)
    /\ UNCHANGED <<lease, saves>>

\* sendTransaction, with the reads it makes first.
Broadcast(i, c) ==
    /\ gate[i][c] = "passed"
    /\ gate' = [gate EXCEPT ![i][c] = "none"]
    /\ late' = [late EXCEPT ![i][c] = IF Holds(i) THEN @ ELSE @ + 1]
    /\ UNCHANGED <<lease, proc, token, saves, stale>>

\* RENEW finds another lease or none: onLost ends the process.
LoseLease(i) ==
    /\ proc[i] \in {"restoring", "leading"} /\ ~Holds(i)
    /\ Ends(i)
    /\ UNCHANGED <<lease, saves>>

-----------------------------------------------------------------------------
(* Ending: a shutdown, a death, the lease running out, a new process.      *)

\* onClose: the worker has finished and `leading` is cleared; the sweep of a
\* poller is not waited for and may stand at a send.
Close(i) ==
    /\ proc[i] = "leading" /\ token[i] \notin saves
    /\ proc' = [proc EXCEPT ![i] = "closing"]
    /\ UNCHANGED <<lease, token, saves, gate, stale, late>>

\* RELEASE deletes the lease if it is still this instance's.
Release(i) ==
    /\ proc[i] = "closing"
    /\ lease' = IF Holds(i) THEN NoToken ELSE lease
    /\ proc' = [proc EXCEPT ![i] = "released"]
    /\ UNCHANGED <<token, saves, gate, stale, late>>

Exit(i) ==
    /\ proc[i] = "released"
    /\ Ends(i)
    /\ UNCHANGED <<lease, saves>>

\* The process is killed, or a renewal throws.
Die(i) ==
    /\ proc[i] # "stopped"
    /\ Ends(i)
    /\ UNCHANGED <<lease, saves>>

\* A process manager starts it again.
Restart(i) ==
    /\ proc[i] = "stopped"
    /\ proc' = [proc EXCEPT ![i] = "waiting"]
    /\ UNCHANGED <<lease, token, saves, gate, stale, late>>

\* ttlMs without a renewal.
Expire ==
    /\ lease # NoToken
    /\ lease' = NoToken
    /\ UNCHANGED <<proc, token, saves, gate, stale, late>>

-----------------------------------------------------------------------------
Acquires(i) == Count(i) \/ Acquire(i) \/ Refused(i) \/ Lead(i) \/ Load(i)

Gates(i) == \E c \in Chains : MaySend(i, c) \/ MayNotSend(i, c) \/ Broadcast(i, c)

Next ==
    \/ \E i \in Instances :
          \/ Acquires(i) \/ Save(i) \/ Gates(i) \/ LoseLease(i)
          \/ Close(i) \/ Release(i) \/ Exit(i) \/ Die(i) \/ Restart(i)
          \/ \E c \in Chains : AskToSend(i, c)
    \/ \E n \in saves : SaveLands(n) \/ SaveFails(n)
    \/ Expire

Spec == Init /\ [][Next]_vars

Orphaned == \A i \in Instances : ~Holds(i)

\* A process that is not dead goes on, Redis answers, and a lease whose holder
\* is gone runs out.  A holder may still lose its lease at any time.
FairSpec ==
    /\ Spec
    /\ \A i \in Instances :
          WF_vars(Acquires(i)) /\ WF_vars(LoseLease(i)) /\ WF_vars(Release(i) \/ Exit(i))
    /\ \A n \in Tokens : WF_vars(SaveLands(n) \/ SaveFails(n))
    /\ WF_vars(Orphaned /\ Expire)

-----------------------------------------------------------------------------
(* Properties.                                                             *)

TypeOK ==
    /\ lease \in Tokens \cup {NoToken}
    /\ proc \in [Instances -> Procs]
    /\ token \in [Instances -> Tokens \cup {NoToken}]
    /\ saves \subseteq Tokens
    /\ gate \in [Instances -> [Chains -> {"none", "asked", "passed"}]]
    /\ stale \subseteq Instances
    /\ late \in [Instances -> [Chains -> Nat]]

\* The leader's map is the store's ("this process is the only writer, and the
\* map is the cache of what it wrote"): no instance whose saves would land has
\* missed what another saved, so no save overwrites another's.
HolderIsCurrent ==
    \A i \in Instances : proc[i] = "leading" /\ Holds(i) => i \notin stale

\* After its lease is gone an instance sends at most what had passed the check:
\* one transaction on each chain, because an engine's sends take turns.
OneLateSend == \A i \in Instances, c \in Chains : late[i][c] <= 1

\* An instance that lost the lease stops ("exits rather than risk signing
\* alongside the new holder").
LoserStops ==
    \A i \in Instances : proc[i] = "leading" /\ ~Holds(i) ~> proc[i] # "leading"

\* A lease whose holder is gone is taken over ("a second instance waits, and
\* takes over"): while some instance stays up, one holds the lease again and
\* again, whichever others come, die or stall.
TakenOver ==
    \A i \in Instances :
        <>[](proc[i] # "stopped") => []<>(\E k \in Instances : Holds(k))

=============================================================================

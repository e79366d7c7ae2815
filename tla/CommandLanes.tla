---------------------------- MODULE CommandLanes ----------------------------
(***************************************************************************)
(* What the serial command queue promises its callers, without threads,    *)
(* retry counters or flags: two lanes in front of one bus.  Door commands  *)
(* form a stack that is served before everything else; the other commands  *)
(* are served first come, first served.  The bus reads the command at the  *)
(* front of the lanes and writes it; a command leaves the lanes once, from *)
(* the front, or with the whole process.                                   *)
(***************************************************************************)
EXTENDS Naturals, Sequences

CONSTANTS Command, Door     \* Door: the commands that move a door

VARIABLES doors,    \* the stack of door commands, last one first
          others,   \* the other commands, in the order they came
          onBus,    \* <<c>> while c is read from the front and being written
          fate      \* what has become of each command

vars == <<doors, others, onBus, fate>>

Waiting == doors \o others

Init ==
    /\ doors = <<>> /\ others = <<>> /\ onBus = <<>>
    /\ fate = [c \in Command |-> "new"]

Accept(c) ==
    /\ fate[c] = "new"
    /\ fate' = [fate EXCEPT ![c] = "queued"]
    /\ IF c \in Door THEN doors' = <<c>> \o doors /\ UNCHANGED others
                     ELSE others' = Append(others, c) /\ UNCHANGED doors
    /\ UNCHANGED onBus

Pick ==
    /\ onBus = <<>> /\ Waiting # <<>>
    /\ onBus' = <<Head(Waiting)>>
    /\ UNCHANGED <<doors, others, fate>>

Write ==
    /\ onBus # <<>>
    /\ onBus' = <<>>
    /\ UNCHANGED <<doors, others, fate>>

Retire(outcome) ==
    /\ Waiting # <<>>
    /\ fate' = [fate EXCEPT ![Head(Waiting)] = outcome]
    /\ IF doors # <<>> THEN doors' = Tail(doors) /\ UNCHANGED others
                       ELSE others' = Tail(others) /\ UNCHANGED doors
    /\ UNCHANGED onBus

(* The process ends with everything that is still waiting. *)
Lose ==
    /\ onBus = <<>>
    /\ doors' = <<>> /\ others' = <<>>
    /\ fate' = [c \in Command |-> IF fate[c] = "queued" THEN "lost" ELSE fate[c]]
    /\ UNCHANGED onBus

Next == \/ \E c \in Command : Accept(c)
        \/ Pick \/ Write \/ Lose
        \/ \E outcome \in {"answered", "dropped"} : Retire(outcome)

Spec == Init /\ [][Next]_vars
=============================================================================

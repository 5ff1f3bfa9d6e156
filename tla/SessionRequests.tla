--------------------------- MODULE SessionRequests ---------------------------
(***************************************************************************)
(* Who asks plugin/localsessionmodel.cpp for an import of session logs and *)
(* what becomes of it: the timer, switching a tool on and off, deletion,   *)
(* the worker that is superseded by a new generation, and the lock it      *)
(* shares with other importers.  What a scan does is SessionImport.        *)
(***************************************************************************)
EXTENDS Naturals

CONSTANTS
  MaxGenerations, \* bound: of this model
  MaxFailures     \* bound: of locks, keys, the database and shells

Outcomes == {"complete", "partial", "error"}

VARIABLES
  generation,
  enabled,
  request,     \* the worker of this model: "none", "waiting", "scanning", "done"
  requestGen,
  outcome,     \* what it came to
  again,       \* m_importAgain
  shown,       \* the state of the tool in importStates
  clearing,    \* a deletion waits for its worker
  lock,        \* session-import.lock: "free", "own" or "other"
  failures,
  read         \* history: a scan of the tool as it is now was completed

vars == <<generation, enabled, request, requestGen, outcome, again, shown, clearing,
          lock, failures, read>>

Fails == failures < MaxFailures /\ failures' = failures + 1

Init ==
  /\ generation = 0 /\ enabled = FALSE
  /\ request = "none" /\ requestGen = 0 /\ outcome = "complete" /\ again = FALSE
  /\ shown = "unknown" /\ clearing = FALSE
  /\ lock \in {"free", "other"} /\ failures = 0 /\ read = FALSE

Import(gen) ==
  /\ request' = "waiting" /\ requestGen' = gen /\ shown' = "running"
  /\ UNCHANGED outcome

ImportTimer ==
  /\ enabled /\ request = "none"
  /\ Import(generation)
  /\ UNCHANGED <<generation, enabled, again, clearing, lock, failures, read>>

(* requestImport: one that comes during another is served after it.        *)
Ask(gen) ==
  IF request = "none" THEN Import(gen) /\ UNCHANGED again
  ELSE again' = TRUE /\ UNCHANGED <<request, requestGen, outcome, shown>>

(* The settings page offers it when no import is shown as running.         *)
Rescan ==
  /\ enabled /\ shown # "running" /\ ~clearing
  /\ Ask(generation)
  /\ UNCHANGED <<generation, enabled, clearing, lock, failures, read>>

SetToolEnabled(on) ==
  /\ on # enabled /\ generation < MaxGenerations
  /\ enabled' = on /\ generation' = generation + 1 /\ read' = FALSE
  /\ IF ~on THEN shown' = "disabled" /\ UNCHANGED <<request, requestGen, outcome, again>>
     ELSE IF request = "none" THEN Import(generation + 1) /\ UNCHANGED again
     ELSE shown' = "unknown" /\ again' = TRUE /\ UNCHANGED <<request, requestGen, outcome>>
  /\ UNCHANGED <<clearing, lock, failures>>

(* The other tool is switched: this one's scan is superseded as well.      *)
OtherToolSwitched ==
  /\ enabled /\ generation < MaxGenerations
  /\ generation' = generation + 1
  /\ Ask(generation + 1)
  /\ UNCHANGED <<enabled, clearing, lock, failures, read>>

-----------------------------------------------------------------------------
(* The worker *)

StartImport ==
  /\ request = "waiting" /\ lock = "free"
  /\ request' = "scanning" /\ lock' = "own"
  /\ UNCHANGED <<generation, enabled, requestGen, outcome, again, shown, clearing, failures, read>>

(* The lock is not given within five seconds, or the key or the database   *)
(* cannot be used.                                                         *)
StartFails ==
  /\ request = "waiting"
  /\ (lock = "other" /\ UNCHANGED failures) \/ (lock = "free" /\ Fails)
  /\ request' = "done" /\ outcome' = "error"
  /\ UNCHANGED <<generation, enabled, requestGen, again, shown, clearing, lock, read>>

(* The scan looks at the generation before every file and record, and for  *)
(* the last time before a commit.                                          *)
EndScan(result) ==
  /\ request = "scanning"
  /\ request' = "done" /\ outcome' = result /\ lock' = "free"
  /\ read' = (read \/ (requestGen = generation /\ result # "error"))
  /\ UNCHANGED <<generation, enabled, requestGen, again, shown, clearing, failures>>

(* Mutant: the result of a superseded generation is not looked at.         *)
ImportFinishedUnlessOld ==
  /\ request = "done" /\ requestGen = generation
  /\ IF again /\ enabled THEN Import(generation)
     ELSE request' = "none" /\ shown' = outcome /\ UNCHANGED <<requestGen, outcome>>
  /\ again' = FALSE
  /\ UNCHANGED <<generation, enabled, clearing, lock, failures, read>>

(* Mutant: the result is shown whatever it is of.                          *)
ImportFinishedAnyway ==
  /\ request = "done"
  /\ IF again /\ enabled THEN Import(generation)
     ELSE request' = "none" /\ shown' = outcome /\ UNCHANGED <<requestGen, outcome>>
  /\ again' = FALSE
  /\ UNCHANGED <<generation, enabled, clearing, lock, failures, read>>

ImportFinished ==
  /\ request = "done"
  /\ IF again /\ enabled THEN Import(generation)
     ELSE /\ request' = "none"
          /\ shown' = IF requestGen = generation THEN outcome ELSE shown
          /\ UNCHANGED <<requestGen, outcome>>
  /\ again' = FALSE
  /\ UNCHANGED <<generation, enabled, clearing, lock, failures, read>>

-----------------------------------------------------------------------------
(* Deletion, other importers and crashes *)

ClearSessions ==
  /\ ~clearing /\ clearing' = TRUE
  /\ generation < MaxGenerations /\ generation' = generation + 1
  /\ UNCHANGED <<enabled, request, requestGen, outcome, again, shown, lock, failures, read>>

(* It has the lock after the scans that ended, and their results arrive    *)
(* before its own.                                                         *)
ClearSucceeds ==
  /\ clearing /\ lock = "free" /\ request # "done"
  /\ clearing' = FALSE /\ read' = FALSE
  /\ shown' = IF enabled THEN "unknown" ELSE "disabled"
  /\ UNCHANGED <<generation, enabled, request, requestGen, outcome, again, lock, failures>>

(* Nothing is deleted, and nothing is said of the tool's state.            *)
ClearFails ==
  /\ clearing /\ clearing' = FALSE
  /\ (lock = "other" /\ UNCHANGED failures) \/ (lock = "free" /\ Fails)
  /\ UNCHANGED <<generation, enabled, request, requestGen, outcome, again, shown, lock, read>>

OthersImport ==
  /\ \/ lock = "free" /\ lock' = "other"
     \/ lock = "other" /\ lock' = "free"
  /\ UNCHANGED <<generation, enabled, request, requestGen, outcome, again, shown, clearing,
                 failures, read>>

(* The shell dies, and its lock with it, and starts again.                 *)
Crash ==
  /\ Fails
  /\ lock' = IF lock = "own" THEN "free" ELSE lock
  /\ generation' = 0 /\ again' = FALSE /\ clearing' = FALSE /\ read' = FALSE
  /\ IF enabled THEN Import(0)
     ELSE request' = "none" /\ shown' = "disabled" /\ UNCHANGED <<requestGen, outcome>>
  /\ UNCHANGED enabled

Worker == StartImport \/ StartFails \/ \E r \in Outcomes : EndScan(r)
Clears == ClearSucceeds \/ ClearFails

Next ==
  \/ ImportTimer \/ Rescan \/ OtherToolSwitched
  \/ \E on \in BOOLEAN : SetToolEnabled(on)
  \/ Worker \/ ImportFinished
  \/ ClearSessions \/ Clears
  \/ OthersImport \/ Crash

Spec == Init /\ [][Next]_vars

-----------------------------------------------------------------------------
(* Properties *)

(* The tool is not shown as read by a scan of before it was switched on or *)
(* its sessions were deleted.                                              *)
OutcomeIsCurrent == shown \in {"complete", "partial"} => read

(* No import is shown as running for ever, during which nobody can ask for *)
(* another.                                                                *)
RunOver == shown # "running"
RunningEnds == []<>RunOver
=============================================================================

---------------------------- MODULE RefreshPromise ----------------------------
(***************************************************************************)
(* What the refresh of a provider promises to the scheduler and to the     *)
(* views: it waits for one answer of every endpoint, is loading as long as *)
(* it waits, shows an answer only under the credential it was asked with,  *)
(* and ends, whatever requests, pages, retries and replies it takes.       *)
(***************************************************************************)

CONSTANTS
  Endpoints,  \* what a refresh asks
  Keys,       \* credentials the user may store
  NoKey       \* no credential

VARIABLES
  key,        \* the credential
  loading,    \* a refresh is under way
  awaited,    \* the endpoints that have not answered yet
  data        \* per endpoint: the credential its figures came with

vars == <<key, loading, awaited, data>>

Init ==
  /\ key \in Keys \cup {NoKey}
  /\ loading = FALSE
  /\ awaited = {}
  /\ data = [e \in Endpoints |-> NoKey]

(* A refresh begins, or begins again.                                      *)
Begin ==
  /\ key # NoKey
  /\ loading' = TRUE
  /\ awaited' = Endpoints
  /\ UNCHANGED <<key, data>>

(* The one answer of an endpoint: figures, or an error.  The last one ends *)
(* the refresh.                                                            *)
Answer(e) ==
  /\ e \in awaited
  /\ awaited' = awaited \ {e}
  /\ loading' = (awaited' # {})
  /\ data' \in {data, [data EXCEPT ![e] = key]}
  /\ UNCHANGED key

(* The refresh under way ends with its credential.                         *)
SetKey(k) ==
  /\ k # key
  /\ key' = k
  /\ loading' = FALSE
  /\ awaited' = {}
  /\ UNCHANGED data

Next ==
  \/ Begin
  \/ \E e \in Endpoints : Answer(e)
  \/ \E k \in Keys \cup {NoKey} : SetKey(k)

Spec == Init /\ [][Next]_vars

(* An endpoint answers in the end, if only by its timeout.                 *)
FairSpec == Spec /\ WF_vars(\E e \in Endpoints : Answer(e))
=============================================================================

---------------------------- MODULE DurableStore ----------------------------
(***************************************************************************)
(* What the store promises its callers (the guarantees in src/lib.rs and   *)
(* the Errors section of Store): commits take effect atomically, in one    *)
(* order, between their call and their return; an acknowledged commit is   *)
(* never undone; a failed commit never takes effect, unless its outcome    *)
(* was left unknown, in which case a crash (reopening) decides it.         *)
(***************************************************************************)
EXTENDS Naturals, Sequences

CONSTANT Call

VARIABLES
  hist,  \* the commits in effect, in order
  st     \* the state of each call

storeVars == <<hist, st>>

\* idle: not called; active: called, not returned; ok, failed: returned;
\* unknown: returned an error, but a reopen may still apply it; lost: the
\* process died before the call returned.
Status == {"idle", "active", "ok", "failed", "unknown", "lost"}

InEffect(c) == \E i \in 1..Len(hist) : hist[i] = c

StoreInit ==
  /\ hist = <<>>
  /\ st = [c \in Call |-> "idle"]

\* hist grows by distinct calls that are not in effect yet, each in a state of S.
Extend(S) ==
  /\ Len(hist) <= Len(hist')
  /\ \A i \in 1..Len(hist) : hist'[i] = hist[i]
  /\ \A i \in Len(hist)+1 .. Len(hist') : st[hist'[i]] \in S /\ ~InEffect(hist'[i])
  /\ \A i, j \in Len(hist)+1 .. Len(hist') : hist'[i] = hist'[j] => i = j

\* A call starts.
Begin ==
  /\ \E c \in Call : st[c] = "idle" /\ st' = [st EXCEPT ![c] = "active"]
  /\ UNCHANGED hist

\* A group of active calls takes effect.
TakeEffect ==
  /\ Extend({"active"})
  /\ UNCHANGED st

\* One call returns: Ok only once in effect, an error only if not.
Return ==
  /\ \E c \in Call :
       /\ st[c] \in {"idle", "active"}
       /\ \/ InEffect(c) /\ st' = [st EXCEPT ![c] = "ok"]
          \/ ~InEffect(c) /\ \E r \in {"failed", "unknown"} : st' = [st EXCEPT ![c] = r]
  /\ UNCHANGED hist

\* The process dies and the store is reopened: what was in effect stays, and
\* calls without a definite outcome may be found to have taken effect.
CrashAndReopen ==
  /\ Extend({"active", "unknown"})
  /\ st' = [c \in Call |-> CASE st[c] = "active" -> "lost"
                             [] st[c] = "unknown" -> "failed"
                             [] OTHER -> st[c]]

StoreNext == Begin \/ TakeEffect \/ Return \/ CrashAndReopen

StoreSpec == StoreInit /\ [][StoreNext]_storeVars

=============================================================================

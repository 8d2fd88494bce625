------------------------------- MODULE Fixtures -------------------------------
(***************************************************************************)
(* The recorded market metadata (server/perp_meta_data.go,                 *)
(* server/spot_meta_data.go): two pairs of embedded files, each pair       *)
(* decoded once per process by whichever request needs it first            *)
(* (sync.Once), and the handlers that answer from them or, when a file was *)
(* not decoded, from a built-in fallback.                                  *)
(*                                                                         *)
(* A goroutine h passes through ensure in steps; the module that runs the  *)
(* goroutines gives each step the places it leads from and to.             *)
(***************************************************************************)
EXTENDS Integers

Markets == {"perp", "spot"}
Files == {"meta", "metaAndAssetCtxs"}

VARIABLES
    once,    \* the state of each sync.Once: "new", "running" or "done"
    found    \* the files of each market that are decoded

fixtureVars == <<once, found>>

FixturesInit ==
    /\ once = [m \in Markets |-> "new"]
    /\ found = [m \in Markets |-> {}]

\* Mutant: the flag is tested before the Once's work is done.
BugPassesEarly(m) == once[m] # "new"

\* once.Do returns to a goroutine that finds the work done, and makes one that
\* finds it running wait.
ReturnsFromDo(m) == once[m] = "done"

\* Mutant: the function given to Do needs its own result.
BugReentrant(m) ==
    /\ ReturnsFromDo(m)
    /\ found' = [found EXCEPT ![m] = @ \cup {"meta"}]
    /\ UNCHANGED once

\* The function given to Do: it decodes one file, then the other.
Runs(m) ==
    /\ once[m] = "new"
    /\ once' = [once EXCEPT ![m] = "running"]
    /\ UNCHANGED found
DecodesMeta(m) ==
    /\ found' = [found EXCEPT ![m] = @ \cup {"meta"}]
    /\ UNCHANGED once
DecodesCtxs(m) ==
    /\ found' = [found EXCEPT ![m] = Files]
    /\ once' = [once EXCEPT ![m] = "done"]

\* What a request of each kind is answered from.  An order names its coin by
\* an index into the perpetuals' universe.
MarketOf(kind) ==
    IF kind \in {"spotMeta", "spotMetaAndAssetCtxs"} THEN "spot" ELSE "perp"
FileOf(kind) ==
    IF kind \in {"metaAndAssetCtxs", "spotMetaAndAssetCtxs"} THEN "metaAndAssetCtxs" ELSE "meta"
Source(kind) ==
    IF FileOf(kind) \in found[MarketOf(kind)] THEN "recorded" ELSE "fallback"

FixturesTypeOK ==
    /\ once \in [Markets -> {"new", "running", "done"}]
    /\ found \in [Markets -> SUBSET Files]
=============================================================================

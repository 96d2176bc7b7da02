---------------------------- MODULE Environment ----------------------------
(***************************************************************************)
(* The environment of a Child: src/src/Child.cpp.  The user adds           *)
(* variables; the first run() reads /etc/profile.env before it starts.     *)
(* A line of that file exports a variable, or is of a kind that is         *)
(* skipped, or is too short for a value, which throws.                     *)
(***************************************************************************)
EXTENDS Naturals, Sequences

CONSTANTS
    EnvVars, EnvValues,
    Profiles   \* bound: contents of the file

ASSUME ProfilesAssumption == \A file \in Profiles :
    /\ Len(file) \in Nat
    /\ \A n \in 1 .. Len(file) : file[n].kind \in {"export", "skipped", "too short"}

VARIABLES
    env,       \* env_, a function from variables to values
    triedEnv,  \* triedEnv_
    own        \* history: what the user has added

environment == <<env, triedEnv, own>>

Set(f, x, v) == [y \in DOMAIN f \cup {x} |-> IF y = x THEN v ELSE f[y]]

EnvironmentInit == env = <<>> /\ triedEnv = FALSE /\ own = <<>>

AddEnv == \E x \in EnvVars, v \in EnvValues :
    /\ env' = Set(env, x, v)
    /\ own' = Set(own, x, v)
    /\ UNCHANGED triedEnv

\* Mutant: a variable that is there is replaced.
KeepsOld_Not(e, x) == FALSE

KeepsOld(e, x) == x \in DOMAIN e

ReadLine(st, line) ==
    CASE st.thrown \/ line.kind = "skipped" -> st
      [] ~st.thrown /\ line.kind = "export" ->
             IF KeepsOld(st.env, line.var) THEN st ELSE [st EXCEPT !.env = Set(@, line.var, line.value)]
      [] ~st.thrown /\ line.kind = "too short" -> [st EXCEPT !.thrown = TRUE]

\* readEnv_(), which is tried once, also if it throws in the middle.
ReadEnv == \E file \in Profiles :
    /\ ~triedEnv /\ triedEnv' = TRUE
    /\ LET after[n \in 0 .. Len(file)] ==
               IF n = 0 THEN [env |-> env, thrown |-> FALSE] ELSE ReadLine(after[n - 1], file[n])
       IN  env' = after[Len(file)].env
    /\ UNCHANGED own

\* The file could not be opened.
NoProfile == ~triedEnv /\ triedEnv' = TRUE /\ UNCHANGED <<env, own>>

EnvironmentNext == AddEnv \/ ReadEnv \/ NoProfile

\* What the user has added is what the program gets, whether the file was read
\* before or after it.
OwnVariablesWin == \A x \in DOMAIN own : x \in DOMAIN env /\ env[x] = own[x]
=============================================================================

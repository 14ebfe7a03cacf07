-------------------------------- MODULE Vm ----------------------------------
(***************************************************************************)
(* The machine of VmOps with its two callers: the POST /vm/execute handler *)
(* (fresh runtime, the caller's step limit, nothing kept) and a confirmed  *)
(* contract transaction (runtime on the contract's storage, which is       *)
(* replaced when the program ends well; blockchain.rs).  One iteration of  *)
(* the loop of execute_with_limit is one step.                             *)
(***************************************************************************)
EXTENDS VmOps

CONSTANTS
    Contracts,       \* sources of contract transactions
    Scripts,         \* sources posted to the handler
    Limits,          \* max_steps of those posts
    ChainLimit,      \* the limit of Runtime::execute, 10_000 in the code
    MaxCalls         \* bound: contract transactions

ASSUME VmAssumption ==
    /\ Limits \subseteq Nat \ {0} /\ ChainLimit \in Nat \ {0} /\ MaxCalls \in Nat
    /\ \A source \in Contracts \cup Scripts : source \in Seq(ToSet(source))

VARIABLES
    request,   \* who asked for the execution, and its source
    exec,      \* the execution under way, or the last one
    storage,   \* contract_states of the contract: a function of the keys stored
    log,       \* contract_events of the contract
    poisoned,  \* the chain's mutex is poisoned
    calls      \* history: sources of the contract transactions that succeeded

vars == <<request, exec, storage, log, poisoned, calls>>

-----------------------------------------------------------------------------
(* Callers *)

Init ==
    /\ request = [by |-> "nobody", source |-> << >>] /\ exec = [at |-> "none"]
    /\ storage = NoState /\ log = << >>
    /\ poisoned = FALSE /\ calls = << >>

\* compile, then start; a compile error ends the call.
Begin(source, state, limit, caller) ==
    LET c == Compile(source)
    IN  /\ exec.at # "running"
        /\ request' = [by |-> caller, source |-> source]
        /\ exec' = IF c.err # "ok" THEN [at |-> c.err] ELSE Start(c.program, state, limit)
        /\ UNCHANGED <<storage, log, poisoned, calls>>

\* vm_execute_handler.  It shares nothing with other calls, so it is enough to
\* explore it as the first.
PostScript(source, limit) ==
    /\ exec.at = "none"
    /\ source # << >>
    /\ Begin(source, NoState, limit, "handler")

\* with_chain_mut: a poisoned lock answers with an error, for good.
Lockable == ~poisoned

\* A contract transaction, as the chain's methods run it under the lock.
CallContract(source) ==
    /\ Lockable
    /\ Len(calls) < MaxCalls
    /\ Begin(source, storage, ChainLimit, "chain")

\* Mutant: what the program stored before failing is kept.
FinishAnyhow(e) ==
    IF e.at # "running" /\ request.by = "chain"
      THEN storage' = e.state /\ log' = log \o e.events
           /\ calls' = IF e.at = "ok" THEN Append(calls, request.source) ELSE calls
      ELSE UNCHANGED <<storage, log, calls>>

\* apply_contract_transition after execute: the storage is replaced and the events added.
Finish(e) ==
    IF e.at = "ok" /\ request.by = "chain"
      THEN storage' = e.state /\ log' = log \o e.events /\ calls' = Append(calls, request.source)
      ELSE UNCHANGED <<storage, log, calls>>

\* A panic unwinds through the chain's lock guard when it is held.
Execute ==
    /\ exec.at = "running"
    /\ exec' = Turn(exec) /\ UNCHANGED request
    /\ Finish(exec')
    /\ poisoned' = (poisoned \/ (exec'.at = "panic" /\ request.by = "chain"))

Next ==
    \/ \E s \in Scripts, n \in Limits : PostScript(s, n)
    \/ \E s \in Contracts : CallContract(s)
    \/ Execute

\* The handler runs to its end; nobody has to call.
Spec == Init /\ [][Next]_vars /\ WF_vars(Execute)
-----------------------------------------------------------------------------
(* Properties *)

Has(outcomes) == exec.at \in outcomes
RuntimeErrors == {"StackUnderflow", "InvalidJumpTarget", "StepLimitExceeded",
                  "StateKeyNotFound", "DivisionByZero"}
CompileErrors == {"UnknownOpcode", "MissingOperand", "InvalidOperand", "UnexpectedOperand"}

\* Values are i64 whatever the arithmetic, the counter stays inside the program
\* and every stack entry was paid for with a step.
TypeOK ==
    /\ exec.at \in {"none", "running", "ok", "panic"} \cup RuntimeErrors \cup CompileErrors
    /\ \A k \in DOMAIN storage : storage[k] \in I64
    /\ poisoned \in BOOLEAN /\ Len(calls) <= MaxCalls
    /\ Has({"running", "ok", "panic"} \cup RuntimeErrors) =>
          /\ ToSet(exec.stack) \subseteq I64
          /\ exec.pc \in 0..Len(exec.program)
          /\ exec.steps \in 0..exec.limit
          /\ Len(exec.stack) + Len(exec.events) <= exec.steps

\* steps_executed, which the handler reports, is exactly the smallest max_steps
\* the program needs: with it the same result comes out, with one less the limit stops it.
ReportedStepsSuffice ==
    Has({"ok"}) =>
        /\ Run(exec.program, exec.from, exec.steps).state = exec.state
        /\ Run(exec.program, exec.from, exec.steps).at = "ok"
        /\ exec.steps > 0 =>
              Run(exec.program, exec.from, exec.steps - 1).at = "StepLimitExceeded"

JumpsOf(program) == {i \in DOMAIN program : program[i].op \in {"JUMP", "JUMP_IF_FALSE"}}

Effect(op) == IF op \in {"LOAD_CONST", "LOAD"} THEN 1
              ELSE IF op \in {"EMIT", "HALT"} THEN 0 ELSE -1
Needs(op) == IF op \in Bare \ {"HALT"} THEN 2 ELSE IF op = "STORE" THEN 1 ELSE 0

\* The stack's height before the instruction at pc of a program without jumps.
Height(program, pc) ==
    LET at[i \in 0..pc] == IF i = 0 THEN 0 ELSE at[i - 1] + Effect(program[i].op)
    IN  at[pc]

\* In a program without jumps the stack's height is known from its text alone:
\* underflow happens exactly where the text says, never through a lost or extra operand.
StackAsWritten ==
    Has({"running", "ok", "StackUnderflow"}) /\ JumpsOf(exec.program) = {} =>
        LET height == Height(exec.program, exec.pc)
        IN  IF exec.at = "StackUnderflow" THEN height < Needs(exec.program[exec.pc + 1].op)
            ELSE Len(exec.stack) = height

Divisions(program) == {i \in DOMAIN program : program[i].op = "DIV"}

\* Every division has its divisor loaded just before it, neither 0 nor -1, and
\* no jump enters between.
GuardedDivisions(program) ==
    \A d \in Divisions(program) :
        /\ d > 1 /\ program[d - 1].op = "LOAD_CONST"
        /\ program[d - 1].args[1].val \notin {0, -1}
        /\ \A j \in JumpsOf(program) : program[j].args[1].val # d - 1

\* Division by -1 of i64::MIN panics instead of failing, and poisons the chain's
\* lock for good.  A program that loads a divisor other than 0 and -1 right
\* before each division does neither, whatever storage and saturation bring up.
GuardedDivisionIsSafe ==
    Has({"panic", "DivisionByZero"}) => ~GuardedDivisions(exec.program)

\* The contract's storage and events are those of running the calls that
\* succeeded, one on the storage of the other: a call that failed, at whatever
\* instruction, left nothing.
StorageIsReplay ==
    LET after[n \in 0..Len(calls)] ==
            IF n = 0 THEN [state |-> NoState, events |-> << >>]
            ELSE LET r == Run(Compile(calls[n]).program, after[n - 1].state, ChainLimit)
                 IN  [state |-> r.state, events |-> after[n - 1].events \o r.events]
    IN  storage = after[Len(calls)].state /\ log = after[Len(calls)].events

\* Every call ends, loops included: each turn takes a step from the limit.
CallsEnd == (exec.at = "running") ~> (exec.at # "running")
=============================================================================

------------------------------- MODULE VmOps --------------------------------
(***************************************************************************)
(* The line compiler and the stack machine of crates/vm (compiler.rs,      *)
(* runtime.rs, bytecode.rs), as functions.  Vm runs the machine one        *)
(* instruction at a time, MCBlockchain executes contract payloads with it. *)
(*                                                                         *)
(* Abstracted: a source line is its upper-cased opcode word and its        *)
(* operand tokens, a number or a name; comments, quotes and error texts    *)
(* are left out.  i64 has as many bits as MaxI64 says.                     *)
(***************************************************************************)
EXTENDS Integers, Sequences, SequencesExt, FiniteSets, FiniteSetsExt

CONSTANT MaxI64   \* i64::MAX

ASSUME I64Assumption == MaxI64 \in Nat \ {0}

MinI64 == -MaxI64 - 1
I64 == MinI64..MaxI64

-----------------------------------------------------------------------------
(* Compiler *)

\* Operand tokens, and lines.
Num(n) == [is |-> "number", val |-> n]
Name(k) == [is |-> "name", val |-> k]
Line(word, tokens) == [op |-> word, args |-> tokens]

Bare == {"ADD", "SUB", "MUL", "DIV", "EQ", "GT", "HALT"}
OneToken == {"LOAD_CONST", "LOAD", "STORE", "JUMP", "JUMP_IF_FALSE"}
Opcodes == Bare \cup OneToken \cup {"EMIT"}

IsNumber(token, set) == token.is = "number" /\ token.val \in set

\* The first thing wrong with a line that is not blank, or "ok".
LineError(line) ==
    CASE line.op \notin Opcodes -> "UnknownOpcode"
      [] line.op \in Bare -> IF line.args = << >> THEN "ok" ELSE "UnexpectedOperand"
      [] OTHER ->
            IF line.args = << >> THEN "MissingOperand"
            ELSE IF line.op \in OneToken /\ Len(line.args) > 1 THEN "UnexpectedOperand"
            ELSE IF \/ line.op = "LOAD_CONST" /\ ~IsNumber(line.args[1], I64)
                    \/ line.op \in {"JUMP", "JUMP_IF_FALSE"} /\ ~IsNumber(line.args[1], Nat)
                 THEN "InvalidOperand"
            ELSE "ok"

Blank(line) == line.op = ""

\* compile: blank lines give no instruction, so jump targets count instructions.
Compile(source) ==
    LET bad == {i \in DOMAIN source : ~Blank(source[i]) /\ LineError(source[i]) # "ok"}
        upTo[i \in 0..Len(source)] ==
            IF i = 0 THEN << >>
            ELSE IF Blank(source[i]) THEN upTo[i - 1]
            ELSE Append(upTo[i - 1], source[i])
    IN  IF bad # {} THEN [err |-> LineError(source[Min(bad)]), program |-> << >>]
        ELSE [err |-> "ok", program |-> upTo[Len(source)]]

-----------------------------------------------------------------------------
(* Runtime *)

Clamp(n) == IF n > MaxI64 THEN MaxI64 ELSE IF n < MinI64 THEN MinI64 ELSE n

Abs(n) == IF n < 0 THEN -n ELSE n

\* Rust's division truncates towards zero.
Quotient(l, r) == IF (l < 0) = (r < 0) THEN Abs(l) \div Abs(r) ELSE -(Abs(l) \div Abs(r))

Truth(b) == IF b THEN 1 ELSE 0

\* Mutant: the sum is not clamped.
ComputeWide(op, l, r) ==
    CASE op = "ADD" -> l + r
      [] op = "SUB" -> Clamp(l - r)
      [] op = "MUL" -> Clamp(l * r)
      [] op = "DIV" -> Quotient(l, r)
      [] op = "EQ"  -> Truth(l = r)
      [] op = "GT"  -> Truth(l > r)

Compute(op, l, r) ==
    CASE op = "ADD" -> Clamp(l + r)
      [] op = "SUB" -> Clamp(l - r)
      [] op = "MUL" -> Clamp(l * r)
      [] op = "DIV" -> Quotient(l, r)
      [] op = "EQ"  -> Truth(l = r)
      [] op = "GT"  -> Truth(l > r)

Start(program, state, limit) ==
    [at |-> "running", program |-> program, limit |-> limit, from |-> state,
     pc |-> 0, steps |-> 0, stack |-> << >>, state |-> state, events |-> << >>]

Ended(e, how) == [e EXCEPT !.at = how]

\* An instruction that leaves the stack s and goes on at target.
GoOn(e, s, target) == [e EXCEPT !.stack = s, !.pc = target, !.steps = @ + 1]

\* Mutant: the left operand is popped first.
BinarySwapped(e, op) ==
    LET n == Len(e.stack)
        r == e.stack[n - 1]
        l == e.stack[n]
    IN  IF n < 2 THEN Ended(e, "StackUnderflow")
        ELSE IF op = "DIV" /\ r = 0 THEN Ended(e, "DivisionByZero")
        ELSE IF op = "DIV" /\ l = MinI64 /\ r = -1 THEN Ended(e, "panic")
        ELSE GoOn(e, Append(SubSeq(e.stack, 1, n - 2), Compute(op, l, r)), e.pc + 1)

\* pop_binary_operands and the operation.  i64::MIN / -1 overflows, which panics.
Binary(e, op) ==
    LET n == Len(e.stack)
        l == e.stack[n - 1]
        r == e.stack[n]
    IN  IF n < 2 THEN Ended(e, "StackUnderflow")
        ELSE IF op = "DIV" /\ r = 0 THEN Ended(e, "DivisionByZero")
        ELSE IF op = "DIV" /\ l = MinI64 /\ r = -1 THEN Ended(e, "panic")
        ELSE GoOn(e, Append(SubSeq(e.stack, 1, n - 2), Compute(op, l, r)), e.pc + 1)

\* Mutant: a jump is not counted as a step.
JumpFree(e, s, target) ==
    IF target >= Len(e.program) THEN Ended(e, "InvalidJumpTarget")
    ELSE [e EXCEPT !.stack = s, !.pc = target]

Jump(e, s, target) ==
    IF target >= Len(e.program) THEN Ended(e, "InvalidJumpTarget")
    ELSE GoOn(e, s, target)

\* Mutant: the condition stays on the stack.
PopKept(e) == e.stack

\* The stack after a pop, when it is not empty.
Pop(e) == Front(e.stack)

\* HashMap::insert
Put(state, key, value) ==
    [k \in DOMAIN state \cup {key} |-> IF k = key THEN value ELSE state[k]]

Instruction(e) ==
    LET i == e.program[e.pc + 1]
        empty == e.stack = << >>
        next == e.pc + 1
    IN  CASE i.op = "LOAD_CONST" -> GoOn(e, Append(e.stack, i.args[1].val), next)
          [] i.op = "LOAD" ->
                IF i.args[1] \notin DOMAIN e.state THEN Ended(e, "StateKeyNotFound")
                ELSE GoOn(e, Append(e.stack, e.state[i.args[1]]), next)
          [] i.op = "STORE" ->
                IF empty THEN Ended(e, "StackUnderflow")
                ELSE GoOn([e EXCEPT !.state = Put(@, i.args[1], Last(e.stack))], Pop(e), next)
          [] i.op \in Bare \ {"HALT"} -> Binary(e, i.op)
          [] i.op = "JUMP" -> Jump(e, e.stack, i.args[1].val)
          [] i.op = "JUMP_IF_FALSE" ->
                IF empty THEN Ended(e, "StackUnderflow")
                ELSE IF Last(e.stack) = 0 THEN Jump(e, Pop(e), i.args[1].val)
                ELSE GoOn(e, Pop(e), next)
          [] i.op = "EMIT" -> GoOn([e EXCEPT !.events = Append(@, i.args)], e.stack, next)
          [] i.op = "HALT" -> [e EXCEPT !.steps = @ + 1, !.at = "ok"]

\* Mutant: the limit is checked one step late.
TurnLate(e) ==
    IF e.at # "running" THEN e
    ELSE IF e.pc >= Len(e.program) THEN Ended(e, "ok")
    ELSE IF e.steps > e.limit THEN Ended(e, "StepLimitExceeded")
    ELSE Instruction(e)

\* One turn of the loop of execute_with_limit.
Turn(e) ==
    IF e.at # "running" THEN e
    ELSE IF e.pc >= Len(e.program) THEN Ended(e, "ok")
    ELSE IF e.steps >= e.limit THEN Ended(e, "StepLimitExceeded")
    ELSE Instruction(e)

\* execute_with_limit as one function: limit instructions and the turn that ends it.
Run(program, state, limit) ==
    LET after[n \in 0..limit + 1] ==
            IF n = 0 THEN Start(program, state, limit) ELSE Turn(after[n - 1])
    IN  after[limit + 1]

\* HashMap::default
NoState == [k \in {} |-> 0]
=============================================================================

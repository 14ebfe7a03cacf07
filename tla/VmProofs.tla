------------------------------ MODULE VmProofs ------------------------------
(***************************************************************************)
(* For every set of programs, storage and limits: what the machine keeps   *)
(* of types, stack and steps, that the steps it reports are the ones it    *)
(* needs, which programs cannot panic, and that a contract's storage is    *)
(* the one of its successful calls.                                        *)
(***************************************************************************)
EXTENDS Vm, Sums

Values(state) == \A k \in DOMAIN state : state[k] \in I64

-----------------------------------------------------------------------------
(* Programs that compile *)

Jumps == {"JUMP", "JUMP_IF_FALSE"}

\* What the parser of the operands leaves in an instruction.
Encoded(line) ==
    /\ line.op \in Opcodes
    /\ line.op = "LOAD_CONST" => line.args[1].val \in I64
    /\ line.op \in Jumps => line.args[1].val \in Nat

IsProgram(program) ==
    /\ program \in Seq(ToSet(program))
    /\ \A i \in 1..Len(program) : Encoded(program[i])

LEMMA LineErrorKinds ==
    ASSUME NEW line
    PROVE  /\ LineError(line) \in CompileErrors \cup {"ok"}
           /\ LineError(line) = "ok" => Encoded(line)
  <1>1. CASE line.op \notin Opcodes
    BY <1>1 DEF LineError, CompileErrors, Opcodes
  <1>2. CASE line.op \in Bare
    BY <1>2 DEF LineError, CompileErrors, Encoded, Opcodes, Bare, Jumps
  <1>3. CASE line.op \in Opcodes \ Bare
    BY <1>3 DEF LineError, CompileErrors, Encoded, Opcodes, Bare, OneToken, Jumps, IsNumber
  <1>4. QED
    BY <1>1, <1>2, <1>3

\* What compile has pushed after each line.
PushSteps(pushed, source) ==
    /\ pushed[0] = << >>
    /\ \A i \in 1..Len(source) :
          pushed[i] = IF Blank(source[i]) THEN pushed[i - 1] ELSE Append(pushed[i - 1], source[i])

LEMMA PushesExist ==
    ASSUME NEW source, source \in Seq(ToSet(source)),
           Compile(source).err = "ok"
    PROVE  /\ \A i \in DOMAIN source : Blank(source[i]) \/ LineError(source[i]) = "ok"
           /\ \E pushed : PushSteps(pushed, source) /\ Compile(source).program = pushed[Len(source)]
  <1> DEFINE Push(q, i) == IF Blank(source[i]) THEN q ELSE Append(q, source[i])
  <1> DEFINE IsPushed(f, n) == f = [i \in 0..n |-> IF i = 0 THEN << >> ELSE Push(f[i - 1], i)]
  <1> DEFINE T == {n \in Nat : \E f : IsPushed(f, n)}
  <1> HIDE DEF Push
  <1>1. 0 \in T
    <2>1. PICK f : f = [i \in 0..0 |-> << >>]
      OBVIOUS
    <2>2. IsPushed(f, 0)
      BY <2>1
    <2>3. QED
      BY <2>2
  <1>2. ASSUME NEW n \in Nat, n \in T
        PROVE  n + 1 \in T
    <2>1. PICK f : IsPushed(f, n)
      BY <1>2
    <2>2. PICK g : g = [i \in 0..(n + 1) |-> IF i <= n THEN f[i] ELSE Push(f[n], n + 1)]
      OBVIOUS
    <2>3. IsPushed(g, n + 1)
      BY <2>1, <2>2
    <2>4. QED
      BY <2>3
  <1>3. PICK n : n = Len(source)
    OBVIOUS
  <1>4. n \in T
    <2> HIDE DEF T
    <2>1. QED
      BY <1>1, <1>2, <1>3, SetInduction
  <1>5. PICK pushed : pushed = CHOOSE f : IsPushed(f, n)
    OBVIOUS
  <1>6. IsPushed(pushed, n)
    BY <1>4, <1>5
  <1> DEFINE Wrong == {i \in DOMAIN source : ~Blank(source[i]) /\ LineError(source[i]) # "ok"}
  <1>7. Compile(source) = IF Wrong # {} THEN [err |-> LineError(source[Min(Wrong)]), program |-> << >>]
                          ELSE [err |-> "ok", program |-> pushed[Len(source)]]
    BY <1>3, <1>5 DEF Compile, Push
  <1>8. pushed[0] = << >> /\ \A i \in 1..Len(source) : pushed[i] = Push(pushed[i - 1], i)
    BY <1>3, <1>6
  <1>9. PushSteps(pushed, source)
    BY <1>8, Zenon DEF PushSteps, Push
  <1>10. Wrong = {}
    <2>1. ASSUME Wrong # {}
          PROVE  FALSE
      <3>1. PICK i : i = Min(Wrong)
        OBVIOUS
      <3>2. i \in Wrong
        <4>1. Wrong \subseteq Nat
          OBVIOUS
        <4>2. \E x \in Wrong : \A y \in Wrong : x <= y
          <5> HIDE DEF Wrong
          <5>1. QED
            BY <2>1, <4>1, LeastNumber
        <4>3. QED
          BY <3>1, <4>2 DEF Min
      <3>3. Compile(source).err = LineError(source[i])
        BY <1>7, <2>1, <3>1
      <3>4. QED
        BY <3>2, <3>3
    <2>2. QED
      BY <2>1
  <1>11. QED
    BY <1>7, <1>9, <1>10

LEMMA CompiledIsProgram ==
    ASSUME NEW source, source \in Seq(ToSet(source)), Compile(source).err = "ok"
    PROVE  IsProgram(Compile(source).program)
  <1>1. PICK k : k = Len(source)
    OBVIOUS
  <1>2. PICK pushed : PushSteps(pushed, source) /\ Compile(source).program = pushed[k]
    BY <1>1, PushesExist
  <1> DEFINE Lines == {line \in ToSet(source) : Encoded(line)}
  <1>3. k \in Nat /\ \A i \in 1..k : Blank(source[i]) \/ source[i] \in Lines
    <2>1. \A i \in 1..k : source[i] \in ToSet(source) /\ i \in DOMAIN source
      BY <1>1
    <2>2. \A i \in DOMAIN source : Blank(source[i]) \/ LineError(source[i]) = "ok"
      BY PushesExist
    <2>3. QED
      BY <1>1, <2>1, <2>2, LineErrorKinds
  <1> HIDE DEF Lines
  <1> DEFINE T == {n \in Nat : n <= k => pushed[n] \in Seq(Lines)}
  <1>4. 0 \in T
    <2>1. pushed[0] = << >>
      BY <1>2 DEF PushSteps
    <2>2. << >> \in Seq(Lines)
      OBVIOUS
    <2>3. pushed[0] \in Seq(Lines)
      BY <2>1, <2>2, Zenon
    <2>4. QED
      BY <2>3
  <1>5. ASSUME NEW n \in Nat, n \in T
        PROVE  n + 1 \in T
    <2> SUFFICES ASSUME n + 1 <= k
                 PROVE  pushed[n + 1] \in Seq(Lines)
      OBVIOUS
    <2>1. PICK q : q = pushed[n]
      OBVIOUS
    <2>2. PICK line : line = source[n + 1]
      OBVIOUS
    <2>3. n + 1 \in 1..k /\ (n + 1) - 1 = n /\ q \in Seq(Lines)
      BY <1>3, <1>5, <2>1
    <2>4. pushed[n + 1] = IF Blank(line) THEN q ELSE Append(q, line)
      BY <1>1, <1>2, <2>1, <2>2, <2>3, Zenon DEF PushSteps
    <2>5. ~Blank(line) => line \in Lines
      BY <1>3, <2>2, <2>3
    <2>6. QED
      BY <2>3, <2>4, <2>5
  <1>6. k \in T
    <2> HIDE DEF T
    <2>1. QED
      BY <1>3, <1>4, <1>5, SetInduction
  <1>7. PICK program : program = Compile(source).program
    OBVIOUS
  <1>8. program \in Seq(Lines)
    BY <1>2, <1>3, <1>6, <1>7
  <1>9. program \in Seq(ToSet(program))
    BY <1>8 DEF ToSet
  <1>10. \A i \in 1..Len(program) : Encoded(program[i])
    BY <1>8 DEF Lines
  <1>11. QED
    BY <1>7, <1>9, <1>10 DEF IsProgram

LEMMA CompileErrorKinds ==
    ASSUME NEW source
    PROVE  Compile(source).err \in CompileErrors \cup {"ok"}
  BY LineErrorKinds DEF Compile

-----------------------------------------------------------------------------
(* One turn of the machine *)

Fields == {"at", "program", "limit", "from", "pc", "steps", "stack", "state", "events"}

Outcomes == {"running", "ok", "panic"} \cup RuntimeErrors

\* The arguments that EMIT puts into events.
Emitted(program) == {program[i].args : i \in 1..Len(program)}

\* A machine with a program that compiled, and what its run has paid for.
IsMachine(e) ==
    /\ Fields \subseteq DOMAIN e
    /\ e.at \in Outcomes
    /\ IsProgram(e.program) /\ e.limit \in Nat
    /\ e.pc \in 0..Len(e.program) /\ e.steps \in 0..e.limit
    /\ e.stack \in Seq(I64) /\ Values(e.state) /\ e.events \in Seq(Emitted(e.program))
    /\ Len(e.stack) + Len(e.events) <= e.steps

\* The instruction that a running machine is at.
Current(e) == e.program[e.pc + 1]
Ready(e) == e.at = "running" /\ e.pc < Len(e.program) /\ e.steps < e.limit

SameRun(e, t) ==
    /\ DOMAIN t = DOMAIN e
    /\ t.program = e.program /\ t.limit = e.limit /\ t.from = e.from

\* What a turn does: the machine stops where it is, ...
Stops(e, t) ==
    /\ t.at \in Outcomes \ {"running"}
    /\ t.pc = e.pc /\ t.steps = e.steps /\ t.stack = e.stack
    /\ t.state = e.state /\ t.events = e.events
    /\ t.at = "ok" <=> e.pc >= Len(e.program)
    /\ t.at # "ok" /\ e.steps < e.limit => Ready(e)
    /\ t.at = "StackUnderflow" =>
          Ready(e) /\ (Current(e).op \in Jumps \/ Len(e.stack) < Needs(Current(e).op))
    /\ t.at \in {"panic", "DivisionByZero"} =>
          /\ Ready(e) /\ Current(e).op = "DIV" /\ Len(e.stack) > 1
          /\ e.stack[Len(e.stack)] \in {0, -1}

\* ... or at HALT, ...
Halts(e, t) ==
    /\ Ready(e) /\ Current(e).op = "HALT"
    /\ t.at = "ok" /\ t.steps = e.steps + 1
    /\ t.pc = e.pc /\ t.stack = e.stack /\ t.state = e.state /\ t.events = e.events

\* ... or it goes on.
Moves(e, t) ==
    /\ Ready(e) /\ Current(e).op # "HALT"
    /\ t.at = "running" /\ t.steps = e.steps + 1
    /\ \/ t.pc = e.pc + 1
       \/ Current(e).op \in Jumps /\ t.pc = Current(e).args[1].val /\ t.pc < Len(e.program)
    /\ t.stack \in Seq(I64) /\ Values(t.state)
    /\ \/ t.events = e.events
       \/ Current(e).op = "EMIT" /\ t.events = Append(e.events, Current(e).args)
    /\ Current(e).op \notin Jumps =>
          t.pc = e.pc + 1 /\ Len(t.stack) = Len(e.stack) + Effect(Current(e).op)
    /\ Current(e).op \in Jumps => Len(t.stack) <= Len(e.stack)
    /\ Current(e).op = "LOAD_CONST" => t.stack = Append(e.stack, Current(e).args[1].val)

LEMMA EndedFields ==
    ASSUME NEW e, Fields \subseteq DOMAIN e, NEW how
    PROVE  /\ SameRun(e, Ended(e, how)) /\ Ended(e, how).at = how
           /\ Ended(e, how).pc = e.pc /\ Ended(e, how).steps = e.steps
           /\ Ended(e, how).stack = e.stack /\ Ended(e, how).state = e.state
           /\ Ended(e, how).events = e.events
  BY DEF Ended, SameRun, Fields

LEMMA GoOnFields ==
    ASSUME NEW e, Fields \subseteq DOMAIN e, NEW s, NEW target
    PROVE  /\ SameRun(e, GoOn(e, s, target)) /\ GoOn(e, s, target).at = e.at
           /\ GoOn(e, s, target).pc = target /\ GoOn(e, s, target).steps = e.steps + 1
           /\ GoOn(e, s, target).stack = s /\ GoOn(e, s, target).state = e.state
           /\ GoOn(e, s, target).events = e.events
  <1>1. PICK a : a = [e EXCEPT !.stack = s]
    OBVIOUS
  <1>2. PICK b : b = [a EXCEPT !.pc = target]
    OBVIOUS
  <1>3. GoOn(e, s, target) = [b EXCEPT !.steps = @ + 1]
    BY <1>1, <1>2 DEF GoOn
  <1>4. /\ DOMAIN a = DOMAIN e /\ a.stack = s /\ a.pc = e.pc /\ a.steps = e.steps /\ a.at = e.at
        /\ a.program = e.program /\ a.limit = e.limit /\ a.from = e.from
        /\ a.state = e.state /\ a.events = e.events
    BY <1>1 DEF Fields
  <1>5. /\ DOMAIN b = DOMAIN e /\ b.stack = s /\ b.pc = target /\ b.steps = e.steps /\ b.at = e.at
        /\ b.program = e.program /\ b.limit = e.limit /\ b.from = e.from
        /\ b.state = e.state /\ b.events = e.events
    BY <1>2, <1>4 DEF Fields
  <1>6. QED
    BY <1>3, <1>5 DEF Fields, SameRun

\* Arithmetic saturates, so its results are i64; but MIN / -1 is not one.
LEMMA ComputeIsI64 ==
    ASSUME NEW l \in I64, NEW r \in I64,
           NEW op \in {"ADD", "SUB", "MUL", "DIV", "EQ", "GT"},
           op = "DIV" => r # 0 /\ ~(l = MinI64 /\ r = -1)
    PROVE  Compute(op, l, r) \in I64
  <1>1. /\ MaxI64 \in Nat /\ MaxI64 > 0 /\ MinI64 = -MaxI64 - 1 /\ l \in Int /\ r \in Int
        /\ MinI64 <= l /\ l <= MaxI64 /\ MinI64 <= r /\ r <= MaxI64
    BY I64Assumption DEF I64, MinI64
  <1>2. \A n \in Int : Clamp(n) \in I64
    BY <1>1 DEF Clamp, I64
  <1>3. CASE op \in {"ADD", "SUB", "MUL"}
    <2>1. l + r \in Int /\ l - r \in Int /\ l * r \in Int
      BY <1>1
    <2>2. QED
      BY <1>2, <1>3, <2>1 DEF Compute
  <1>4. CASE op \in {"EQ", "GT"}
    BY <1>1, <1>4 DEF Compute, Truth, I64
  <1>5. CASE op = "DIV"
    <2>1. Compute(op, l, r) = Quotient(l, r)
      BY <1>5 DEF Compute
    <2>2. r # 0 /\ ~(l = MinI64 /\ r = -1)
      BY <1>5
    <2>3. PICK m : m = Abs(l)
      OBVIOUS
    <2>4. PICK d : d = Abs(r)
      OBVIOUS
    <2>5. /\ m \in Nat /\ d \in Nat /\ d > 0 /\ m <= MaxI64 + 1
          /\ m = MaxI64 + 1 => l = MinI64
          /\ d = 1 => r = 1 \/ r = -1
      BY <1>1, <2>2, <2>3, <2>4 DEF Abs
    <2>6. m \div d \in Nat /\ m \div d <= m /\ (d > 1 /\ m > 0 => m \div d < m)
      BY <2>5
    <2>7. Quotient(l, r) = IF (l < 0) = (r < 0) THEN m \div d ELSE -(m \div d)
      BY <2>3, <2>4 DEF Quotient
    <2>8. PICK q : q = m \div d
      OBVIOUS
    <2>9. CASE d = 1
      <3>1. q = m
        BY <2>5, <2>8, <2>9
      <3>2. QED
        BY <1>1, <2>1, <2>2, <2>3, <2>5, <2>7, <2>8, <2>9, <3>1 DEF I64, Abs
    <2>10. CASE d > 1
      <3>1. q \in Nat /\ q <= MaxI64
        BY <1>1, <2>5, <2>6, <2>8, <2>10
      <3>2. QED
        BY <1>1, <2>1, <2>7, <2>8, <3>1 DEF I64
    <2>11. QED
      BY <2>5, <2>9, <2>10
  <1>6. QED
    BY <1>3, <1>4, <1>5

LEMMA BinaryKinds ==
    ASSUME NEW e, IsMachine(e), Ready(e), NEW op \in {"ADD", "SUB", "MUL", "DIV", "EQ", "GT"},
           Current(e).op = op
    PROVE  SameRun(e, Binary(e, op)) /\ (Stops(e, Binary(e, op)) \/ Moves(e, Binary(e, op)))
  <1>1. PICK n : n = Len(e.stack)
    OBVIOUS
  <1>2. PICK s : s = e.stack
    OBVIOUS
  <1>3. PICK l : l = s[n - 1]
    OBVIOUS
  <1>4. PICK r : r = s[n]
    OBVIOUS
  <1>5. /\ n \in Nat /\ s \in Seq(I64) /\ n = Len(s) /\ Fields \subseteq DOMAIN e
        /\ e.at = "running" /\ Len(e.program) \in Nat /\ e.pc \in Nat /\ e.pc < Len(e.program)
    BY <1>1, <1>2 DEF IsMachine, IsProgram, Ready
  <1>6. n >= 2 => l \in I64 /\ r \in I64
    BY <1>3, <1>4, <1>5
  <1>7. ASSUME NEW how \in Outcomes \ {"running", "ok"},
               how = "StackUnderflow" => n < 2,
               how \in {"panic", "DivisionByZero"} => op = "DIV" /\ n > 1 /\ r \in {0, -1}
        PROVE  Stops(e, Ended(e, how))
    <2>1. how = "StackUnderflow" => Len(e.stack) < Needs(Current(e).op)
      <3>1. Needs(op) = 2
        BY DEF Needs, Bare
      <3>2. QED
        BY <1>1, <1>5, <1>7, <3>1
    <2>2. how \in {"panic", "DivisionByZero"} =>
             Current(e).op = "DIV" /\ Len(e.stack) > 1 /\ e.stack[Len(e.stack)] \in {0, -1}
      BY <1>1, <1>2, <1>4, <1>7
    <2>3. ~(e.pc >= Len(e.program))
      BY <1>5
    <2>4. QED
      BY <1>5, <1>7, <2>1, <2>2, <2>3, EndedFields DEF Stops
  <1>8. CASE n < 2
    <2>1. Binary(e, op) = Ended(e, "StackUnderflow")
      BY <1>1, <1>8 DEF Binary
    <2>2. QED
      BY <1>5, <1>7, <1>8, <2>1, EndedFields DEF Outcomes, RuntimeErrors
  <1>9. CASE n >= 2 /\ op = "DIV" /\ r = 0
    <2>1. Binary(e, op) = Ended(e, "DivisionByZero")
      BY <1>1, <1>2, <1>4, <1>5, <1>9 DEF Binary
    <2>2. QED
      BY <1>5, <1>7, <1>9, <2>1, EndedFields DEF Outcomes, RuntimeErrors
  <1>10. CASE n >= 2 /\ op = "DIV" /\ r # 0 /\ l = MinI64 /\ r = -1
    <2>1. Binary(e, op) = Ended(e, "panic")
      BY <1>1, <1>2, <1>3, <1>4, <1>5, <1>10 DEF Binary
    <2>2. QED
      BY <1>5, <1>7, <1>10, <2>1, EndedFields DEF Outcomes, RuntimeErrors
  <1>11. CASE n >= 2 /\ (op = "DIV" => r # 0 /\ ~(l = MinI64 /\ r = -1))
    <2>1. PICK c : c = Compute(op, l, r)
      OBVIOUS
    <2>2. PICK t : t = Append(SubSeq(s, 1, n - 2), c)
      OBVIOUS
    <2>3. Binary(e, op) = GoOn(e, t, e.pc + 1)
      BY <1>1, <1>2, <1>3, <1>4, <1>5, <1>11, <2>1, <2>2 DEF Binary
    <2>4. c \in I64
      BY <1>6, <1>11, <2>1, ComputeIsI64
    <2>5. t \in Seq(I64) /\ Len(t) = n - 1
      <3>1. PICK front : front = SubSeq(s, 1, n - 2)
        OBVIOUS
      <3>2. front \in Seq(I64) /\ Len(front) = n - 2
        BY <1>5, <1>11, <3>1
      <3>3. QED
        BY <1>5, <2>2, <2>4, <3>1, <3>2
    <2>6. Len(t) = Len(e.stack) + Effect(op) /\ op # "HALT" /\ op \notin Jumps /\ op # "LOAD_CONST"
      BY <1>1, <1>5, <2>5 DEF Effect, Jumps
    <2>7. Values(e.state)
      BY DEF IsMachine
    <2>8. QED
      BY <1>5, <2>3, <2>5, <2>6, <2>7, GoOnFields DEF Moves
  <1>12. QED
    BY <1>5, <1>8, <1>9, <1>10, <1>11

LEMMA JumpKinds ==
    ASSUME NEW e, IsMachine(e), Ready(e), Current(e).op \in Jumps,
           NEW s \in Seq(I64), Len(s) <= Len(e.stack)
    PROVE  LET t == Jump(e, s, Current(e).args[1].val)
           IN  SameRun(e, t) /\ (Stops(e, t) \/ Moves(e, t))
  <1>1. PICK target : target = Current(e).args[1].val
    OBVIOUS
  <1>2. /\ Fields \subseteq DOMAIN e /\ e.at = "running" /\ Values(e.state)
        /\ Len(e.program) \in Nat /\ e.pc \in Nat /\ e.pc < Len(e.program)
    BY DEF IsMachine, IsProgram, Ready
  <1>3. target \in Nat
    BY <1>1, <1>2 DEF IsMachine, IsProgram, Encoded, Current
  <1>4. Current(e).op # "HALT" /\ Current(e).op # "LOAD_CONST"
    BY DEF Jumps
  <1>5. CASE target >= Len(e.program)
    <2>1. Jump(e, s, target) = Ended(e, "InvalidJumpTarget")
      BY <1>5 DEF Jump
    <2>2. ~(e.pc >= Len(e.program))
      BY <1>2
    <2>3. QED
      BY <1>1, <1>2, <2>1, <2>2, EndedFields DEF Stops, Outcomes, RuntimeErrors
  <1>6. CASE target < Len(e.program)
    <2>1. Jump(e, s, target) = GoOn(e, s, target)
      BY <1>2, <1>3, <1>6 DEF Jump
    <2>2. QED
      BY <1>1, <1>2, <1>4, <1>6, <2>1, GoOnFields DEF Moves
  <1>7. QED
    BY <1>2, <1>3, <1>5, <1>6

LEMMA PopIsSeq ==
    ASSUME NEW e, e.stack \in Seq(I64), e.stack # << >>
    PROVE  /\ Pop(e) \in Seq(I64) /\ Len(Pop(e)) = Len(e.stack) - 1 /\ Len(e.stack) \in Nat
           /\ Last(e.stack) \in I64
  <1>1. PICK s : s = e.stack
    OBVIOUS
  <1>2. s \in Seq(I64) /\ Len(s) \in Nat /\ Len(s) > 0
    <2>1. s # << >> /\ s \in Seq(I64)
      BY <1>1
    <2>2. QED
      BY <2>1
  <1>3. Pop(e) = SubSeq(s, 1, Len(s) - 1) /\ Last(e.stack) = s[Len(s)]
    BY <1>1 DEF Pop, Front, Last
  <1>4. QED
    BY <1>1, <1>2, <1>3

LEMMA InstructionKinds ==
    ASSUME NEW e, IsMachine(e), Ready(e)
    PROVE  /\ SameRun(e, Instruction(e))
           /\ Stops(e, Instruction(e)) \/ Halts(e, Instruction(e)) \/ Moves(e, Instruction(e))
  <1>1. PICK i : i = Current(e)
    OBVIOUS
  <1>2. PICK t : t = Instruction(e)
    OBVIOUS
  <1>3. /\ Fields \subseteq DOMAIN e /\ e.at = "running" /\ Values(e.state)
        /\ Len(e.program) \in Nat /\ e.pc \in Nat /\ e.pc < Len(e.program)
        /\ e.stack \in Seq(I64) /\ Len(e.stack) \in Nat
    BY DEF IsMachine, IsProgram, Ready
  <1>4. Encoded(i) /\ i.op \in Opcodes
    BY <1>1, <1>3 DEF IsMachine, IsProgram, Encoded, Current
  <1>5. t = CASE i.op = "LOAD_CONST" -> GoOn(e, Append(e.stack, i.args[1].val), e.pc + 1)
              [] i.op = "LOAD" ->
                    IF i.args[1] \notin DOMAIN e.state THEN Ended(e, "StateKeyNotFound")
                    ELSE GoOn(e, Append(e.stack, e.state[i.args[1]]), e.pc + 1)
              [] i.op = "STORE" ->
                    IF e.stack = << >> THEN Ended(e, "StackUnderflow")
                    ELSE GoOn([e EXCEPT !.state = Put(@, i.args[1], Last(e.stack))], Pop(e), e.pc + 1)
              [] i.op \in Bare \ {"HALT"} -> Binary(e, i.op)
              [] i.op = "JUMP" -> Jump(e, e.stack, i.args[1].val)
              [] i.op = "JUMP_IF_FALSE" ->
                    IF e.stack = << >> THEN Ended(e, "StackUnderflow")
                    ELSE IF Last(e.stack) = 0 THEN Jump(e, Pop(e), i.args[1].val)
                    ELSE GoOn(e, Pop(e), e.pc + 1)
              [] i.op = "EMIT" ->
                    GoOn([e EXCEPT !.events = Append(@, i.args)], e.stack, e.pc + 1)
              [] i.op = "HALT" -> [e EXCEPT !.steps = @ + 1, !.at = "ok"]
    BY <1>1, <1>2, Zenon DEF Instruction, Current
  <1> SUFFICES SameRun(e, t) /\ (Stops(e, t) \/ Halts(e, t) \/ Moves(e, t))
    BY <1>2
  <1>6. CASE i.op = "LOAD_CONST"
    <2>1. PICK v : v = i.args[1].val
      OBVIOUS
    <2>2. PICK s : s = Append(e.stack, v)
      OBVIOUS
    <2>3. t = GoOn(e, s, e.pc + 1)
      BY <1>5, <1>6, <2>1, <2>2 DEF Bare
    <2>4. v \in I64
      BY <1>4, <1>6, <2>1 DEF Encoded
    <2>5. s \in Seq(I64) /\ Len(s) = Len(e.stack) + 1
      BY <1>3, <2>2, <2>4
    <2>6. Effect(i.op) = 1 /\ i.op \notin Jumps /\ i.op # "HALT"
      BY <1>6 DEF Effect, Jumps
    <2>7. QED
      <3>1. s = Append(e.stack, Current(e).args[1].val)
        BY <1>1, <2>1, <2>2
      <3>2. SameRun(e, t) /\ t.at = "running" /\ t.steps = e.steps + 1 /\ t.pc = e.pc + 1
            /\ t.stack = s /\ t.state = e.state /\ t.events = e.events
        BY <1>3, <2>3, GoOnFields
      <3>3. t.stack = Append(e.stack, Current(e).args[1].val)
        BY <3>1, <3>2, Zenon
      <3>4. Len(t.stack) = Len(e.stack) + Effect(Current(e).op) /\ t.stack \in Seq(I64)
        BY <1>1, <2>5, <2>6, <3>2
      <3>5. QED
        BY <1>1, <1>3, <2>6, <3>2, <3>3, <3>4, Zenon DEF Moves
  <1>7. CASE i.op = "LOAD"
    <2>1. CASE i.args[1] \notin DOMAIN e.state
      <3>1. t = Ended(e, "StateKeyNotFound")
        BY <1>5, <1>7, <2>1 DEF Bare
      <3>2. ~(e.pc >= Len(e.program))
        BY <1>3
      <3>3. QED
        BY <1>3, <3>1, <3>2, EndedFields DEF Stops, Outcomes, RuntimeErrors
    <2>2. CASE i.args[1] \in DOMAIN e.state
      <3>1. PICK v : v = e.state[i.args[1]]
        OBVIOUS
      <3>2. PICK s : s = Append(e.stack, v)
        OBVIOUS
      <3>3. t = GoOn(e, s, e.pc + 1)
        BY <1>5, <1>7, <2>2, <3>1, <3>2 DEF Bare
      <3>4. v \in I64
        BY <1>3, <2>2, <3>1 DEF Values
      <3>5. s \in Seq(I64) /\ Len(s) = Len(e.stack) + 1
        BY <1>3, <3>2, <3>4
      <3>6. Effect(i.op) = 1 /\ i.op \notin Jumps /\ i.op # "HALT" /\ i.op # "LOAD_CONST"
        BY <1>7 DEF Effect, Jumps
      <3>7. QED
        BY <1>1, <1>3, <3>3, <3>5, <3>6, GoOnFields DEF Moves
    <2>3. QED
      BY <2>1, <2>2
  <1>8. CASE i.op = "STORE"
    <2>1. CASE e.stack = << >>
      <3>1. t = Ended(e, "StackUnderflow")
        BY <1>5, <1>8, <2>1 DEF Bare
      <3>2. Len(e.stack) < Needs(i.op)
        BY <1>8, <2>1 DEF Needs, Bare
      <3>3. ~(e.pc >= Len(e.program))
        BY <1>3
      <3>4. QED
        BY <1>1, <1>3, <3>1, <3>2, <3>3, EndedFields DEF Stops, Outcomes, RuntimeErrors
    <2>2. CASE e.stack # << >>
      <3>1. PICK v : v = Last(e.stack)
        OBVIOUS
      <3>2. PICK s : s = Pop(e)
        OBVIOUS
      <3>3. PICK x : x = Put(e.state, i.args[1], v)
        OBVIOUS
      <3>4. PICK d : d = [e EXCEPT !.state = x]
        OBVIOUS
      <3>5. t = GoOn(d, s, e.pc + 1)
        BY <1>5, <1>8, <2>2, <3>1, <3>2, <3>3, <3>4 DEF Bare
      <3>6. v \in I64 /\ s \in Seq(I64) /\ Len(s) = Len(e.stack) - 1
        BY <1>3, <2>2, <3>1, <3>2, PopIsSeq
      <3>7. Values(x)
        BY <1>3, <3>3, <3>6 DEF Values, Put
      <3>8. /\ DOMAIN d = DOMAIN e /\ d.state = x /\ SameRun(e, d)
            /\ d.at = e.at /\ d.steps = e.steps /\ d.events = e.events
        BY <1>3, <3>4 DEF Fields, SameRun
      <3>9. SameRun(e, t) /\ t.at = e.at /\ t.steps = e.steps + 1 /\ t.pc = e.pc + 1
            /\ t.stack = s /\ t.state = x /\ t.events = e.events
        BY <1>3, <3>5, <3>8, GoOnFields DEF SameRun
      <3>10. /\ Len(s) = Len(e.stack) + Effect(i.op)
             /\ i.op \notin Jumps /\ i.op # "HALT" /\ i.op # "LOAD_CONST"
        BY <1>3, <1>8, <3>6 DEF Effect, Jumps
      <3>11. QED
        BY <1>1, <1>3, <3>6, <3>7, <3>9, <3>10 DEF Moves
    <2>3. QED
      BY <2>1, <2>2
  <1>9. CASE i.op \in Bare \ {"HALT"}
    <2>1. t = Binary(e, i.op)
      BY <1>5, <1>9 DEF Bare
    <2>2. i.op \in {"ADD", "SUB", "MUL", "DIV", "EQ", "GT"}
      BY <1>9 DEF Bare
    <2>3. QED
      BY <1>1, <2>1, <2>2, BinaryKinds
  <1>10. CASE i.op = "JUMP"
    <2>1. t = Jump(e, e.stack, i.args[1].val)
      BY <1>5, <1>10 DEF Bare
    <2>2. i.op \in Jumps /\ Len(e.stack) <= Len(e.stack)
      BY <1>3, <1>10 DEF Jumps
    <2>3. QED
      BY <1>1, <1>3, <2>1, <2>2, JumpKinds
  <1>11. CASE i.op = "JUMP_IF_FALSE"
    <2>1. i.op \in Jumps /\ i.op # "HALT" /\ i.op # "LOAD_CONST"
      BY <1>11 DEF Jumps
    <2>2. CASE e.stack = << >>
      <3>1. t = Ended(e, "StackUnderflow")
        BY <1>5, <1>11, <2>2 DEF Bare
      <3>2. ~(e.pc >= Len(e.program))
        BY <1>3
      <3>3. QED
        BY <1>1, <1>3, <2>1, <3>1, <3>2, EndedFields DEF Stops, Outcomes, RuntimeErrors
    <2>3. CASE e.stack # << >>
      <3>1. PICK s : s = Pop(e)
        OBVIOUS
      <3>2. s \in Seq(I64) /\ Len(s) <= Len(e.stack)
        BY <1>3, <2>3, <3>1, PopIsSeq
      <3>3. \/ t = Jump(e, s, i.args[1].val)
            \/ t = GoOn(e, s, e.pc + 1)
        BY <1>5, <1>11, <2>3, <3>1 DEF Bare
      <3>4. CASE t = Jump(e, s, i.args[1].val)
        BY <1>1, <2>1, <3>2, <3>4, JumpKinds
      <3>5. CASE t = GoOn(e, s, e.pc + 1)
        BY <1>1, <1>3, <2>1, <3>2, <3>5, GoOnFields DEF Moves
      <3>6. QED
        BY <3>3, <3>4, <3>5
    <2>4. QED
      BY <2>2, <2>3
  <1>12. CASE i.op = "EMIT"
    <2>1. PICK d : d = [e EXCEPT !.events = Append(@, i.args)]
      OBVIOUS
    <2>2. t = GoOn(d, e.stack, e.pc + 1)
      BY <1>5, <1>12, <2>1 DEF Bare
    <2>3. /\ DOMAIN d = DOMAIN e /\ d.events = Append(e.events, i.args) /\ SameRun(e, d)
          /\ d.at = e.at /\ d.steps = e.steps /\ d.state = e.state
      BY <1>3, <2>1 DEF Fields, SameRun
    <2>4. SameRun(e, t) /\ t.at = e.at /\ t.steps = e.steps + 1 /\ t.pc = e.pc + 1
          /\ t.stack = e.stack /\ t.state = e.state /\ t.events = Append(e.events, i.args)
      BY <1>3, <2>2, <2>3, GoOnFields DEF SameRun
    <2>5. /\ Len(e.stack) = Len(e.stack) + Effect(i.op)
          /\ i.op \notin Jumps /\ i.op # "HALT" /\ i.op # "LOAD_CONST"
      BY <1>3, <1>12 DEF Effect, Jumps
    <2>6. QED
      BY <1>1, <1>3, <1>12, <2>4, <2>5 DEF Moves
  <1>13. CASE i.op = "HALT"
    <2>1. t = [e EXCEPT !.steps = @ + 1, !.at = "ok"]
      BY <1>5, <1>13 DEF Bare
    <2>2. PICK d : d = [e EXCEPT !.steps = @ + 1]
      OBVIOUS
    <2>3. t = [d EXCEPT !.at = "ok"]
      BY <2>1, <2>2
    <2>4. /\ DOMAIN d = DOMAIN e /\ SameRun(e, d) /\ d.steps = e.steps + 1
          /\ d.pc = e.pc /\ d.stack = e.stack /\ d.state = e.state /\ d.events = e.events
      BY <1>3, <2>2 DEF Fields, SameRun
    <2>5. /\ DOMAIN t = DOMAIN e /\ SameRun(e, t) /\ t.steps = e.steps + 1 /\ t.at = "ok"
          /\ t.pc = e.pc /\ t.stack = e.stack /\ t.state = e.state /\ t.events = e.events
      BY <1>3, <2>3, <2>4 DEF Fields, SameRun
    <2>6. QED
      BY <1>1, <1>13, <2>5 DEF Halts
  <1>14. QED
    BY <1>2, <1>4, <1>6, <1>7, <1>8, <1>9, <1>10, <1>11, <1>12, <1>13
       DEF Opcodes, OneToken, Bare

LEMMA TurnKinds ==
    ASSUME NEW e, IsMachine(e), e.at = "running"
    PROVE  /\ SameRun(e, Turn(e))
           /\ Stops(e, Turn(e)) \/ Halts(e, Turn(e)) \/ Moves(e, Turn(e))
  <1>1. /\ Fields \subseteq DOMAIN e /\ Len(e.program) \in Nat /\ e.pc \in Nat
        /\ e.steps \in Nat /\ e.limit \in Nat
    BY DEF IsMachine, IsProgram
  <1>2. CASE e.pc >= Len(e.program)
    <2>1. Turn(e) = Ended(e, "ok")
      BY <1>2 DEF Turn
    <2>2. QED
      BY <1>1, <1>2, <2>1, EndedFields DEF Stops, Outcomes, RuntimeErrors
  <1>3. CASE ~(e.pc >= Len(e.program)) /\ e.steps >= e.limit
    <2>1. Turn(e) = Ended(e, "StepLimitExceeded")
      BY <1>3 DEF Turn
    <2>2. ~(e.steps < e.limit)
      BY <1>1, <1>3
    <2>3. QED
      BY <1>1, <1>3, <2>1, <2>2, EndedFields DEF Stops, Outcomes, RuntimeErrors
  <1>4. CASE ~(e.pc >= Len(e.program)) /\ ~(e.steps >= e.limit)
    <2>1. Ready(e)
      BY <1>1, <1>4 DEF Ready
    <2>2. Turn(e) = Instruction(e)
      BY <1>4 DEF Turn
    <2>3. QED
      BY <2>1, <2>2, InstructionKinds
  <1>5. QED
    BY <1>2, <1>3, <1>4

\* A turn leaves a machine; a machine that has ended stays as it is.
LEMMA MachineStays ==
    ASSUME NEW e, IsMachine(e)
    PROVE  IsMachine(Turn(e)) /\ SameRun(e, Turn(e)) /\ (e.at # "running" => Turn(e) = e)
  <1>1. CASE e.at # "running"
    BY <1>1 DEF Turn, SameRun
  <1>2. CASE e.at = "running"
    <2>1. PICK t : t = Turn(e)
      OBVIOUS
    <2>2. SameRun(e, t) /\ (Stops(e, t) \/ Halts(e, t) \/ Moves(e, t))
      BY <1>2, <2>1, TurnKinds
    <2>3. /\ Fields \subseteq DOMAIN t /\ IsProgram(t.program) /\ t.limit \in Nat
          /\ t.program = e.program /\ t.limit = e.limit
      BY <2>2 DEF SameRun, IsMachine
    <2>4. /\ Len(e.program) \in Nat /\ e.pc \in Nat /\ e.pc <= Len(e.program)
          /\ e.steps \in Nat /\ e.steps <= e.limit /\ e.limit \in Nat
          /\ e.stack \in Seq(I64) /\ Len(e.stack) \in Nat /\ Values(e.state)
          /\ e.events \in Seq(Emitted(e.program)) /\ Len(e.events) \in Nat
          /\ Len(e.stack) + Len(e.events) <= e.steps
      <3>1. PICK p : p = e.program
        OBVIOUS
      <3>2. Len(e.program) \in Nat
        <4>1. p \in Seq(ToSet(p))
          BY <3>1 DEF IsMachine, IsProgram
        <4>2. QED
          BY <3>1, <4>1
      <3>3. PICK E : E = Emitted(p)
        OBVIOUS
      <3>4. e.events \in Seq(E) /\ e.stack \in Seq(I64)
        BY <3>1, <3>3 DEF IsMachine
      <3>5. Len(e.events) \in Nat /\ Len(e.stack) \in Nat
        BY <3>4
      <3>6. e.pc \in 0..Len(e.program) /\ e.limit \in Nat /\ e.steps \in 0..e.limit
        BY DEF IsMachine
      <3>7. e.pc \in Nat /\ e.pc <= Len(e.program) /\ e.steps \in Nat /\ e.steps <= e.limit
        BY <3>2, <3>6
      <3>8. Values(e.state) /\ Len(e.stack) + Len(e.events) <= e.steps
        BY DEF IsMachine
      <3>9. QED
        BY <3>1, <3>2, <3>3, <3>4, <3>5, <3>6, <3>7, <3>8
    <2>5. CASE Stops(e, t)
      <3>1. /\ t.at \in Outcomes /\ t.pc = e.pc /\ t.steps = e.steps /\ t.stack = e.stack
            /\ t.state = e.state /\ t.events = e.events
        BY <2>5 DEF Stops
      <3>2. IsMachine(t)
        BY <2>3, <3>1, Zenon DEF IsMachine
      <3>3. QED
        BY <1>2, <2>1, <2>2, <3>2
    <2>6. CASE Halts(e, t)
      <3>1. /\ t.at \in Outcomes /\ t.pc = e.pc /\ t.stack = e.stack
            /\ t.state = e.state /\ t.events = e.events
        BY <2>6 DEF Halts, Outcomes
      <3>2. t.steps = e.steps + 1 /\ e.steps < e.limit
        BY <2>6 DEF Halts, Ready
      <3>3. t.steps \in 0..t.limit /\ Len(e.stack) + Len(e.events) <= t.steps
        <4>1. PICK n : n = Len(e.stack)
          OBVIOUS
        <4>2. PICK m : m = Len(e.events)
          OBVIOUS
        <4>3. n \in Nat /\ m \in Nat /\ n + m <= e.steps /\ e.steps \in Nat /\ e.limit \in Nat
          BY <2>4, <4>1, <4>2
        <4>4. t.steps \in 0..t.limit /\ n + m <= t.steps
          BY <2>3, <3>2, <4>3
        <4>5. QED
          BY <4>1, <4>2, <4>4
      <3>4. IsMachine(t)
        BY <2>3, <3>1, <3>3, Zenon DEF IsMachine
      <3>5. QED
        BY <1>2, <2>1, <2>2, <3>4
    <2>7. CASE Moves(e, t)
      <3>1. PICK i : i = Current(e)
        OBVIOUS
      <3>2. e.pc < Len(e.program) /\ e.steps < e.limit /\ t.at \in Outcomes
        BY <2>7 DEF Moves, Ready, Outcomes
      <3>3. Encoded(i) /\ i.args \in Emitted(e.program)
        <4>1. e.pc + 1 \in 1..Len(e.program)
          BY <2>4, <3>2
        <4>2. QED
          BY <3>1, <4>1 DEF Current, Emitted, IsMachine, IsProgram
      <3>4. t.pc \in 0..Len(t.program)
        BY <2>3, <2>4, <2>7, <3>1, <3>2, <3>3 DEF Moves, Encoded
      <3>5. t.steps = e.steps + 1 /\ t.stack \in Seq(I64) /\ Values(t.state)
        BY <2>7 DEF Moves
      <3>6. \/ t.events = e.events
            \/ i.op = "EMIT" /\ t.events = Append(e.events, i.args)
        BY <2>7, <3>1 DEF Moves
      <3>7. /\ i.op \notin Jumps => Len(t.stack) = Len(e.stack) + Effect(i.op)
            /\ i.op \in Jumps => Len(t.stack) <= Len(e.stack)
        BY <2>7, <3>1 DEF Moves
      <3>8. /\ t.events \in Seq(Emitted(t.program)) /\ Len(t.events) \in Nat
            /\ \/ Len(t.events) = Len(e.events)
               \/ i.op = "EMIT" /\ Len(t.events) = Len(e.events) + 1
        <4>1. PICK E : E = Emitted(e.program)
          OBVIOUS
        <4>2. PICK x : x = i.args
          OBVIOUS
        <4>3. PICK v : v = e.events
          OBVIOUS
        <4>4. /\ v \in Seq(E) /\ x \in E
              /\ t.events = v \/ (i.op = "EMIT" /\ t.events = Append(v, x))
          BY <2>4, <3>3, <3>6, <4>1, <4>2, <4>3
        <4>5. /\ t.events \in Seq(E) /\ Len(t.events) \in Nat
              /\ \/ Len(t.events) = Len(v)
                 \/ i.op = "EMIT" /\ Len(t.events) = Len(v) + 1
          BY <4>4
        <4>6. QED
          BY <2>3, <4>1, <4>3, <4>5
      <3>9. Effect(i.op) \in {-1, 0, 1} /\ (i.op = "EMIT" => Effect(i.op) = 0 /\ i.op \notin Jumps)
        BY DEF Effect, Jumps
      <3>10. PICK s : s = Len(t.stack)
        OBVIOUS
      <3>11. s \in Nat /\ s <= Len(e.stack) + 1 /\ (i.op = "EMIT" => s <= Len(e.stack))
        BY <2>4, <3>5, <3>7, <3>9, <3>10
      <3>12. Len(t.stack) + Len(t.events) <= t.steps
        <4>1. PICK n : n = Len(e.stack)
          OBVIOUS
        <4>2. PICK m : m = Len(e.events)
          OBVIOUS
        <4>3. PICK v : v = Len(t.events)
          OBVIOUS
        <4>4. n \in Nat /\ m \in Nat /\ n + m <= e.steps /\ e.steps \in Nat
          BY <2>4, <4>1, <4>2
        <4>5. v \in Nat /\ (v = m \/ (i.op = "EMIT" /\ v = m + 1))
          BY <3>8, <4>2, <4>3
        <4>6. s \in Nat /\ s <= n + 1 /\ (i.op = "EMIT" => s <= n)
          BY <3>11, <4>1
        <4>7. s + v <= e.steps + 1
          BY <4>4, <4>5, <4>6
        <4>8. QED
          BY <3>5, <3>10, <4>3, <4>7
      <3>13. t.steps \in 0..t.limit
        BY <2>3, <2>4, <3>2, <3>5
      <3>14. IsMachine(t)
        BY <2>3, <3>2, <3>4, <3>5, <3>8, <3>12, <3>13 DEF IsMachine
      <3>15. QED
        BY <1>2, <2>1, <2>2, <3>14
    <2>8. QED
      BY <2>2, <2>5, <2>6, <2>7
  <1>3. QED
    BY <1>1, <1>2

LEMMA StartIsMachine ==
    ASSUME NEW program, IsProgram(program), NEW state, Values(state), NEW limit \in Nat
    PROVE  IsMachine(Start(program, state, limit))
  <1>1. PICK e : e = Start(program, state, limit)
    OBVIOUS
  <1>2. /\ e.at = "running" /\ e.program = program /\ e.limit = limit /\ e.from = state
        /\ e.pc = 0 /\ e.steps = 0 /\ e.state = state /\ Fields \subseteq DOMAIN e
    BY <1>1 DEF Start, Fields
  <1>3. e.stack = << >> /\ e.events = << >>
    BY <1>1 DEF Start
  <1>4. Len(e.stack) = 0 /\ Len(e.events) = 0
    BY <1>3
  <1>5. e.stack \in Seq(I64) /\ e.events \in Seq(Emitted(e.program))
    <2>1. << >> \in Seq(I64) /\ << >> \in Seq(Emitted(e.program))
      OBVIOUS
    <2>2. QED
      BY <1>3, <2>1, Zenon
  <1>6. Len(program) \in Nat
    BY DEF IsProgram
  <1>7. QED
    BY <1>1, <1>2, <1>4, <1>5, <1>6 DEF IsMachine, Outcomes

-----------------------------------------------------------------------------
(* Types *)

VmInv ==
    /\ exec.at \in {"none"} \cup CompileErrors \/ IsMachine(exec)
    /\ Values(storage) /\ poisoned \in BOOLEAN
    /\ calls \in Seq(Contracts) /\ Len(calls) <= MaxCalls
    /\ exec.at = "running" /\ request.by = "chain" =>
          /\ request.source \in Contracts /\ Len(calls) < MaxCalls
          /\ exec.program = Compile(request.source).program
          /\ exec.from = storage /\ exec.limit = ChainLimit

LEMMA AtKinds ==
    /\ "running" \notin {"none"} \cup CompileErrors
    /\ Outcomes \cap ({"none"} \cup CompileErrors) = {}
  BY DEF Outcomes, RuntimeErrors, CompileErrors

LEMMA BeginKeepsInv ==
    ASSUME VmInv, NEW source, source \in Seq(ToSet(source)), NEW state, Values(state),
           NEW limit \in Nat, NEW caller, Begin(source, state, limit, caller),
           caller = "chain" => /\ source \in Contracts /\ Len(calls) < MaxCalls
                               /\ state = storage /\ limit = ChainLimit
    PROVE  VmInv'
  <1>1. /\ Values(storage') /\ poisoned' \in BOOLEAN
        /\ calls' \in Seq(Contracts) /\ Len(calls') <= MaxCalls
    BY DEF Begin, VmInv
  <1>2. /\ request'.by = caller /\ request'.source = source
        /\ UNCHANGED <<storage, calls>>
    BY DEF Begin
  <1>3. CASE Compile(source).err # "ok"
    <2>1. exec'.at = Compile(source).err
      BY <1>3 DEF Begin
    <2>2. exec'.at \in CompileErrors
      BY <1>3, <2>1, CompileErrorKinds
    <2>3. exec'.at # "running"
      BY <2>2, AtKinds
    <2>4. QED
      BY <1>1, <2>2, <2>3 DEF VmInv
  <1>4. CASE Compile(source).err = "ok"
    <2>1. exec' = Start(Compile(source).program, state, limit)
      BY <1>4 DEF Begin
    <2>2. IsMachine(exec')
      BY <1>4, <2>1, CompiledIsProgram, StartIsMachine
    <2>3. /\ exec'.program = Compile(source).program /\ exec'.from = state
          /\ exec'.limit = limit
      BY <2>1 DEF Start
    <2>4. QED
      BY <1>1, <1>2, <2>2, <2>3 DEF VmInv
  <1>5. QED
    BY <1>3, <1>4

LEMMA ExecuteKeepsInv ==
    ASSUME VmInv, Execute
    PROVE  VmInv'
  <1>1. exec.at = "running" /\ exec' = Turn(exec) /\ request' = request /\ Finish(exec')
    BY DEF Execute
  <1>2. IsMachine(exec)
    BY <1>1, AtKinds DEF VmInv
  <1>3. IsMachine(exec') /\ SameRun(exec, exec')
    BY <1>1, <1>2, MachineStays
  <1>4. poisoned' \in BOOLEAN
    BY DEF Execute, VmInv
  <1>5. CASE exec'.at = "ok" /\ request.by = "chain"
    <2>1. storage' = exec'.state /\ calls' = Append(calls, request.source)
      BY <1>1, <1>5 DEF Finish
    <2>2. request.source \in Contracts /\ Len(calls) < MaxCalls /\ calls \in Seq(Contracts)
      BY <1>1, <1>5 DEF VmInv
    <2>3. calls' \in Seq(Contracts) /\ Len(calls') <= MaxCalls
      BY <2>1, <2>2, VmAssumption
    <2>4. Values(storage') /\ exec'.at # "running"
      BY <1>3, <1>5, <2>1 DEF IsMachine
    <2>5. QED
      BY <1>3, <1>4, <2>3, <2>4 DEF VmInv
  <1>6. CASE ~(exec'.at = "ok" /\ request.by = "chain")
    <2>1. UNCHANGED <<storage, calls>>
      BY <1>1, <1>6 DEF Finish
    <2>2. QED
      BY <1>1, <1>3, <1>4, <2>1 DEF VmInv, SameRun
  <1>7. QED
    BY <1>5, <1>6

LEMMA InitVmInv == Init => VmInv
  <1>1. ASSUME Init
        PROVE  VmInv
    <2>1. exec.at = "none" /\ Values(storage) /\ poisoned \in BOOLEAN
      BY <1>1 DEF Init, NoState, Values
    <2>2. calls \in Seq(Contracts) /\ Len(calls) = 0
      <3>1. << >> \in Seq(Contracts)
        OBVIOUS
      <3>2. calls = << >>
        BY <1>1 DEF Init
      <3>3. Len(calls) = 0
        BY <3>2
      <3>4. QED
        BY <3>1, <3>2, <3>3, Zenon
    <2>3. QED
      BY <2>1, <2>2, VmAssumption, AtKinds DEF VmInv
  <1>2. QED
    BY <1>1

LEMMA NextVmInv == VmInv /\ [Next]_vars => VmInv'
  <1> SUFFICES ASSUME VmInv, [Next]_vars
               PROVE  VmInv'
    OBVIOUS
  <1>1. CASE UNCHANGED vars
    BY <1>1 DEF VmInv, vars
  <1>2. ASSUME NEW s \in Scripts, NEW n \in Limits, PostScript(s, n)
        PROVE  VmInv'
    <2>1. s \in Seq(ToSet(s)) /\ n \in Nat /\ Values(NoState)
      BY VmAssumption DEF Values, NoState
    <2>2. QED
      BY <1>2, <2>1, BeginKeepsInv DEF PostScript
  <1>3. ASSUME NEW s \in Contracts, CallContract(s)
        PROVE  VmInv'
    <2>1. s \in Seq(ToSet(s)) /\ ChainLimit \in Nat /\ Values(storage)
      BY VmAssumption DEF VmInv
    <2>2. QED
      BY <1>3, <2>1, BeginKeepsInv DEF CallContract
  <1>4. CASE Execute
    BY <1>4, ExecuteKeepsInv
  <1>5. QED
    BY <1>1, <1>2, <1>3, <1>4 DEF Next

LEMMA VmInvHolds == Spec => []VmInv
  BY InitVmInv, NextVmInv, PTL DEF Spec

\* A machine is what TypeOK asks of an execution.
LEMMA MachineTypes ==
    ASSUME NEW e, IsMachine(e)
    PROVE  /\ e.at \in {"running", "ok", "panic"} \cup RuntimeErrors
           /\ ToSet(e.stack) \subseteq I64 /\ e.pc \in 0..Len(e.program)
           /\ e.steps \in 0..e.limit /\ Len(e.stack) + Len(e.events) <= e.steps
  <1>1. PICK s : s = e.stack
    OBVIOUS
  <1>2. s \in Seq(I64)
    BY <1>1 DEF IsMachine
  <1>3. \A i \in DOMAIN s : s[i] \in I64
    BY <1>2
  <1>4. ToSet(s) \subseteq I64
    BY <1>3 DEF ToSet
  <1>5. QED
    BY <1>1, <1>4, Zenon DEF IsMachine, Outcomes

\* Values are i64 whatever the arithmetic did, the counter stays inside the
\* program, and the stack and the events are paid for with steps, for every
\* program, storage and limit.
THEOREM VmTypes == Spec => []TypeOK
  <1>1. ASSUME VmInv
        PROVE  TypeOK
    <2>1. Values(storage) /\ poisoned \in BOOLEAN /\ Len(calls) <= MaxCalls
      BY <1>1 DEF VmInv
    <2>2. \A k \in DOMAIN storage : storage[k] \in I64
      BY <2>1 DEF Values
    <2>3. CASE exec.at \in {"none"} \cup CompileErrors
      <3>1. ~Has({"running", "ok", "panic"} \cup RuntimeErrors)
        BY <2>3, AtKinds DEF Has, Outcomes
      <3>2. QED
        BY <2>1, <2>2, <2>3, <3>1 DEF TypeOK
    <2>4. CASE IsMachine(exec)
      BY <2>1, <2>2, <2>4, MachineTypes, Zenon DEF TypeOK
    <2>5. QED
      BY <1>1, <2>3, <2>4 DEF VmInv
  <1>2. QED
    BY <1>1, VmInvHolds, PTL

-----------------------------------------------------------------------------
(* Guarded divisions *)

\* Before a guarded division its divisor is on top of the stack.
DivisorLoaded ==
    exec.at = "running" /\ GuardedDivisions(exec.program)
        /\ exec.pc + 1 \in Divisions(exec.program) =>
        /\ Len(exec.stack) > 0
        /\ exec.stack[Len(exec.stack)] = exec.program[exec.pc].args[1].val

GuardInv == VmInv /\ DivisorLoaded /\ GuardedDivisionIsSafe

LEMMA TurnLoadsDivisor ==
    ASSUME NEW e, IsMachine(e), NEW t, Moves(e, t), SameRun(e, t),
           GuardedDivisions(e.program), t.pc + 1 \in Divisions(e.program)
    PROVE  /\ Len(t.stack) > 0
           /\ t.stack[Len(t.stack)] = e.program[t.pc].args[1].val
  <1>1. PICK p : p = e.program
    OBVIOUS
  <1>2. PICK d : d = t.pc + 1
    OBVIOUS
  <1>3. /\ Len(p) \in Nat /\ e.pc \in Nat /\ e.pc < Len(p) /\ DOMAIN p = 1..Len(p)
        /\ Encoded(p[e.pc + 1])
    <2>1. p \in Seq(ToSet(p)) /\ \A i \in 1..Len(p) : Encoded(p[i])
      BY <1>1 DEF IsMachine, IsProgram
    <2>2. Len(p) \in Nat /\ DOMAIN p = 1..Len(p)
      BY <2>1
    <2>3. e.pc \in 0..Len(p) /\ e.pc < Len(p)
      BY <1>1 DEF IsMachine, Moves, Ready
    <2>4. e.pc \in Nat /\ e.pc + 1 \in 1..Len(p)
      BY <2>2, <2>3
    <2>5. QED
      BY <2>1, <2>2, <2>3, <2>4
  <1>4. /\ d > 1 /\ p[d - 1].op = "LOAD_CONST" /\ p[d].op = "DIV"
        /\ \A j \in JumpsOf(p) : p[j].args[1].val # d - 1
    BY <1>1, <1>2 DEF GuardedDivisions, Divisions
  <1>5. CASE t.pc = e.pc + 1
    <2>1. d - 1 = e.pc + 1
      BY <1>2, <1>3, <1>5
    <2>2. PICK v : v = p[e.pc + 1].args[1].val
      OBVIOUS
    <2>3. t.stack = Append(e.stack, v)
      BY <1>1, <1>4, <2>1, <2>2 DEF Moves, Current
    <2>4. PICK s : s = e.stack
      OBVIOUS
    <2>5. s \in Seq(I64) /\ v \in I64
      BY <1>3, <1>4, <2>1, <2>2, <2>4 DEF IsMachine, Encoded
    <2>6. Len(t.stack) > 0 /\ t.stack[Len(t.stack)] = v
      BY <2>3, <2>4, <2>5
    <2>7. QED
      BY <1>1, <1>5, <2>2, <2>6
  <1>6. CASE t.pc # e.pc + 1
    <2>1. p[e.pc + 1].op \in Jumps /\ t.pc = p[e.pc + 1].args[1].val
      BY <1>1, <1>6 DEF Moves, Current
    <2>2. e.pc + 1 \in JumpsOf(p)
      BY <1>3, <2>1 DEF JumpsOf, Jumps
    <2>3. t.pc \in Nat
      BY <1>3, <2>1 DEF Encoded
    <2>4. t.pc = d - 1
      BY <1>2, <2>3
    <2>5. QED
      BY <1>4, <2>1, <2>2, <2>4
  <1>7. QED
    BY <1>5, <1>6

LEMMA TurnKeepsGuard ==
    ASSUME GuardInv, Execute
    PROVE  DivisorLoaded' /\ GuardedDivisionIsSafe'
  <1>1. exec.at = "running" /\ exec' = Turn(exec)
    BY DEF Execute
  <1>2. IsMachine(exec)
    BY <1>1, AtKinds DEF GuardInv, VmInv
  <1>3. /\ SameRun(exec, exec')
        /\ Stops(exec, exec') \/ Halts(exec, exec') \/ Moves(exec, exec')
    BY <1>1, <1>2, TurnKinds
  <1>4. CASE Stops(exec, exec')
    <2>1. exec'.at # "running" /\ exec'.program = exec.program
      BY <1>3, <1>4 DEF Stops, SameRun
    <2>2. ASSUME exec'.at \in {"panic", "DivisionByZero"}, GuardedDivisions(exec.program)
          PROVE  FALSE
      <3>1. PICK p : p = exec.program
        OBVIOUS
      <3>2. PICK n : n = exec.pc
        OBVIOUS
      <3>3. p[n + 1].op = "DIV" /\ n < Len(p) /\ exec.stack[Len(exec.stack)] \in {0, -1}
        BY <1>4, <2>2, <3>1, <3>2 DEF Stops, Ready, Current
      <3>4. n \in Nat /\ DOMAIN p = 1..Len(p) /\ Len(p) \in Nat
        <4>1. p \in Seq(ToSet(p))
          BY <1>2, <3>1 DEF IsMachine, IsProgram
        <4>2. n \in 0..Len(p)
          BY <1>2, <3>1, <3>2 DEF IsMachine
        <4>3. Len(p) \in Nat /\ DOMAIN p = 1..Len(p)
          BY <4>1
        <4>4. QED
          BY <4>2, <4>3
      <3>5. n + 1 \in Divisions(p)
        BY <3>3, <3>4 DEF Divisions
      <3>6. exec.stack[Len(exec.stack)] = p[n].args[1].val
        BY <1>1, <2>2, <3>1, <3>2, <3>5 DEF GuardInv, DivisorLoaded
      <3>7. (n + 1) - 1 = n
        BY <3>4
      <3>8. p[(n + 1) - 1].args[1].val \notin {0, -1}
        BY <2>2, <3>1, <3>5 DEF GuardedDivisions
      <3>9. QED
        BY <3>3, <3>6, <3>7, <3>8
    <2>3. QED
      BY <2>1, <2>2 DEF DivisorLoaded, GuardedDivisionIsSafe, Has
  <1>5. CASE Halts(exec, exec')
    BY <1>5 DEF Halts, DivisorLoaded, GuardedDivisionIsSafe, Has
  <1>6. CASE Moves(exec, exec')
    <2>1. exec'.at = "running" /\ exec'.program = exec.program
      BY <1>3, <1>6 DEF Moves, SameRun
    <2>2. QED
      BY <1>2, <1>3, <1>6, <2>1, TurnLoadsDivisor DEF DivisorLoaded, GuardedDivisionIsSafe, Has
  <1>7. QED
    BY <1>3, <1>4, <1>5, <1>6

LEMMA BeginKeepsGuard ==
    ASSUME NEW source, NEW state, NEW limit, NEW caller, Begin(source, state, limit, caller)
    PROVE  DivisorLoaded' /\ GuardedDivisionIsSafe'
  <1>1. CASE Compile(source).err # "ok"
    <2>1. exec'.at \in CompileErrors
      BY <1>1, CompileErrorKinds DEF Begin
    <2>2. exec'.at # "running" /\ exec'.at \notin {"panic", "DivisionByZero"}
      BY <2>1 DEF CompileErrors
    <2>3. QED
      BY <2>2 DEF DivisorLoaded, GuardedDivisionIsSafe, Has
  <1>2. CASE Compile(source).err = "ok"
    <2>1. PICK p : p = Compile(source).program
      OBVIOUS
    <2>2. exec'.at = "running" /\ exec'.pc = 0 /\ exec'.program = p
      BY <1>2, <2>1 DEF Begin, Start
    <2>3. GuardedDivisions(p) => 0 + 1 \notin Divisions(p)
      BY DEF GuardedDivisions
    <2>4. QED
      BY <2>2, <2>3 DEF DivisorLoaded, GuardedDivisionIsSafe, Has
  <1>3. QED
    BY <1>1, <1>2

\* A program that loads a divisor other than 0 and -1 right before each division,
\* and jumps to none, never divides by zero and never panics, so it cannot poison
\* the lock of the chain: for every such program, whatever storage, limit and
\* saturation bring up.
THEOREM GuardedDivisionsDoNotPanic == Spec => []GuardedDivisionIsSafe
  <1>1. Init => GuardInv
    <2>1. Init => exec.at = "none"
      BY DEF Init
    <2>2. QED
      BY <2>1, InitVmInv DEF GuardInv, DivisorLoaded, GuardedDivisionIsSafe, Has
  <1>2. GuardInv /\ [Next]_vars => GuardInv'
    <2> SUFFICES ASSUME GuardInv, [Next]_vars
                 PROVE  GuardInv'
      OBVIOUS
    <2>1. VmInv'
      BY NextVmInv DEF GuardInv
    <2>2. CASE UNCHANGED vars
      BY <2>1, <2>2 DEF GuardInv, DivisorLoaded, GuardedDivisionIsSafe, Has, vars
    <2>3. ASSUME NEW s \in Scripts, NEW n \in Limits, PostScript(s, n)
          PROVE  GuardInv'
      BY <2>1, <2>3, BeginKeepsGuard DEF PostScript, GuardInv
    <2>4. ASSUME NEW s \in Contracts, CallContract(s)
          PROVE  GuardInv'
      BY <2>1, <2>4, BeginKeepsGuard DEF CallContract, GuardInv
    <2>5. CASE Execute
      BY <2>1, <2>5, TurnKeepsGuard DEF GuardInv
    <2>6. QED
      BY <2>2, <2>3, <2>4, <2>5 DEF Next
  <1>3. GuardInv => GuardedDivisionIsSafe
    BY DEF GuardInv
  <1>4. QED
    BY <1>1, <1>2, <1>3, PTL DEF Spec

-----------------------------------------------------------------------------
(* The stack of programs without jumps *)

LEMMA HeightSteps ==
    ASSUME NEW p
    PROVE  /\ Height(p, 0) = 0
           /\ \A n \in Nat : Height(p, n + 1) = Height(p, n) + Effect(p[n + 1].op)
  <1> DEFINE IsHeights(f, n) ==
          f = [i \in 0..n |-> IF i = 0 THEN 0 ELSE f[i - 1] + Effect(p[i].op)]
  <1> DEFINE Of(n) == CHOOSE f : IsHeights(f, n)
  <1> DEFINE T == {n \in Nat : \E f : IsHeights(f, n)}
  <1>1. 0 \in T
    <2>1. PICK f : f = [i \in 0..0 |-> 0]
      OBVIOUS
    <2>2. IsHeights(f, 0)
      BY <2>1
    <2>3. QED
      BY <2>2
  <1>2. ASSUME NEW n \in Nat, n \in T
        PROVE  n + 1 \in T
    <2>1. PICK f : IsHeights(f, n)
      BY <1>2
    <2>2. PICK g : g = [i \in 0..(n + 1) |-> IF i <= n THEN f[i] ELSE f[n] + Effect(p[n + 1].op)]
      OBVIOUS
    <2>3. IsHeights(g, n + 1)
      BY <2>1, <2>2
    <2>4. QED
      BY <2>3
  <1>3. \A n \in Nat : IsHeights(Of(n), n)
    <2>1. Nat \subseteq T
      <3> HIDE DEF T
      <3>1. QED
        BY <1>1, <1>2, SetInduction
    <2>2. QED
      BY <2>1
  <1>4. \A n : Height(p, n) = Of(n)[n]
    BY DEF Height
  <1> HIDE DEF Of
  <1>5. \A n \in Nat : \A i \in 0..n :
            Of(n)[i] = IF i = 0 THEN 0 ELSE Of(n)[i - 1] + Effect(p[i].op)
    <2> TAKE n \in Nat
    <2>1. PICK f : f = Of(n)
      OBVIOUS
    <2>2. f = [i \in 0..n |-> IF i = 0 THEN 0 ELSE f[i - 1] + Effect(p[i].op)]
      BY <1>3, <2>1
    <2>3. \A i \in 0..n : f[i] = IF i = 0 THEN 0 ELSE f[i - 1] + Effect(p[i].op)
      BY <2>2
    <2>4. QED
      BY <2>1, <2>3
  <1>6. ASSUME NEW n \in Nat
        PROVE  Of(n)[n] = Of(n + 1)[n]
    <2> DEFINE A == {i \in Nat : i <= n => Of(n)[i] = Of(n + 1)[i]}
    <2>1. 0 \in A
      BY <1>5
    <2>2. ASSUME NEW i \in Nat, i \in A
          PROVE  i + 1 \in A
      <3> SUFFICES ASSUME i + 1 <= n
                   PROVE  Of(n)[i + 1] = Of(n + 1)[i + 1]
        OBVIOUS
      <3>1. i + 1 \in 0..n /\ i + 1 \in 0..(n + 1) /\ i + 1 # 0 /\ (i + 1) - 1 = i
        OBVIOUS
      <3>2. Of(n)[i] = Of(n + 1)[i]
        BY <2>2
      <3>3. QED
        BY <1>5, <3>1, <3>2
    <2>3. n \in A
      <3> HIDE DEF A
      <3>1. QED
        BY <2>1, <2>2, SetInduction
    <2>4. QED
      BY <2>3
  <1>7. Height(p, 0) = 0
    BY <1>4, <1>5
  <1>8. ASSUME NEW n \in Nat
        PROVE  Height(p, n + 1) = Height(p, n) + Effect(p[n + 1].op)
    <2>1. n + 1 \in 0..(n + 1) /\ n + 1 # 0 /\ (n + 1) - 1 = n
      OBVIOUS
    <2>2. Of(n + 1)[n + 1] = Of(n + 1)[n] + Effect(p[n + 1].op)
      BY <1>5, <2>1
    <2>3. QED
      BY <1>4, <1>6, <2>2
  <1>9. QED
    BY <1>7, <1>8

LEMMA TurnKeepsHeight ==
    ASSUME NEW e, IsMachine(e), e.at = "running", JumpsOf(e.program) = {},
           Len(e.stack) = Height(e.program, e.pc),
           NEW t, SameRun(e, t), Stops(e, t) \/ Halts(e, t) \/ Moves(e, t)
    PROVE  IF t.at = "StackUnderflow"
             THEN Height(t.program, t.pc) < Needs(t.program[t.pc + 1].op)
             ELSE Len(t.stack) = Height(t.program, t.pc)
  <1>1. PICK p : p = e.program
    OBVIOUS
  <1>2. t.program = p
    BY <1>1 DEF SameRun
  <1>3. e.pc \in Nat /\ Len(p) \in Nat /\ DOMAIN p = 1..Len(p)
    <2>1. p \in Seq(ToSet(p)) /\ e.pc \in 0..Len(p)
      BY <1>1 DEF IsMachine, IsProgram
    <2>2. Len(p) \in Nat /\ DOMAIN p = 1..Len(p)
      BY <2>1
    <2>3. QED
      BY <2>1, <2>2
  <1>4. Ready(e) => Current(e).op \notin Jumps
    <2>1. Ready(e) => e.pc + 1 \in DOMAIN p
      BY <1>1, <1>3 DEF Ready
    <2>2. QED
      BY <1>1, <2>1 DEF JumpsOf, Current, Jumps
  <1>5. CASE Stops(e, t)
    <2>1. t.pc = e.pc /\ t.stack = e.stack
      BY <1>5 DEF Stops
    <2>2. t.at = "StackUnderflow" => Len(e.stack) < Needs(p[e.pc + 1].op)
      BY <1>1, <1>4, <1>5 DEF Stops, Current
    <2>3. QED
      BY <1>1, <1>2, <2>1, <2>2
  <1>6. CASE Halts(e, t)
    BY <1>1, <1>2, <1>6 DEF Halts
  <1>7. CASE Moves(e, t)
    <2>1. /\ t.at = "running" /\ t.pc = e.pc + 1
          /\ Len(t.stack) = Len(e.stack) + Effect(p[e.pc + 1].op)
      BY <1>1, <1>4, <1>7 DEF Moves, Current
    <2>2. Height(p, e.pc + 1) = Height(p, e.pc) + Effect(p[e.pc + 1].op)
      BY <1>3, HeightSteps
    <2>3. QED
      BY <1>1, <1>2, <2>1, <2>2
  <1>8. QED
    BY <1>5, <1>6, <1>7

LEMMA BeginKeepsHeight ==
    ASSUME NEW source, NEW state, NEW limit, NEW caller, Begin(source, state, limit, caller)
    PROVE  StackAsWritten'
  <1>1. CASE Compile(source).err # "ok"
    <2>1. exec'.at \in CompileErrors
      BY <1>1, CompileErrorKinds DEF Begin
    <2>2. exec'.at \notin {"running", "ok", "StackUnderflow"}
      BY <2>1 DEF CompileErrors
    <2>3. QED
      BY <2>2 DEF StackAsWritten, Has
  <1>2. CASE Compile(source).err = "ok"
    <2>1. /\ exec'.at = "running" /\ exec'.pc = 0 /\ exec'.stack = << >>
          /\ exec'.program = Compile(source).program
      BY <1>2 DEF Begin, Start
    <2>2. Len(exec'.stack) = Height(exec'.program, exec'.pc)
      BY <2>1, HeightSteps
    <2>3. QED
      BY <2>1, <2>2 DEF StackAsWritten
  <1>3. QED
    BY <1>1, <1>2

\* In a program without jumps the height of the stack is the one its text gives,
\* and underflow comes exactly where the text says: no instruction of any program
\* loses an operand or leaves one too many.
THEOREM StackIsAsWritten == Spec => []StackAsWritten
  <1>1. Init => VmInv /\ StackAsWritten
    <2>1. Init => exec.at = "none"
      BY DEF Init
    <2>2. QED
      BY <2>1, InitVmInv DEF StackAsWritten, Has
  <1>2. VmInv /\ StackAsWritten /\ [Next]_vars => (VmInv /\ StackAsWritten)'
    <2> SUFFICES ASSUME VmInv, StackAsWritten, [Next]_vars
                 PROVE  VmInv' /\ StackAsWritten'
      OBVIOUS
    <2>1. VmInv'
      BY NextVmInv
    <2>2. CASE UNCHANGED vars
      BY <2>1, <2>2 DEF StackAsWritten, Has, vars
    <2>3. ASSUME NEW s \in Scripts, NEW n \in Limits, PostScript(s, n)
          PROVE  StackAsWritten'
      BY <2>3, BeginKeepsHeight DEF PostScript
    <2>4. ASSUME NEW s \in Contracts, CallContract(s)
          PROVE  StackAsWritten'
      BY <2>4, BeginKeepsHeight DEF CallContract
    <2>5. CASE Execute
      <3>1. exec.at = "running" /\ exec' = Turn(exec)
        BY <2>5 DEF Execute
      <3>2. IsMachine(exec)
        BY <3>1, AtKinds DEF VmInv
      <3>3. /\ SameRun(exec, exec')
            /\ Stops(exec, exec') \/ Halts(exec, exec') \/ Moves(exec, exec')
        BY <3>1, <3>2, TurnKinds
      <3>4. JumpsOf(exec.program) = {} => Len(exec.stack) = Height(exec.program, exec.pc)
        BY <3>1 DEF StackAsWritten, Has
      <3>5. exec'.program = exec.program
        BY <3>3 DEF SameRun
      <3>6. QED
        BY <2>1, <3>1, <3>2, <3>3, <3>4, <3>5, TurnKeepsHeight DEF StackAsWritten
    <2>6. QED
      BY <2>1, <2>2, <2>3, <2>4, <2>5 DEF Next
  <1>3. QED
    BY <1>1, <1>2, PTL DEF Spec

-----------------------------------------------------------------------------
(* Runs, turn by turn *)

\* The turns that Run folds.
IsTrace(f, program, state, limit) ==
    f = [n \in 0..limit + 1 |-> IF n = 0 THEN Start(program, state, limit) ELSE Turn(f[n - 1])]

TraceOf(program, state, limit) == CHOOSE f : IsTrace(f, program, state, limit)

\* The machine after n turns of the run that e is of.
After(e, n) == TraceOf(e.program, e.from, e.limit)[n]

LEMMA RunIsTrace ==
    ASSUME NEW p, NEW state, NEW limit \in Nat
    PROVE  LET f == TraceOf(p, state, limit)
           IN  /\ f[0] = Start(p, state, limit)
               /\ \A n \in 0..limit : f[n + 1] = Turn(f[n])
               /\ Run(p, state, limit) = f[limit + 1]
  <1> DEFINE First == Start(p, state, limit)
  <1> DEFINE IsTurns(f, n) == f = [i \in 0..n |-> IF i = 0 THEN First ELSE Turn(f[i - 1])]
  <1> DEFINE T == {n \in Nat : \E f : IsTurns(f, n)}
  <1>1. TraceOf(p, state, limit) = CHOOSE f : IsTurns(f, limit + 1)
    BY DEF TraceOf, IsTrace
  <1>2. Run(p, state, limit) = TraceOf(p, state, limit)[limit + 1]
    BY <1>1, Zenon DEF Run
  <1> HIDE DEF First
  <1>3. 0 \in T
    <2>1. PICK f : f = [i \in 0..0 |-> First]
      OBVIOUS
    <2>2. IsTurns(f, 0)
      BY <2>1
    <2>3. QED
      BY <2>2
  <1>4. ASSUME NEW n \in Nat, n \in T
        PROVE  n + 1 \in T
    <2>1. PICK f : IsTurns(f, n)
      BY <1>4
    <2>2. PICK g : g = [i \in 0..(n + 1) |-> IF i <= n THEN f[i] ELSE Turn(f[n])]
      OBVIOUS
    <2>3. IsTurns(g, n + 1)
      BY <2>1, <2>2
    <2>4. QED
      BY <2>3
  <1>5. limit + 1 \in T
    <2> HIDE DEF T
    <2>1. QED
      BY <1>3, <1>4, SetInduction
  <1>6. PICK f : f = TraceOf(p, state, limit)
    OBVIOUS
  <1>7. IsTurns(f, limit + 1)
    BY <1>1, <1>5, <1>6
  <1>8. f[0] = First
    BY <1>7
  <1>9. \A n \in 0..limit : f[n + 1] = Turn(f[n])
    <2> TAKE n \in 0..limit
    <2>1. n + 1 \in 0..(limit + 1) /\ n + 1 # 0 /\ (n + 1) - 1 = n
      OBVIOUS
    <2>2. QED
      BY <1>7, <2>1
  <1>10. QED
    BY <1>2, <1>6, <1>8, <1>9, Zenon DEF First

\* Every turn of a run leaves a machine of that run, running ones with one step
\* for every turn.
LEMMA TraceMachines ==
    ASSUME NEW p, IsProgram(p), NEW state, Values(state), NEW limit \in Nat,
           NEW f, f = TraceOf(p, state, limit)
    PROVE  \A n \in 0..(limit + 1) :
              /\ IsMachine(f[n])
              /\ f[n].program = p /\ f[n].from = state /\ f[n].limit = limit
              /\ f[n].at = "running" => f[n].steps = n
  <1> DEFINE Good(n) == /\ IsMachine(f[n])
                        /\ f[n].program = p /\ f[n].from = state /\ f[n].limit = limit
                        /\ f[n].at = "running" => f[n].steps = n
  <1> DEFINE T == {n \in Nat : n <= limit + 1 => Good(n)}
  <1>1. 0 \in T
    <2>1. f[0] = Start(p, state, limit)
      BY RunIsTrace
    <2>2. IsMachine(f[0])
      BY <2>1, StartIsMachine
    <2>3. f[0].program = p /\ f[0].from = state /\ f[0].limit = limit /\ f[0].steps = 0
      BY <2>1 DEF Start
    <2>4. QED
      BY <2>2, <2>3
  <1>2. ASSUME NEW n \in Nat, n \in T
        PROVE  n + 1 \in T
    <2> SUFFICES ASSUME n + 1 <= limit + 1
                 PROVE  Good(n + 1)
      OBVIOUS
    <2>1. PICK e : e = f[n]
      OBVIOUS
    <2>2. PICK t : t = f[n + 1]
      OBVIOUS
    <2>3. n \in 0..limit /\ n <= limit + 1
      OBVIOUS
    <2>4. t = Turn(e)
      BY <2>1, <2>2, <2>3, RunIsTrace
    <2>5. /\ IsMachine(e) /\ e.program = p /\ e.from = state /\ e.limit = limit
          /\ e.at = "running" => e.steps = n
      BY <1>2, <2>1, <2>3
    <2>6. IsMachine(t) /\ SameRun(e, t) /\ (e.at # "running" => t = e)
      BY <2>4, <2>5, MachineStays
    <2>7. t.at = "running" => e.at = "running"
      BY <2>6
    <2>8. t.at = "running" => t.steps = e.steps + 1
      <3>1. e.at = "running" => Stops(e, t) \/ Halts(e, t) \/ Moves(e, t)
        BY <2>4, <2>5, TurnKinds
      <3>2. QED
        BY <2>7, <3>1 DEF Stops, Halts, Moves
    <2>9. QED
      BY <2>2, <2>5, <2>6, <2>7, <2>8 DEF SameRun
  <1>3. Nat \subseteq T
    <2> HIDE DEF T
    <2>1. QED
      BY <1>1, <1>2, SetInduction
  <1>4. QED
    BY <1>3

\* A run that has ended stays as it is, to its last turn.
LEMMA EndedStays ==
    ASSUME NEW p, IsProgram(p), NEW state, Values(state), NEW limit \in Nat,
           NEW f, f = TraceOf(p, state, limit),
           NEW k \in 0..(limit + 1), f[k].at # "running"
    PROVE  \A n \in k..(limit + 1) : f[n] = f[k]
  <1> DEFINE T == {n \in Nat : k <= n /\ n <= limit + 1 => f[n] = f[k]}
  <1>1. 0 \in T
    OBVIOUS
  <1>2. ASSUME NEW n \in Nat, n \in T
        PROVE  n + 1 \in T
    <2> SUFFICES ASSUME k <= n + 1, n + 1 <= limit + 1, k # n + 1
                 PROVE  f[n + 1] = f[k]
      OBVIOUS
    <2>1. n \in 0..limit /\ k <= n
      OBVIOUS
    <2>2. f[n] = f[k]
      BY <1>2, <2>1
    <2>3. f[n + 1] = Turn(f[n])
      BY <2>1, RunIsTrace
    <2>4. QED
      BY <2>2, <2>3 DEF Turn
  <1>3. Nat \subseteq T
    <2> HIDE DEF T
    <2>1. QED
      BY <1>1, <1>2, SetInduction
  <1>4. QED
    BY <1>3

\* The execution under way is a turn of its run.
OnTrace == IsMachine(exec) =>
    /\ \E k \in 0..(exec.limit + 1) : exec = After(exec, k)
    /\ Values(exec.from)

RunInv == VmInv /\ OnTrace

LEMMA TurnOnTrace ==
    ASSUME NEW e, IsMachine(e), e.at = "running", Values(e.from),
           NEW k \in 0..(e.limit + 1), e = After(e, k)
    PROVE  /\ k = e.steps /\ k + 1 \in 0..(e.limit + 1)
           /\ Turn(e) = After(Turn(e), k + 1)
           /\ Turn(e).limit = e.limit /\ Turn(e).from = e.from
  <1>1. PICK t : t = Turn(e)
    OBVIOUS
  <1>2. PICK f : f = TraceOf(e.program, e.from, e.limit)
    OBVIOUS
  <1>3. IsProgram(e.program) /\ e.limit \in Nat /\ e.steps \in 0..e.limit /\ e = f[k]
    BY <1>2 DEF IsMachine, After
  <1>4. k = e.steps
    BY <1>2, <1>3, TraceMachines
  <1>5. k \in 0..e.limit /\ k + 1 \in 0..(e.limit + 1)
    BY <1>3, <1>4
  <1>6. f[k + 1] = t
    BY <1>1, <1>2, <1>3, <1>5, RunIsTrace
  <1>7. t.program = e.program /\ t.from = e.from /\ t.limit = e.limit
    BY <1>1, MachineStays DEF SameRun
  <1>8. After(t, k + 1) = t
    BY <1>2, <1>6, <1>7 DEF After
  <1>9. QED
    BY <1>1, <1>4, <1>5, <1>7, <1>8

LEMMA StartOnTrace ==
    ASSUME NEW p, NEW state, NEW limit \in Nat,
           NEW e, e = Start(p, state, limit)
    PROVE  0 \in 0..(e.limit + 1) /\ e = After(e, 0) /\ e.from = state
  <1>1. e.program = p /\ e.from = state /\ e.limit = limit
    BY DEF Start
  <1>2. QED
    BY <1>1, RunIsTrace DEF After

LEMMA BeginOnTrace ==
    ASSUME NEW source, NEW state, Values(state), NEW limit \in Nat, NEW caller,
           Begin(source, state, limit, caller)
    PROVE  OnTrace'
  <1>1. CASE Compile(source).err # "ok"
    <2>1. exec'.at \in CompileErrors
      BY <1>1, CompileErrorKinds DEF Begin
    <2>2. ~IsMachine(exec')
      BY <2>1, AtKinds DEF IsMachine
    <2>3. QED
      BY <2>2 DEF OnTrace
  <1>2. CASE Compile(source).err = "ok"
    <2>1. exec' = Start(Compile(source).program, state, limit)
      BY <1>2 DEF Begin
    <2>2. QED
      BY <2>1, StartOnTrace DEF OnTrace
  <1>3. QED
    BY <1>1, <1>2

LEMMA RunInvHolds == Spec => []RunInv
  <1>1. Init => RunInv
    <2>1. Init => exec.at = "none"
      BY DEF Init
    <2>2. exec.at = "none" => ~IsMachine(exec)
      BY AtKinds DEF IsMachine
    <2>3. QED
      BY <2>1, <2>2, InitVmInv DEF RunInv, OnTrace
  <1>2. RunInv /\ [Next]_vars => RunInv'
    <2> SUFFICES ASSUME RunInv, [Next]_vars
                 PROVE  VmInv' /\ OnTrace'
      BY DEF RunInv
    <2>1. VmInv'
      BY NextVmInv DEF RunInv
    <2>2. CASE UNCHANGED vars
      BY <2>1, <2>2 DEF RunInv, OnTrace, vars
    <2>3. ASSUME NEW s \in Scripts, NEW n \in Limits, PostScript(s, n)
          PROVE  OnTrace'
      <3>1. n \in Nat /\ Values(NoState)
        BY VmAssumption DEF Values, NoState
      <3>2. QED
        BY <2>3, <3>1, BeginOnTrace DEF PostScript
    <2>4. ASSUME NEW s \in Contracts, CallContract(s)
          PROVE  OnTrace'
      <3>1. ChainLimit \in Nat /\ Values(storage)
        BY VmAssumption DEF RunInv, VmInv
      <3>2. QED
        BY <2>4, <3>1, BeginOnTrace DEF CallContract
    <2>5. CASE Execute
      <3>1. exec.at = "running" /\ exec' = Turn(exec)
        BY <2>5 DEF Execute
      <3>2. IsMachine(exec)
        BY <3>1, AtKinds DEF RunInv, VmInv
      <3>3. Values(exec.from) /\ \E k \in 0..(exec.limit + 1) : exec = After(exec, k)
        BY <3>2 DEF RunInv, OnTrace
      <3>4. PICK k \in 0..(exec.limit + 1) : exec = After(exec, k)
        BY <3>3
      <3>5. /\ k + 1 \in 0..(exec'.limit + 1) /\ exec' = After(exec', k + 1)
            /\ exec'.from = exec.from
        BY <3>1, <3>2, <3>3, <3>4, TurnOnTrace
      <3>6. QED
        BY <2>1, <3>3, <3>5 DEF OnTrace
    <2>6. QED
      BY <2>1, <2>2, <2>3, <2>4, <2>5 DEF Next
  <1>3. QED
    BY <1>1, <1>2, PTL DEF Spec

\* An execution that has ended is what its run comes to.
LEMMA EndedIsRun ==
    ASSUME NEW e, IsMachine(e), e.at # "running", Values(e.from),
           NEW k \in 0..(e.limit + 1), e = After(e, k)
    PROVE  e = Run(e.program, e.from, e.limit)
  <1>1. IsProgram(e.program) /\ e.limit \in Nat
    BY DEF IsMachine
  <1>2. PICK f : f = TraceOf(e.program, e.from, e.limit)
    OBVIOUS
  <1>3. f[k] = e /\ Run(e.program, e.from, e.limit) = f[e.limit + 1]
    BY <1>1, <1>2, RunIsTrace DEF After
  <1>4. e.limit + 1 \in k..(e.limit + 1)
    BY <1>1
  <1>5. f[e.limit + 1] = f[k]
    BY <1>1, <1>2, <1>3, <1>4, EndedStays
  <1>6. QED
    BY <1>3, <1>5

-----------------------------------------------------------------------------
(* The storage of a contract *)

ReplayStep(a, source) ==
    LET r == Run(Compile(source).program, a.state, ChainLimit)
    IN  [state |-> r.state, events |-> a.events \o r.events]

Nothing == [state |-> NoState, events |-> << >>]

\* The storage and events after the calls that succeeded, one on the other.
Replay(sources) ==
    LET after[n \in 0..Len(sources)] ==
            IF n = 0 THEN Nothing ELSE ReplayStep(after[n - 1], sources[n])
    IN  after[Len(sources)]

LEMMA ReplayMeaning ==
    StorageIsReplay <=> storage = Replay(calls).state /\ log = Replay(calls).events
  BY Zenon DEF StorageIsReplay, Replay, ReplayStep, Nothing

LEMMA ReplayTurns ==
    ASSUME NEW sources \in Seq(Contracts)
    PROVE  \E f : /\ f[0] = Nothing
                  /\ \A i \in 1..Len(sources) : f[i] = ReplayStep(f[i - 1], sources[i])
                  /\ Replay(sources) = f[Len(sources)]
  <1> DEFINE Step(a, source) == ReplayStep(a, source)
  <1> DEFINE Zero == Nothing
  <1> DEFINE IsReplay(f, n) ==
          f = [i \in 0..n |-> IF i = 0 THEN Zero ELSE Step(f[i - 1], sources[i])]
  <1> DEFINE T == {n \in Nat : \E f : IsReplay(f, n)}
  <1>1. PICK f : f = CHOOSE g : IsReplay(g, Len(sources))
    OBVIOUS
  <1>2. Replay(sources) = f[Len(sources)]
    BY <1>1, Zenon DEF Replay
  <1> HIDE DEF Step, Zero
  <1>3. 0 \in T
    <2>1. PICK g : g = [i \in 0..0 |-> Zero]
      OBVIOUS
    <2>2. IsReplay(g, 0)
      BY <2>1
    <2>3. QED
      BY <2>2
  <1>4. ASSUME NEW n \in Nat, n \in T
        PROVE  n + 1 \in T
    <2>1. PICK h : IsReplay(h, n)
      BY <1>4
    <2>2. PICK g : g = [i \in 0..(n + 1) |-> IF i <= n THEN h[i] ELSE Step(h[n], sources[n + 1])]
      OBVIOUS
    <2>3. IsReplay(g, n + 1)
      BY <2>1, <2>2
    <2> HIDE DEF IsReplay
    <2>4. QED
      BY <2>3
  <1>5. PICK n : n = Len(sources)
    OBVIOUS
  <1>6. n \in Nat
    BY <1>5
  <1>7. n \in T
    <2> HIDE DEF T
    <2>1. QED
      BY <1>3, <1>4, <1>6, SetInduction
  <1>8. IsReplay(f, n)
    BY <1>1, <1>5, <1>7
  <1>9. f[0] = Zero /\ \A i \in 1..n : f[i] = Step(f[i - 1], sources[i])
    BY <1>6, <1>8
  <1>10. QED
    BY <1>2, <1>5, <1>9, Zenon DEF Step, Zero

LEMMA ReplayEmpty == Replay(<< >>) = Nothing
  <1>1. << >> \in Seq(Contracts) /\ Len(<< >>) = 0
    OBVIOUS
  <1>2. PICK f : f[0] = Nothing /\ Replay(<< >>) = f[Len(<< >>)]
    BY <1>1, ReplayTurns
  <1>3. QED
    BY <1>1, <1>2

LEMMA ReplayAppend ==
    ASSUME NEW sources \in Seq(Contracts), NEW source \in Contracts
    PROVE  Replay(Append(sources, source)) = ReplayStep(Replay(sources), source)
  <1>1. PICK more : more = Append(sources, source)
    OBVIOUS
  <1>2. PICK n : n = Len(sources)
    OBVIOUS
  <1>3. /\ more \in Seq(Contracts) /\ Len(more) = n + 1 /\ n \in Nat
        /\ more[n + 1] = source /\ \A i \in 1..n : more[i] = sources[i]
    BY <1>1, <1>2
  <1>4. PICK f : /\ f[0] = Nothing
                 /\ \A i \in 1..n : f[i] = ReplayStep(f[i - 1], sources[i])
                 /\ Replay(sources) = f[n]
    BY <1>2, ReplayTurns
  <1>5. PICK g : /\ g[0] = Nothing
                 /\ \A i \in 1..(n + 1) : g[i] = ReplayStep(g[i - 1], more[i])
                 /\ Replay(more) = g[n + 1]
    BY <1>3, ReplayTurns
  <1> DEFINE T == {i \in Nat : i <= n => f[i] = g[i]}
  <1>6. 0 \in T
    BY <1>4, <1>5
  <1>7. ASSUME NEW i \in Nat, i \in T
        PROVE  i + 1 \in T
    <2> SUFFICES ASSUME i + 1 <= n
                 PROVE  f[i + 1] = g[i + 1]
      OBVIOUS
    <2>1. i + 1 \in 1..n /\ i + 1 \in 1..(n + 1) /\ (i + 1) - 1 = i /\ f[i] = g[i]
      BY <1>3, <1>7
    <2>2. QED
      BY <1>3, <1>4, <1>5, <2>1
  <1>8. n \in T
    <2> HIDE DEF T
    <2>1. QED
      BY <1>3, <1>6, <1>7, SetInduction
  <1>9. f[n] = g[n] /\ n + 1 \in 1..(n + 1) /\ (n + 1) - 1 = n
    BY <1>3, <1>8
  <1>10. g[n + 1] = ReplayStep(g[n], source)
    BY <1>3, <1>5, <1>9
  <1>11. QED
    BY <1>1, <1>4, <1>5, <1>9, <1>10

LEMMA ExecuteReplays ==
    ASSUME RunInv, StorageIsReplay, RunInv', Execute
    PROVE  StorageIsReplay'
  <1>1. exec.at = "running" /\ exec' = Turn(exec) /\ request' = request /\ Finish(exec')
    BY DEF Execute
  <1>2. IsMachine(exec)
    BY <1>1, AtKinds DEF RunInv, VmInv
  <1>3. CASE exec'.at = "ok" /\ request.by = "chain"
    <2>1. PICK e : e = exec'
      OBVIOUS
    <2>2. /\ request.source \in Contracts /\ calls \in Seq(Contracts)
          /\ exec.program = Compile(request.source).program
          /\ exec.from = storage /\ exec.limit = ChainLimit
      BY <1>1, <1>3 DEF RunInv, VmInv
    <2>3. /\ IsMachine(e) /\ e.program = exec.program /\ e.from = exec.from
          /\ e.limit = exec.limit
      BY <1>1, <1>2, <2>1, MachineStays DEF SameRun
    <2>4. Values(e.from) /\ \E k \in 0..(e.limit + 1) : e = After(e, k)
      BY <2>1, <2>3 DEF RunInv, OnTrace
    <2>5. e.at # "running"
      BY <1>3, <2>1
    <2>6. e = Run(e.program, e.from, e.limit)
      BY <2>3, <2>4, <2>5, EndedIsRun
    <2>7. e = Run(Compile(request.source).program, storage, ChainLimit)
      BY <2>2, <2>3, <2>6
    <2>8. storage = Replay(calls).state /\ log = Replay(calls).events
      BY ReplayMeaning
    <2>9. /\ storage' = e.state /\ log' = log \o e.events
          /\ calls' = Append(calls, request.source)
      BY <1>1, <1>3, <2>1 DEF Finish
    <2>10. PICK a : a = Replay(calls)
      OBVIOUS
    <2>11. ReplayStep(a, request.source) = [state |-> e.state, events |-> log \o e.events]
      BY <2>7, <2>8, <2>10, Zenon DEF ReplayStep
    <2>12. Replay(calls') = [state |-> e.state, events |-> log \o e.events]
      BY <2>2, <2>9, <2>10, <2>11, ReplayAppend, Zenon
    <2>13. storage' = Replay(calls').state /\ log' = Replay(calls').events
      BY <2>9, <2>12
    <2>14. QED
      BY <2>13, Zenon DEF StorageIsReplay, Replay, ReplayStep, Nothing
  <1>4. CASE ~(exec'.at = "ok" /\ request.by = "chain")
    <2>1. UNCHANGED <<storage, log, calls>>
      BY <1>1, <1>4 DEF Finish
    <2>2. QED
      BY <2>1 DEF StorageIsReplay
  <1>5. QED
    BY <1>3, <1>4

\* The storage and the events of a contract are those of running the calls that
\* succeeded, one on the storage of the other, each from its first instruction to
\* its last: a call that failed at any instruction left nothing, for every set of
\* programs.
THEOREM ContractStorageIsReplay == Spec => []StorageIsReplay
  <1>1. Init => StorageIsReplay
    <2>1. ASSUME Init
          PROVE  StorageIsReplay
      <3>1. storage = NoState /\ log = << >> /\ calls = << >>
        BY <2>1 DEF Init
      <3>2. Nothing.state = NoState /\ Nothing.events = << >>
        BY DEF Nothing
      <3>3. QED
        BY <3>1, <3>2, ReplayEmpty, ReplayMeaning, Zenon
    <2>2. QED
      BY <2>1
  <1>2. RunInv /\ RunInv' /\ StorageIsReplay /\ [Next]_vars => StorageIsReplay'
    <2> SUFFICES ASSUME RunInv, RunInv', StorageIsReplay, [Next]_vars
                 PROVE  StorageIsReplay'
      OBVIOUS
    <2>1. UNCHANGED <<storage, log, calls>> => StorageIsReplay'
      BY DEF StorageIsReplay
    <2>2. CASE Execute
      BY <2>2, ExecuteReplays
    <2>3. CASE ~Execute
      <3>1. UNCHANGED <<storage, log, calls>>
        BY <2>3 DEF Next, PostScript, CallContract, Begin, vars
      <3>2. QED
        BY <2>1, <3>1
    <2>4. QED
      BY <2>2, <2>3
  <1>3. QED
    BY <1>1, <1>2, RunInvHolds, PTL DEF Spec

-----------------------------------------------------------------------------
(* The steps that are reported *)

\* Two executions that differ in the limit at most.
Alike(e, m) ==
    /\ Fields \subseteq DOMAIN e /\ Fields \subseteq DOMAIN m
    /\ m.at = e.at /\ m.program = e.program /\ m.from = e.from
    /\ m.pc = e.pc /\ m.steps = e.steps /\ m.stack = e.stack
    /\ m.state = e.state /\ m.events = e.events

LEMMA EndedAlike ==
    ASSUME NEW e, NEW m, Alike(e, m), NEW how
    PROVE  Alike(Ended(e, how), Ended(m, how))
  <1>1. Fields \subseteq DOMAIN e /\ Fields \subseteq DOMAIN m
    BY DEF Alike
  <1>2. PICK t : t = Ended(e, how)
    OBVIOUS
  <1>3. PICK u : u = Ended(m, how)
    OBVIOUS
  <1>4. /\ SameRun(e, t) /\ t.at = how /\ t.pc = e.pc /\ t.steps = e.steps
        /\ t.stack = e.stack /\ t.state = e.state /\ t.events = e.events
    BY <1>1, <1>2, EndedFields
  <1>5. /\ SameRun(m, u) /\ u.at = how /\ u.pc = m.pc /\ u.steps = m.steps
        /\ u.stack = m.stack /\ u.state = m.state /\ u.events = m.events
    BY <1>1, <1>3, EndedFields
  <1>6. Alike(t, u)
    BY <1>4, <1>5, Zenon DEF Alike, SameRun
  <1>7. QED
    BY <1>2, <1>3, <1>6

LEMMA GoOnAlike ==
    ASSUME NEW e, NEW m, Alike(e, m), NEW s, NEW target
    PROVE  Alike(GoOn(e, s, target), GoOn(m, s, target))
  <1>1. Fields \subseteq DOMAIN e /\ Fields \subseteq DOMAIN m
    BY DEF Alike
  <1>2. PICK t : t = GoOn(e, s, target)
    OBVIOUS
  <1>3. PICK u : u = GoOn(m, s, target)
    OBVIOUS
  <1>4. /\ SameRun(e, t) /\ t.at = e.at /\ t.pc = target /\ t.steps = e.steps + 1
        /\ t.stack = s /\ t.state = e.state /\ t.events = e.events
    BY <1>1, <1>2, GoOnFields
  <1>5. /\ SameRun(m, u) /\ u.at = m.at /\ u.pc = target /\ u.steps = m.steps + 1
        /\ u.stack = s /\ u.state = m.state /\ u.events = m.events
    BY <1>1, <1>3, GoOnFields
  <1>6. Alike(t, u)
    BY <1>4, <1>5, Zenon DEF Alike, SameRun
  <1>7. QED
    BY <1>2, <1>3, <1>6

LEMMA JumpAlike ==
    ASSUME NEW e, NEW m, Alike(e, m), NEW s, NEW target
    PROVE  Alike(Jump(e, s, target), Jump(m, s, target))
  <1>1. m.program = e.program
    BY DEF Alike
  <1>2. CASE target >= Len(e.program)
    BY <1>1, <1>2, EndedAlike DEF Jump
  <1>3. CASE ~(target >= Len(e.program))
    BY <1>1, <1>3, GoOnAlike DEF Jump
  <1>4. QED
    BY <1>2, <1>3

LEMMA BinaryAlike ==
    ASSUME NEW e, NEW m, Alike(e, m), NEW op
    PROVE  Alike(Binary(e, op), Binary(m, op))
  <1>1. m.stack = e.stack /\ m.pc = e.pc
    BY DEF Alike
  <1>2. PICK n : n = Len(e.stack)
    OBVIOUS
  <1>3. PICK l : l = e.stack[n - 1]
    OBVIOUS
  <1>4. PICK r : r = e.stack[n]
    OBVIOUS
  <1>5. PICK s : s = Append(SubSeq(e.stack, 1, n - 2), Compute(op, l, r))
    OBVIOUS
  <1>6. Binary(e, op) = IF n < 2 THEN Ended(e, "StackUnderflow")
                        ELSE IF op = "DIV" /\ r = 0 THEN Ended(e, "DivisionByZero")
                        ELSE IF op = "DIV" /\ l = MinI64 /\ r = -1 THEN Ended(e, "panic")
                        ELSE GoOn(e, s, e.pc + 1)
    BY <1>2, <1>3, <1>4, <1>5, Zenon DEF Binary
  <1>7. Binary(m, op) = IF n < 2 THEN Ended(m, "StackUnderflow")
                        ELSE IF op = "DIV" /\ r = 0 THEN Ended(m, "DivisionByZero")
                        ELSE IF op = "DIV" /\ l = MinI64 /\ r = -1 THEN Ended(m, "panic")
                        ELSE GoOn(m, s, e.pc + 1)
    BY <1>1, <1>2, <1>3, <1>4, <1>5, Zenon DEF Binary
  <1>8. QED
    BY <1>6, <1>7, EndedAlike, GoOnAlike

LEMMA InstructionAlike ==
    ASSUME NEW e, NEW m, Alike(e, m), Current(e).op \in Opcodes
    PROVE  Alike(Instruction(e), Instruction(m))
  <1>1. PICK i : i = Current(e)
    OBVIOUS
  <1>2. PICK next : next = e.pc + 1
    OBVIOUS
  <1>3. PICK s : s = e.stack
    OBVIOUS
  <1>4. PICK x : x = e.state
    OBVIOUS
  <1>5. PICK rest : rest = Front(s)
    OBVIOUS
  <1>6. m.pc + 1 = next /\ m.stack = s /\ m.state = x /\ m.program[m.pc + 1] = i
    BY <1>1, <1>2, <1>3, <1>4, Zenon DEF Alike, Current
  <1> DEFINE Does(d) ==
        CASE i.op = "LOAD_CONST" -> GoOn(d, Append(s, i.args[1].val), next)
          [] i.op = "LOAD" ->
                IF i.args[1] \notin DOMAIN x THEN Ended(d, "StateKeyNotFound")
                ELSE GoOn(d, Append(s, x[i.args[1]]), next)
          [] i.op = "STORE" ->
                IF s = << >> THEN Ended(d, "StackUnderflow")
                ELSE GoOn([d EXCEPT !.state = Put(@, i.args[1], Last(s))], rest, next)
          [] i.op \in Bare \ {"HALT"} -> Binary(d, i.op)
          [] i.op = "JUMP" -> Jump(d, s, i.args[1].val)
          [] i.op = "JUMP_IF_FALSE" ->
                IF s = << >> THEN Ended(d, "StackUnderflow")
                ELSE IF Last(s) = 0 THEN Jump(d, rest, i.args[1].val)
                ELSE GoOn(d, rest, next)
          [] i.op = "EMIT" -> GoOn([d EXCEPT !.events = Append(@, i.args)], s, next)
          [] i.op = "HALT" -> [d EXCEPT !.steps = @ + 1, !.at = "ok"]
  <1>7. Instruction(e) = Does(e)
    BY <1>1, <1>2, <1>3, <1>4, <1>5, Zenon DEF Instruction, Current, Pop
  <1>8. Instruction(m) = Does(m)
    BY <1>5, <1>6, Zenon DEF Instruction, Pop
  <1> SUFFICES Alike(Does(e), Does(m))
    BY <1>7, <1>8
  <1>9. CASE i.op \in Bare \ {"HALT"}
    <2>1. Does(e) = Binary(e, i.op) /\ Does(m) = Binary(m, i.op)
      BY <1>9 DEF Bare
    <2>2. QED
      BY <2>1, BinaryAlike
  <1>10. CASE i.op = "LOAD_CONST"
    <2>1. PICK v : v = Append(s, i.args[1].val)
      OBVIOUS
    <2>2. Does(e) = GoOn(e, v, next) /\ Does(m) = GoOn(m, v, next)
      BY <1>10, <2>1 DEF Bare
    <2>3. QED
      BY <2>2, GoOnAlike
  <1>11. CASE i.op = "LOAD"
    <2>1. PICK v : v = Append(s, x[i.args[1]])
      OBVIOUS
    <2>2. \/ Does(e) = Ended(e, "StateKeyNotFound") /\ Does(m) = Ended(m, "StateKeyNotFound")
          \/ Does(e) = GoOn(e, v, next) /\ Does(m) = GoOn(m, v, next)
      BY <1>11, <2>1 DEF Bare
    <2>3. QED
      BY <2>2, EndedAlike, GoOnAlike
  <1>12. CASE i.op = "STORE"
    <2>1. PICK y : y = Put(x, i.args[1], Last(s))
      OBVIOUS
    <2>2. PICK e2 : e2 = [e EXCEPT !.state = y]
      OBVIOUS
    <2>3. PICK m2 : m2 = [m EXCEPT !.state = y]
      OBVIOUS
    <2>4. Alike(e2, m2)
      BY <2>2, <2>3 DEF Alike, Fields
    <2>5. \/ Does(e) = Ended(e, "StackUnderflow") /\ Does(m) = Ended(m, "StackUnderflow")
          \/ Does(e) = GoOn(e2, rest, next) /\ Does(m) = GoOn(m2, rest, next)
      BY <1>4, <1>6, <1>12, <2>1, <2>2, <2>3 DEF Bare
    <2>6. QED
      BY <2>4, <2>5, EndedAlike, GoOnAlike
  <1>13. CASE i.op = "JUMP"
    <2>1. Does(e) = Jump(e, s, i.args[1].val) /\ Does(m) = Jump(m, s, i.args[1].val)
      BY <1>13 DEF Bare
    <2>2. QED
      BY <2>1, JumpAlike
  <1>14. CASE i.op = "JUMP_IF_FALSE"
    <2>1. \/ Does(e) = Ended(e, "StackUnderflow") /\ Does(m) = Ended(m, "StackUnderflow")
          \/ Does(e) = Jump(e, rest, i.args[1].val) /\ Does(m) = Jump(m, rest, i.args[1].val)
          \/ Does(e) = GoOn(e, rest, next) /\ Does(m) = GoOn(m, rest, next)
      BY <1>14 DEF Bare
    <2>2. QED
      BY <2>1, EndedAlike, JumpAlike, GoOnAlike
  <1>15. CASE i.op = "EMIT"
    <2>1. PICK y : y = Append(e.events, i.args)
      OBVIOUS
    <2>2. PICK e2 : e2 = [e EXCEPT !.events = y]
      OBVIOUS
    <2>3. PICK m2 : m2 = [m EXCEPT !.events = y]
      OBVIOUS
    <2>4. Alike(e2, m2)
      BY <2>2, <2>3 DEF Alike, Fields
    <2>5. m.events = e.events
      BY DEF Alike
    <2>6. Does(e) = GoOn(e2, s, next) /\ Does(m) = GoOn(m2, s, next)
      BY <1>15, <2>1, <2>2, <2>3, <2>5 DEF Bare
    <2>7. QED
      BY <2>4, <2>6, GoOnAlike
  <1>16. CASE i.op = "HALT"
    <2>1. PICK e2 : e2 = [e EXCEPT !.steps = @ + 1]
      OBVIOUS
    <2>2. PICK m2 : m2 = [m EXCEPT !.steps = @ + 1]
      OBVIOUS
    <2>3. Alike(e2, m2)
      BY <2>1, <2>2 DEF Alike, Fields
    <2>4. /\ Does(e) = [e EXCEPT !.steps = @ + 1, !.at = "ok"]
          /\ Does(m) = [m EXCEPT !.steps = @ + 1, !.at = "ok"]
      BY <1>16 DEF Bare
    <2>5. Does(e) = Ended(e2, "ok") /\ Does(m) = Ended(m2, "ok")
      BY <2>1, <2>2, <2>4 DEF Ended
    <2>6. QED
      BY <2>3, <2>5, EndedAlike
  <1>17. QED
    BY <1>1, <1>9, <1>10, <1>11, <1>12, <1>13, <1>14, <1>15, <1>16 DEF Opcodes, OneToken, Bare

LEMMA TurnAlike ==
    ASSUME NEW e, IsMachine(e), Ready(e), NEW m, Alike(e, m), m.steps < m.limit,
           m.steps \in Nat, m.limit \in Nat
    PROVE  Alike(Turn(e), Turn(m))
  <1>1. PICK p : p = e.program
    OBVIOUS
  <1>2. /\ e.at = "running" /\ e.pc < Len(p) /\ e.steps < e.limit
        /\ e.steps \in Nat /\ e.limit \in Nat /\ e.pc \in Nat /\ Len(p) \in Nat
        /\ Current(e).op \in Opcodes
    <2>1. p \in Seq(ToSet(p)) /\ e.pc \in 0..Len(p) /\ \A i \in 1..Len(p) : Encoded(p[i])
      BY <1>1 DEF IsMachine, IsProgram
    <2>2. Len(p) \in Nat
      BY <2>1
    <2>3. e.at = "running" /\ e.pc < Len(p) /\ e.steps < e.limit
      BY <1>1 DEF Ready
    <2>4. e.pc + 1 \in 1..Len(p) /\ e.pc \in Nat
      BY <2>1, <2>2, <2>3
    <2>5. e.limit \in Nat /\ e.steps \in 0..e.limit
      BY DEF IsMachine
    <2>6. QED
      BY <1>1, <2>1, <2>2, <2>3, <2>4, <2>5 DEF Encoded, Current
  <1>3. m.at = "running" /\ m.program = p /\ m.pc = e.pc
    BY <1>1, <1>2 DEF Alike
  <1>4. Turn(e) = Instruction(e)
    BY <1>1, <1>2 DEF Turn
  <1>5. ~(m.pc >= Len(m.program)) /\ ~(m.steps >= m.limit)
    BY <1>2, <1>3
  <1>6. Turn(m) = Instruction(m)
    BY <1>3, <1>5 DEF Turn
  <1>7. QED
    BY <1>2, <1>4, <1>6, InstructionAlike

\* As long as one run executes instructions, a run with another limit that allows
\* them executes the same ones.
LEMMA PrefixAlike ==
    ASSUME NEW p, IsProgram(p), NEW state, Values(state), NEW L \in Nat, NEW M \in Nat,
           NEW f, f = TraceOf(p, state, L), NEW g, g = TraceOf(p, state, M),
           NEW n \in 0..M, n <= L + 1, \A j \in 0..(n - 1) : Ready(f[j])
    PROVE  Alike(f[n], g[n])
  <1> DEFINE T == {i \in Nat : i <= n => Alike(f[i], g[i])}
  <1>1. 0 \in T
    <2>1. PICK a : a = Start(p, state, L)
      OBVIOUS
    <2>2. PICK b : b = Start(p, state, M)
      OBVIOUS
    <2>3. Alike(a, b)
      BY <2>1, <2>2 DEF Start, Alike, Fields
    <2>4. f[0] = a /\ g[0] = b
      BY <2>1, <2>2, RunIsTrace
    <2>5. QED
      BY <2>3, <2>4
  <1>2. ASSUME NEW i \in Nat, i \in T
        PROVE  i + 1 \in T
    <2> SUFFICES ASSUME i + 1 <= n
                 PROVE  Alike(f[i + 1], g[i + 1])
      OBVIOUS
    <2>1. i \in 0..L /\ i \in 0..(L + 1) /\ i \in 0..M /\ i \in 0..(M + 1) /\ i < M /\ i \in 0..(n - 1)
      OBVIOUS
    <2>2. f[i + 1] = Turn(f[i]) /\ g[i + 1] = Turn(g[i])
      BY <2>1, RunIsTrace
    <2>3. Alike(f[i], g[i])
      BY <1>2, <2>1
    <2>4. Ready(f[i])
      BY <2>1
    <2>5. IsMachine(f[i]) /\ IsMachine(g[i]) /\ g[i].limit = M
          /\ (g[i].at = "running" => g[i].steps = i)
      BY <2>1, TraceMachines
    <2>6. g[i].at = "running"
      BY <2>3, <2>4 DEF Alike, Ready
    <2>7. g[i].steps < g[i].limit /\ g[i].steps \in Nat /\ g[i].limit \in Nat
      BY <2>1, <2>5, <2>6
    <2>8. QED
      BY <2>2, <2>3, <2>4, <2>5, <2>7, TurnAlike
  <1>3. n \in T
    <2> HIDE DEF T
    <2>1. QED
      BY <1>1, <1>2, SetInduction
  <1>4. QED
    BY <1>3

\* A run that ends well has executed as many instructions as the steps it reports.
LEMMA OkSteps ==
    ASSUME NEW p, IsProgram(p), NEW state, Values(state), NEW L \in Nat,
           NEW f, f = TraceOf(p, state, L),
           NEW k \in 0..(L + 1), f[k].at = "ok",
           NEW s, s = f[k].steps
    PROVE  /\ s \in 0..L
           /\ \A j \in 0..(s - 1) : Ready(f[j])
           /\ \/ f[s] = f[k]
              \/ /\ f[s].at = "running" /\ f[s].pc >= Len(p)
                 /\ f[s].state = f[k].state
  <1> DEFINE N == {n \in 0..k : f[n].at # "running"}
  <1>1. k \in N /\ N \subseteq Nat
    OBVIOUS
  <1>2. PICK x \in N : \A y \in N : x <= y
    <2> HIDE DEF N
    <2>1. QED
      BY <1>1, LeastNumber
  <1>3. x # 0
    <2>1. f[0] = Start(p, state, L)
      BY RunIsTrace
    <2>2. f[0].at = "running"
      BY <2>1 DEF Start
    <2>3. QED
      BY <1>2, <2>2
  <1>4. PICK y : y = x - 1
    OBVIOUS
  <1>5. /\ y \in 0..L /\ y \in 0..(L + 1) /\ x = y + 1 /\ x \in 0..(L + 1)
        /\ y \in 0..k /\ y < x /\ k \in x..(L + 1)
    BY <1>2, <1>3, <1>4
  <1>6. \A j \in 0..y : f[j].at = "running"
    BY <1>2, <1>5
  <1>7. f[x] = f[k]
    BY <1>2, <1>5, EndedStays
  <1>8. \A j \in 0..y : /\ IsMachine(f[j]) /\ f[j].program = p /\ f[j].limit = L
                        /\ f[j].steps = j /\ f[j + 1] = Turn(f[j])
    <2> TAKE j \in 0..y
    <2>1. j \in 0..L /\ j \in 0..(L + 1)
      BY <1>5
    <2>2. QED
      BY <1>6, <2>1, TraceMachines, RunIsTrace
  <1>9. \A j \in 0..(y - 1) : Ready(f[j])
    <2> TAKE j \in 0..(y - 1)
    <2>1. j \in 0..y /\ j + 1 \in 0..y
      BY <1>5
    <2>2. f[j + 1].at = "running"
      BY <1>6, <2>1
    <2>3. Stops(f[j], f[j + 1]) \/ Halts(f[j], f[j + 1]) \/ Moves(f[j], f[j + 1])
      BY <1>6, <1>8, <2>1, TurnKinds
    <2>4. QED
      BY <2>2, <2>3 DEF Stops, Halts, Moves
  <1>10. Stops(f[y], f[x]) \/ Halts(f[y], f[x]) \/ Moves(f[y], f[x])
    <2>1. y \in 0..y
      BY <1>5
    <2>2. QED
      BY <1>5, <1>6, <1>8, <2>1, TurnKinds
  <1>11. f[y].steps = y /\ f[y].at = "running" /\ f[y].program = p
    <2>1. y \in 0..y
      BY <1>5
    <2>2. QED
      BY <1>6, <1>8, <2>1
  <1>12. CASE Stops(f[y], f[x])
    <2>1. s = y
      BY <1>7, <1>11, <1>12 DEF Stops
    <2>2. f[y].pc >= Len(p) /\ f[y].state = f[k].state
      BY <1>7, <1>11, <1>12 DEF Stops
    <2>3. QED
      BY <1>5, <1>9, <1>11, <2>1, <2>2
  <1>13. CASE Halts(f[y], f[x])
    <2>1. s = x
      BY <1>5, <1>7, <1>11, <1>13 DEF Halts
    <2>2. Ready(f[y])
      BY <1>13 DEF Halts
    <2>3. IsMachine(f[x]) /\ f[x].limit = L
      BY <1>5, TraceMachines
    <2>4. s \in 0..L
      BY <1>7, <2>3 DEF IsMachine
    <2>5. \A j \in 0..(s - 1) : Ready(f[j])
      <3>1. \A j \in 0..(s - 1) : j = y \/ j \in 0..(y - 1)
        BY <1>5, <2>1
      <3>2. QED
        BY <1>9, <2>2, <3>1
    <2>6. QED
      BY <1>7, <2>1, <2>4, <2>5
  <1>14. CASE Moves(f[y], f[x])
    BY <1>7, <1>14 DEF Moves
  <1>15. QED
    BY <1>10, <1>12, <1>13, <1>14

LEMMA ReportedSteps ==
    ASSUME NEW e, IsMachine(e), e.at = "ok", Values(e.from),
           NEW k \in 0..(e.limit + 1), e = After(e, k)
    PROVE  /\ Run(e.program, e.from, e.steps).state = e.state
           /\ Run(e.program, e.from, e.steps).at = "ok"
           /\ e.steps > 0 => Run(e.program, e.from, e.steps - 1).at = "StepLimitExceeded"
  <1>1. PICK p : p = e.program
    OBVIOUS
  <1>2. PICK st : st = e.from
    OBVIOUS
  <1>3. PICK L : L = e.limit
    OBVIOUS
  <1>4. PICK s : s = e.steps
    OBVIOUS
  <1>5. PICK f : f = TraceOf(p, st, L)
    OBVIOUS
  <1>6. IsProgram(p) /\ Values(st) /\ L \in Nat /\ k \in 0..(L + 1) /\ f[k] = e
    BY <1>1, <1>2, <1>3, <1>5 DEF IsMachine, After
  <1>7. /\ s \in 0..L /\ \A j \in 0..(s - 1) : Ready(f[j])
        /\ f[s] = e \/ (f[s].at = "running" /\ f[s].pc >= Len(p) /\ f[s].state = e.state)
    BY <1>4, <1>5, <1>6, OkSteps
  <1>8. Run(p, st, s).at = "ok" /\ Run(p, st, s).state = e.state
    <2>1. PICK g : g = TraceOf(p, st, s)
      OBVIOUS
    <2>2. s \in Nat /\ s \in 0..s /\ s <= L + 1
      BY <1>6, <1>7
    <2>3. Alike(f[s], g[s])
      BY <1>5, <1>6, <1>7, <2>1, <2>2, PrefixAlike
    <2>4. g[s + 1] = Turn(g[s]) /\ Run(p, st, s) = g[s + 1]
      BY <2>1, <2>2, RunIsTrace
    <2>5. PICK m : m = g[s]
      OBVIOUS
    <2>6. m.at = f[s].at /\ m.pc = f[s].pc /\ m.state = f[s].state /\ m.program = f[s].program
          /\ Fields \subseteq DOMAIN m
      BY <2>3, <2>5 DEF Alike
    <2>7. CASE f[s] = e
      BY <2>4, <2>5, <2>6, <2>7 DEF Turn
    <2>8. CASE f[s].at = "running" /\ f[s].pc >= Len(p) /\ f[s].state = e.state
      <3>1. s \in 0..(L + 1)
        BY <1>6, <1>7
      <3>2. f[s].program = p
        BY <1>5, <1>6, <3>1, TraceMachines
      <3>3. Turn(m) = Ended(m, "ok")
        BY <2>6, <2>8, <3>2 DEF Turn
      <3>4. QED
        BY <2>4, <2>5, <2>6, <2>8, <3>3, EndedFields
    <2>9. QED
      BY <1>7, <2>7, <2>8
  <1>9. s > 0 => Run(p, st, s - 1).at = "StepLimitExceeded"
    <2> SUFFICES ASSUME s > 0
                 PROVE  Run(p, st, s - 1).at = "StepLimitExceeded"
      OBVIOUS
    <2>1. PICK r : r = s - 1
      OBVIOUS
    <2>2. PICK g : g = TraceOf(p, st, r)
      OBVIOUS
    <2>3. /\ r \in Nat /\ r \in 0..r /\ r <= L + 1 /\ r \in 0..(s - 1) /\ r \in 0..(L + 1)
          /\ r \in 0..(r + 1) /\ \A j \in 0..(r - 1) : j \in 0..(s - 1)
      BY <1>6, <1>7, <2>1
    <2>4. Alike(f[r], g[r])
      BY <1>5, <1>6, <1>7, <2>2, <2>3, PrefixAlike
    <2>5. g[r + 1] = Turn(g[r]) /\ Run(p, st, r) = g[r + 1]
      BY <2>2, <2>3, RunIsTrace
    <2>6. PICK m : m = g[r]
      OBVIOUS
    <2>7. Ready(f[r]) /\ f[r].program = p /\ IsMachine(f[r])
      BY <1>5, <1>6, <1>7, <2>3, TraceMachines
    <2>8. m.at = "running" /\ m.pc = f[r].pc /\ m.program = p /\ Fields \subseteq DOMAIN m
      BY <2>4, <2>6, <2>7 DEF Alike, Ready
    <2>9. IsMachine(m) /\ m.limit = r /\ m.steps = r
      BY <1>6, <2>2, <2>3, <2>6, <2>8, TraceMachines
    <2>10. ~(m.pc >= Len(m.program)) /\ m.steps >= m.limit
      <3>1. p \in Seq(ToSet(p)) /\ m.pc \in 0..Len(p)
        BY <1>6, <2>8, <2>9 DEF IsMachine, IsProgram
      <3>2. Len(p) \in Nat
        BY <3>1
      <3>3. m.pc < Len(p)
        BY <2>7, <2>8 DEF Ready
      <3>4. QED
        BY <2>3, <2>8, <2>9, <3>1, <3>2, <3>3
    <2>11. Turn(m) = Ended(m, "StepLimitExceeded")
      BY <2>8, <2>10 DEF Turn
    <2>12. QED
      BY <2>1, <2>5, <2>6, <2>8, <2>11, EndedFields
  <1>10. QED
    BY <1>1, <1>2, <1>4, <1>8, <1>9

\* steps_executed is exactly the limit a program needs: with that max_steps it
\* comes to the same storage, with one less the limit stops it, for every program,
\* storage and limit.
THEOREM ReportedStepsAreNeeded == Spec => []ReportedStepsSuffice
  <1>1. ASSUME RunInv
        PROVE  ReportedStepsSuffice
    <2> SUFFICES ASSUME exec.at = "ok"
                 PROVE  /\ Run(exec.program, exec.from, exec.steps).state = exec.state
                        /\ Run(exec.program, exec.from, exec.steps).at = "ok"
                        /\ exec.steps > 0 =>
                              Run(exec.program, exec.from, exec.steps - 1).at = "StepLimitExceeded"
      BY DEF ReportedStepsSuffice, Has
    <2>1. IsMachine(exec)
      BY <1>1 DEF RunInv, VmInv, CompileErrors
    <2>2. Values(exec.from) /\ \E k \in 0..(exec.limit + 1) : exec = After(exec, k)
      BY <1>1, <2>1 DEF RunInv, OnTrace
    <2>3. QED
      BY <2>1, <2>2, ReportedSteps
  <1>2. QED
    BY <1>1, RunInvHolds, PTL
=============================================================================

-------------------------------- MODULE MCVm --------------------------------
(***************************************************************************)
(* Vm with a three-bit i64: every pair of lines, every operation on every  *)
(* pair of interesting constants, and some programs with loops and state.  *)
(***************************************************************************)
EXTENDS Vm

Op(word) == Line(word, << >>)
Const(n) == Line("LOAD_CONST", <<Num(n)>>)
Load == Line("LOAD", <<Name("k")>>)
Store == Line("STORE", <<Name("k")>>)
JumpTo(n) == Line("JUMP", <<Num(n)>>)
Unless(n) == Line("JUMP_IF_FALSE", <<Num(n)>>)
Emit == Line("EMIT", <<Name("done"), Name("it")>>)

Lines ==
    {Const(0), Const(2), Load, Store, JumpTo(0), JumpTo(1), JumpTo(7), Unless(0), Unless(9),
     Emit, Op("ADD"), Op("EQ"), Op("HALT"), Op(""), Op("WARP"), Op("LOAD"), Const(4),
     Line("JUMP", <<Num(-1)>>), Line("HALT", <<Num(1)>>),
     Line("STORE", <<Name("k"), Name("k")>>)}

Constants == {MinI64, -1, 0, 2, MaxI64}

\* A loop that counts k down from two, one that never ends, a script that jumps
\* over its guard, and programs that saturate up to i64::MIN.
CountDown == <<Const(2), Store, Load, Unless(9), Load, Const(1), Op("SUB"), Store,
               JumpTo(2), Op("HALT")>>
Spin == <<Emit, JumpTo(0)>>
HalfLoaded == <<Const(MinI64), Const(-1), JumpTo(4), Const(2), Op("DIV"), Store>>
Saturate == <<Const(-4), Const(3), Op("SUB"), Const(-1), Op("DIV")>>
Halve == <<Load, Const(2), Op("DIV"), Store, Emit>>

MCScripts ==
    BoundedSeq(Lines, 2)
        \cup {<<Const(a), Const(b), Op(op), Store>> :
                 a \in Constants, b \in Constants, op \in Bare \ {"HALT"}}
        \cup {CountDown, Spin, HalfLoaded, Saturate}

\* Set k, halve it, negate it, store and then fail, divide by it, emit and end.
MCContracts ==
    {<<Const(n), Store>> : n \in Constants}
        \cup {Halve, <<Op(""), Load, Const(-1), Op("MUL"), Store>>,
              <<Const(0), Store, Emit, Op("ADD")>>, <<Const(2), Load, Op("DIV"), Store>>,
              <<Load, Const(-1), Op("DIV"), Store>>, <<Emit, Op("HALT"), Op("ADD")>>,
              CountDown, Spin, <<Load, Unless(9), Emit>>, <<Op("WARP")>>}
=============================================================================

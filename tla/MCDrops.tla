------------------------------ MODULE MCDrops ------------------------------
(* Sublanguages for Drops: which statements the checked programs may use.  *)
EXTENDS Drops

\* Values are moved between locals and handed over, none is set again.
HandingOver ==
  [outside |-> {"let", "let_from", "push", "spawn", "call", "if", "while",
                "loop", "return"},
   inside |-> {"let", "let_from", "push", "spawn", "if", "break", "continue",
               "return"},
   backend |-> "cranelift"]

\* Locals are set to new objects, in and out of loops.
Reassigning ==
  [outside |-> {"let", "let_from", "set", "if", "while", "loop", "return",
                "revive"},
   inside |-> {"let", "let_from", "set", "if", "break", "continue",
               "return"},
   backend |-> "cranelift"]

\* Locals are set from other locals, which are then left alone.
Chaining ==
  [outside |-> {"let", "let_from", "set", "set_from", "if", "while", "return"},
   inside |-> {"let", "set", "break", "continue"},
   backend |-> "cranelift"]

\* Straight programs, without branches and early returns, on LLVM.
Straight ==
  [outside |-> {"let", "let_from", "set", "push", "spawn", "revive"},
   inside |-> {},
   backend |-> "llvm"]

Sound == {HandingOver, Reassigning, Chaining, Straight}
ASSUME SoundIsDisciplined == \A f \in Sound : Disciplined(f)

\* A local is passed to a function by value, and set again.
Replacing ==
  [outside |-> {"let", "call", "set", "revive"},
   inside |-> {},
   backend |-> "cranelift"]

PassedAndSet == {Replacing}
=============================================================================

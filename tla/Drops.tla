------------------------------- MODULE Drops -------------------------------
(***************************************************************************)
(* How the compiler decides which local frees a heap object: the lowering  *)
(* of one function body to MIR blocks (mir/lower: statement.rs,            *)
(* expr/control.rs, expr/assign.rs, emit.rs), drop elaboration over the    *)
(* finished blocks (mir/lower/drops.rs), and the execution of the result   *)
(* over a heap of objects.                                                 *)
(*                                                                         *)
(* A behaviour first writes a program, one statement a step, through the   *)
(* borrow checker's eyes (a moved local may not be read), with the lowerer *)
(* emitting blocks as it goes; Finish runs drop elaboration; then the      *)
(* program runs, one block a step, the branches taken either way.  Every   *)
(* local holds a user-defined class.  A constructor call is one "alloc"    *)
(* into its local: the class temporary between them is never dropped.      *)
(***************************************************************************)
EXTENDS Naturals, FiniteSets, SequencesExt

CONSTANTS
  MaxLocals,      \* bound: locals a program declares
  MaxStatements,  \* bound: statements of a program
  MaxObjects,     \* bound: objects one run allocates
  MaxJumps,       \* bound: blocks one run enters
  Fragments       \* the sublanguages programs are written in: see Fragment

Locals  == 1 .. MaxLocals
Objects == 1 .. MaxObjects

\* What a program may do.  "revive" sets a local that was moved away;
\* "outer_move" moves, in a loop, a local declared outside it.
Permissions == {"let", "let_from", "set", "set_from", "push", "spawn",
                "store", "call", "if", "while", "loop", "break", "continue",
                "return", "revive", "outer_move"}

\* A sublanguage, and the code generator its programs go through.
Fragment == [outside: SUBSET Permissions,  \* outside loops
             inside: SUBSET Permissions,   \* in loops
             backend: {"cranelift", "llvm"}]

\* The sublanguages that drop elaboration is sound for.  Where nothing
\* branches, the lists of the lowerer are exact; where something does, a
\* local that was given away or copied from stays without a value.
Branchless(f) ==
  f.outside \cap {"if", "while", "loop", "return", "store", "call", "set_from"} = {}
Disciplined(f) ==
  /\ "store" \notin f.outside \cup f.inside
  /\ f.inside \cap {"call", "set_from", "revive", "outer_move"} = {}
  /\ "revive" \in f.outside =>
       \/ Branchless(f)
       \/ (f.outside \cup f.inside) \cap {"push", "spawn", "call", "set_from"} = {}
  /\ f.backend = "llvm" => Branchless(f)

ASSUME BoundsAssumption ==
  /\ {MaxLocals, MaxStatements, MaxObjects, MaxJumps} \subseteq Nat \ {0}
  /\ Fragments \subseteq Fragment

VARIABLES
  phase,     \* "lower", "run", "done"
  fragment,  \* the sublanguage of this program
  returns,   \* does the function return a value?
  blocks,    \* MirFunction.blocks: see NewBlock
  cur,       \* current_block
  frames,    \* the open constructs, innermost last; loops are loop_stack
  declared,  \* locals declared so far: 1 .. declared
  visible,   \* those in scope
  moved,     \* borrow_check: the locals MoveChecker holds as moved
  inited,    \* initialized_heap_locals
  open,      \* can the current block be reached?
  spent,     \* statements written
  drops,     \* the locals insert_drops frees before each Return
  at,        \* the block about to run
  jumps,     \* blocks entered
  mem        \* the run's memory: see Memory

lowering == <<returns, blocks, cur, frames, declared, visible, moved, inited,
              open, spent>>
running  == <<at, jumps, mem>>
vars     == <<phase, fragment, lowering, drops, running>>

-----------------------------------------------------------------------------
(* MIR *)

Alloc(x)     == [op |-> "alloc", to |-> x, from |-> x]
Assign(d, s) == [op |-> "assign", to |-> d, from |-> s]
Move(d, s)   == [op |-> "move", to |-> d, from |-> s]
Dealloc(x)   == [op |-> "free", to |-> x, from |-> x]
\* The value of x goes to another owner: ruxen_vec_push, a spawn,
\* a field (SetField), a user callee's by-value parameter.
Give(x, how) == [op |-> how, to |-> x, from |-> x]

GivingOps == {"push", "spawn", "store", "call"}

Goto(b)      == [kind |-> "goto", then |-> b, else |-> b, value |-> 0]
Branch(b, c) == [kind |-> "branch", then |-> b, else |-> c, value |-> 0]
Return(x)    == [kind |-> "return", then |-> 0, else |-> 0, value |-> x]
Unreachable  == [kind |-> "unreachable", then |-> 0, else |-> 0, value |-> 0]

\* Only loops clear and free on the edges of a block: prepend_zero_init_for_
\* body_locals puts assignments of 0 before its instructions, emit_dealloc_loop_
\* locals a free and an assignment of 0 for each local behind them.
NewBlock == [clears |-> {}, ins |-> <<>>, frees |-> {}, term |-> Unreachable]

\* bs with the instructions is at the end of block b.
Emit(bs, b, is) == [bs EXCEPT ![b].ins = @ \o is]

\* bs with block b ended by t, unless something ended it before.
Close(bs, b, t) == IF bs[b].term = Unreachable
                   THEN [bs EXCEPT ![b].term = t] ELSE bs

\* emit_dealloc_loop_locals: every loop exit edge frees and clears them.
FreeLoopLocals(bs, b, ls) == [bs EXCEPT ![b].frees = ls]

-----------------------------------------------------------------------------
(* Open constructs *)

IfFrame(else, merge) ==
  [kind |-> "then", target |-> else, exit |-> merge, entry |-> cur,
   locals |-> {}, scope |-> visible, moved |-> moved]

LoopFrame(target, exit, entry) ==
  [kind |-> "loop", target |-> target, exit |-> exit, entry |-> entry,
   locals |-> {}, scope |-> visible, moved |-> moved]

LoopDepths == {i \in DOMAIN frames : frames[i].kind = "loop"}
InLoop     == LoopDepths # {}
LoopAt     == CHOOSE i \in LoopDepths : \A j \in LoopDepths : j <= i
Innermost  == frames[LoopAt]
Top        == frames[Len(frames)]

\* Mutant: only the scope-exit list is told.
StillListed(x) == frames

\* remove_moved_loop_local: x leaves every loop's free list.
Unlisted(x) ==
  [i \in DOMAIN frames |->
     [frames[i] EXCEPT !.locals = @ \ {x}]]

-----------------------------------------------------------------------------
(* Drop elaboration *)

Body == UNION {Range(blocks[b].ins) : b \in DOMAIN blocks}

\* Ownership while the blocks are read: rooted locals own a fresh object,
\* tainted ones are given up for good.
Rooted(s, x) == IF x \in s.tainted THEN s.rooted ELSE s.rooted \cup {x}
TaintAll(s, xs) == [rooted |-> s.rooted \ xs, tainted |-> s.tainted \cup xs]
Taint(s, x)  == TaintAll(s, {x})

\* Mutant: the source stays an owner too.
AliasBoth(s, d, f) == [s EXCEPT !.rooted = Rooted(s, d)]

\* The object of f is d's from here on, if d may own one.
Alias(s, d, f) == [rooted  |-> Rooted(s, d) \ {f},
                   tainted |-> s.tainted \cup {f}]

\* One instruction of compute_dealloc_safe_locals.
Track(s, i) ==
  CASE i.op = "alloc" -> [s EXCEPT !.rooted = Rooted(s, i.to)]
    [] i.op \in {"assign", "move"} ->
         IF i.from \in s.rooted THEN Alias(s, i.to, i.from) ELSE Taint(s, i.to)
    [] i.op \in GivingOps -> Taint(s, i.from)
    [] OTHER -> s

\* What a block does to s; clearing a local is an assignment, too.
TrackBlock(s, b) ==
  LET seen[i \in 0 .. Len(b.ins)] == IF i = 0 THEN TaintAll(s, b.clears)
                                     ELSE Track(seen[i - 1], b.ins[i])
  IN TaintAll(seen[Len(b.ins)], b.frees)

\* compute_dealloc_safe_locals: one pass over the blocks in id order.
DeallocSafe ==
  LET seen[b \in 0 .. Len(blocks)] ==
        IF b = 0 THEN [rooted |-> {}, tainted |-> {}]
        ELSE TrackBlock(seen[b - 1], blocks[b])
  IN seen[Len(blocks)].rooted

\* find_return_locals, and compute_return_alias_chain: what the value of a
\* Return was copied or moved from, over however many locals.
ReturnLocals == {blocks[b].term.value : b \in DOMAIN blocks} \ {0}
ClosedUnderCopy(chain) ==
  \A i \in Body : i.op \in {"assign", "move"} /\ i.to \in chain => i.from \in chain
ReturnAliases ==
  {x \in Locals : \A chain \in SUBSET Locals :
                    ReturnLocals \subseteq chain /\ ClosedUnderCopy(chain)
                    => x \in chain}

MovedToFfi == {i.from : i \in {j \in Body : j.op = "spawn"}}

\* Mutant: the first local is never dropped.
DropLocalsButFirst == DeallocSafe \ (ReturnAliases \cup MovedToFfi \cup {1})

\* insert_drops.  Its order, last declared first, only shows in destructors.
DropLocals == DeallocSafe \ (ReturnAliases \cup MovedToFfi)

-----------------------------------------------------------------------------
(* The run *)

Nil  == 0
Junk == MaxObjects + 1

\* What a local holds before anything was stored in it: cranelift's
\* variables start at zero, an LLVM alloca holds what the stack held.
Unset == IF fragment.backend = "llvm" THEN Junk ELSE Nil

Faults == {"none", "double_free", "free_of_junk", "nil_use", "use_after_free",
           "two_owners", "exhausted"}

Memory == [env: [Locals -> {Nil, Junk} \cup Objects],
           heap: [Objects -> {"unborn", "live", "freed"}],
           kept: SUBSET Objects,  \* objects another owner holds
           result: {Nil, Junk} \cup Objects,
           fault: Faults]

Unborn(m) == {o \in Objects : m.heap[o] = "unborn"}
Newborn(m) == CHOOSE o \in Unborn(m) : \A p \in Unborn(m) : o <= p

Blame(m, f) == [m EXCEPT !.fault = f]

\* What goes wrong when the program reads v as a value it owns.
ReadFault(m, v) ==
  CASE v = Nil -> "nil_use"
    [] v = Junk -> "use_after_free"
    [] OTHER -> IF m.heap[v] = "freed" THEN "use_after_free"
                ELSE IF v \in m.kept THEN "two_owners" ELSE "none"

\* ruxen_dealloc of what each of xs holds: free(NULL) is allowed.
Freed(m, xs) ==
  LET held == {m.env[x] : x \in xs} \ {Nil}
  IN IF m.fault # "none" THEN m
     ELSE IF Junk \in held THEN Blame(m, "free_of_junk")
     ELSE IF \/ \E o \in held : m.heap[o] = "freed"
             \/ \E x, y \in xs : x # y /\ m.env[x] = m.env[y] /\ m.env[x] # Nil
          THEN Blame(m, "double_free")
     ELSE [m EXCEPT !.heap = [o \in Objects |-> IF o \in held THEN "freed"
                                                ELSE m.heap[o]]]

Cleared(m, xs) ==
  [m EXCEPT !.env = [x \in Locals |-> IF x \in xs THEN Nil ELSE m.env[x]]]

\* One instruction, by what the backends emit for it.
Exec(m, i) ==
  LET v == m.env[i.from]
  IN IF m.fault # "none" THEN m
     ELSE CASE i.op = "alloc" /\ Unborn(m) = {} -> Blame(m, "exhausted")
            [] i.op = "alloc" /\ Unborn(m) # {} ->
                 [m EXCEPT !.env[i.to] = Newborn(m),
                           !.heap[Newborn(m)] = "live"]
            [] i.op = "free" -> Freed(m, {i.from})
            [] i.op \notin {"alloc", "free"} /\ ReadFault(m, v) # "none" ->
                 Blame(m, ReadFault(m, v))
            [] i.op = "assign" /\ ReadFault(m, v) = "none" ->
                 [m EXCEPT !.env[i.to] = v]
            [] i.op = "move" /\ ReadFault(m, v) = "none" ->
                 [m EXCEPT !.env[i.to] = v, !.env[i.from] = Nil]
            [] OTHER -> [m EXCEPT !.kept = @ \cup {v}]

\* A block up to its terminator.
Executed(m, b) ==
  LET after[i \in 0 .. Len(b.ins)] == IF i = 0 THEN Cleared(m, b.clears)
                                      ELSE Exec(after[i - 1], b.ins[i])
  IN Cleared(Freed(after[Len(b.ins)], b.frees), b.frees)

\* A Return: the value is read, then the locals to drop are freed.
Leave(m, x) ==
  LET v    == IF x = 0 THEN Nil ELSE m.env[x]
      read == IF m.fault = "none" /\ x # 0 THEN ReadFault(m, v) ELSE m.fault
  IN Freed([m EXCEPT !.result = v, !.fault = read], drops)

-----------------------------------------------------------------------------
(* Writing and lowering a program *)

Init ==
  /\ phase = "lower"
  /\ fragment \in Fragments
  /\ returns \in {r \in BOOLEAN : r => "return" \in fragment.outside}
  /\ blocks = <<NewBlock>> /\ cur = 1
  /\ frames = <<>>
  /\ declared = 0 /\ visible = {}
  /\ moved = {} /\ inited = {}
  /\ open = TRUE /\ spent = 0
  /\ drops = {}
  /\ at = 1 /\ jumps = 0
  /\ mem = [env |-> [x \in Locals |-> Unset],
            heap |-> [o \in Objects |-> "unborn"],
            kept |-> {}, result |-> Nil, fault |-> "none"]

May(what) == what \in IF InLoop THEN fragment.inside ELSE fragment.outside

\* One more statement of this kind.
Write(kind) ==
  /\ phase = "lower" /\ open /\ spent < MaxStatements
  /\ May(kind)
  /\ spent' = spent + 1
  /\ UNCHANGED <<phase, fragment, returns, drops, running>>

\* What the borrow checker lets a statement read, move and set.
Readable == visible \ moved
Movable  == IF InLoop /\ ~May("outer_move") THEN Readable \ Innermost.scope
            ELSE Readable
Settable == IF May("revive") THEN visible ELSE Readable

\* HirStatement::Let: the new local, and the loop that will free it.
Declare(ins) ==
  LET x == declared + 1
  IN /\ declared < MaxLocals
     /\ declared' = x
     /\ visible' = visible \cup {x}
     /\ inited' = inited \cup {x}
     /\ frames' = IF InLoop
                  THEN [frames EXCEPT ![LoopAt].locals = @ \cup {x}]
                  ELSE frames
     /\ blocks' = Emit(blocks, cur, ins)

\* let x = Class.new
Let ==
  /\ Write("let")
  /\ Declare(<<Alloc(declared + 1)>>)
  /\ UNCHANGED <<cur, moved, open>>

\* let x = y
LetFrom ==
  /\ Write("let_from")
  /\ \E y \in Movable :
       /\ Declare(<<Move(declared + 1, y)>>)
       /\ moved' = moved \cup {y}
  /\ UNCHANGED <<cur, open>>

\* The free of the object x holds, where the lowerer knows it holds one.
FreePrior(x) == IF x \in inited THEN <<Dealloc(x)>> ELSE <<>>

\* x = Class.new
Set ==
  /\ Write("set")
  /\ \E x \in Settable :
       /\ blocks' = Emit(blocks, cur, FreePrior(x) \o <<Alloc(x)>>)
       /\ moved' = moved \ {x}
       /\ inited' = inited \cup {x}
  /\ UNCHANGED <<cur, frames, declared, visible, open>>

\* x = y
SetFrom ==
  /\ Write("set_from")
  /\ \E y \in Movable, x \in Settable :
       /\ x # y
       /\ blocks' = Emit(blocks, cur, FreePrior(x) \o <<Assign(x, y)>>)
       /\ moved' = (moved \ {x}) \cup {y}
       /\ inited' = inited \cup {x}
  /\ UNCHANGED <<cur, frames, declared, visible, open>>

\* emit takes a value pushed into a collection, or spawned, off both free
\* lists; not one stored in a field or passed to a user's function.
HandOver ==
  \E how \in GivingOps :
    /\ Write(how)
    /\ \E x \in Movable :
         /\ blocks' = Emit(blocks, cur, <<Give(x, how)>>)
         /\ moved' = IF how = "store" THEN moved ELSE moved \cup {x}
         /\ IF how \in {"push", "spawn"}
            THEN inited' = inited \ {x} /\ frames' = Unlisted(x)
            ELSE UNCHANGED <<inited, frames>>
    /\ UNCHANGED <<cur, declared, visible, open>>

\* if: the then, else and merge blocks, in this order.
If ==
  LET n == Len(blocks)
  IN /\ Write("if")
     /\ blocks' = Close(blocks, cur, Branch(n + 1, n + 2))
                    \o <<NewBlock, NewBlock, NewBlock>>
     /\ cur' = n + 1
     /\ frames' = Append(frames, IfFrame(n + 2, n + 3))
     /\ UNCHANGED <<declared, visible, moved, inited, open>>

Within(kinds) ==
  /\ phase = "lower" /\ frames # <<>> /\ Top.kind \in kinds
  /\ UNCHANGED <<phase, fragment, returns, declared, inited, spent, drops,
                 running>>

\* The else branch starts from the moves before the if.
Else ==
  /\ Within({"then"})
  /\ blocks' = Close(blocks, cur, Goto(Top.exit))
  /\ cur' = Top.target
  /\ frames' = [frames EXCEPT ![Len(frames)].kind = "else",
                              ![Len(frames)].moved = moved]
  /\ visible' = Top.scope /\ moved' = Top.moved /\ open' = TRUE

\* Mutant: what the then branch moved is forgotten.
MovedInElse == moved

\* MoveChecker.merge: moved on either branch is moved after the if.
MovedOnABranch == moved \cup Top.moved

EndIf ==
  /\ Within({"else"})
  /\ blocks' = Close(blocks, cur, Goto(Top.exit))
  /\ cur' = Top.exit
  /\ frames' = Front(frames)
  /\ visible' = Top.scope /\ moved' = MovedOnABranch /\ open' = TRUE

\* while: header, body and exit; continue goes to the header.
While ==
  LET n == Len(blocks)
  IN /\ Write("while")
     /\ blocks' = Close(blocks, cur, Goto(n + 1))
                    \o <<[NewBlock EXCEPT !.term = Branch(n + 2, n + 3)],
                         NewBlock, NewBlock>>
     /\ cur' = n + 2
     /\ frames' = Append(frames, LoopFrame(n + 1, n + 3, n + 2))
     /\ UNCHANGED <<declared, visible, moved, inited, open>>

\* loop: the body, which is also where continue goes, and the exit.
Loop ==
  LET n == Len(blocks)
  IN /\ Write("loop")
     /\ blocks' = Close(blocks, cur, Goto(n + 1)) \o <<NewBlock, NewBlock>>
     /\ cur' = n + 1
     /\ frames' = Append(frames, LoopFrame(n + 1, n + 2, n + 1))
     /\ UNCHANGED <<declared, visible, moved, inited, open>>

\* The back edge frees the locals still listed; the entry block clears them.
EndLoop ==
  /\ Within({"loop"})
  /\ blocks' =
       [Close(FreeLoopLocals(blocks, cur, Top.locals), cur, Goto(Top.target))
          EXCEPT ![Top.entry].clears = Top.locals]
  /\ cur' = Top.exit
  /\ frames' = Front(frames)
  /\ visible' = Top.scope /\ open' = TRUE
  /\ UNCHANGED moved

\* Code after a jump goes to a dead block of its own.
JumpWith(bs) ==
  /\ blocks' = Append(bs, NewBlock)
  /\ cur' = Len(bs) + 1
  /\ open' = FALSE
  /\ UNCHANGED <<frames, declared, visible, moved, inited>>

\* break and continue free the locals the innermost loop lists so far.
BreakOrContinue ==
  \E how \in {"break", "continue"} :
    /\ Write(how) /\ InLoop
    /\ JumpWith(Close(FreeLoopLocals(blocks, cur, Innermost.locals), cur,
                      Goto(IF how = "break" THEN Innermost.exit
                           ELSE Innermost.target)))

\* return, or return x
ReturnEarly ==
  /\ Write("return")
  /\ \E x \in IF returns THEN Readable ELSE {0} :
       JumpWith(Close(blocks, cur, Return(x)))

\* The end of the body: the implicit return, then drop elaboration.
EndBody ==
  /\ phase = "lower" /\ frames = <<>>
  /\ \E x \in IF returns /\ open THEN Readable ELSE {0} :
       blocks' = Close(blocks, cur, Return(x))
  /\ phase' = "elaborate"
  /\ UNCHANGED <<fragment, returns, cur, frames, declared, visible, moved,
                 inited, open, spent, drops, running>>

InsertDrops ==
  /\ phase = "elaborate"
  /\ drops' = DropLocals
  /\ phase' = "run"
  /\ UNCHANGED <<fragment, lowering, running>>

-----------------------------------------------------------------------------
(* Running it *)

RunBlock ==
  LET block == blocks[at]
      after == Executed(mem, block)
  IN /\ phase = "run" /\ jumps < MaxJumps
     /\ after.fault # "exhausted"
     /\ jumps' = jumps + 1
     /\ IF block.term.kind = "return"
        THEN /\ mem' = Leave(after, block.term.value)
             /\ phase' = "done"
             /\ UNCHANGED at
        ELSE /\ mem' = after
             /\ phase' = IF after.fault = "none" THEN "run" ELSE "done"
             /\ at' \in {block.term.then, block.term.else}
     /\ UNCHANGED <<fragment, lowering, drops>>

Next ==
  \/ Let \/ LetFrom \/ Set \/ SetFrom \/ HandOver
  \/ If \/ Else \/ EndIf \/ While \/ Loop \/ EndLoop
  \/ BreakOrContinue \/ ReturnEarly \/ EndBody \/ InsertDrops \/ RunBlock

Spec == Init /\ [][Next]_vars

-----------------------------------------------------------------------------
TypeOK ==
  /\ phase \in {"lower", "elaborate", "run", "done"}
  /\ fragment \in Fragments /\ returns \in BOOLEAN
  /\ cur \in DOMAIN blocks /\ at \in DOMAIN blocks
  /\ declared \in 0 .. MaxLocals
  /\ visible \cup inited \cup moved \subseteq 1 .. declared
  /\ open \in BOOLEAN /\ spent \in 0 .. MaxStatements
  /\ drops \subseteq 1 .. declared
  /\ jumps \in 0 .. MaxJumps
  /\ mem \in Memory

Returned == phase = "done" /\ mem.fault = "none"

\* Nothing is freed twice, and nothing is freed that was never allocated:
\* the reassignment, the loop edges and the scope exit, which each decide
\* for themselves what to free, never meet at one object, whichever
\* branches the program takes.
FreesOnlyOwn == mem.fault \notin {"double_free", "free_of_junk"}

\* A value the borrow checker lets a program read is there, and is the
\* program's own: not freed under it, not the null a move leaves behind,
\* not already given to somebody else.
ReadsOwn == mem.fault \notin {"use_after_free", "nil_use", "two_owners"}

\* What a collection, the executor, a callee or the caller holds is not
\* freed by the function it came from.
HandedOverSurvives ==
  /\ \A o \in mem.kept : mem.heap[o] = "live"
  /\ Returned /\ mem.result # Nil => mem.heap[mem.result] = "live"

\* Objects nobody frees any more.
Leaked == {o \in Objects : mem.heap[o] = "live"}
            \ (mem.kept \cup {mem.result})

\* Locals the analysis may give up on: some path moves, gives away or
\* returns their value, or a loop frees them at its edges.
Entangled ==
  ReturnAliases \cup
  (UNION {{i.from, i.to} : i \in {j \in Body : j.op \notin {"alloc", "free"}}}) \cup
  (UNION {blocks[b].clears \cup blocks[b].frees : b \in DOMAIN blocks})

\* A program without branches that sets no moved local leaks nothing; in
\* any program a local that only ever holds its own objects leaves none.
NothingLeaks ==
  Returned =>
    /\ /\ "revive" \notin fragment.outside
       /\ \A b \in DOMAIN blocks : blocks[b].term.kind = "return"
       => Leaked = {}
    /\ \A x \in (1 .. declared) \ Entangled : mem.env[x] \notin Leaked
    /\ Entangled = {} => Leaked = {}
=============================================================================

-------------------------- MODULE DropsInvariants ---------------------------
(***************************************************************************)
(* The invariants by which DropsProofs proves the theorems about Drops.    *)
(*                                                                         *)
(* The lowering is typed: every block is given the locals known to own an  *)
(* object, and those known to own one or to hold nothing, where it starts  *)
(* (TypedSoFar); the typing is kept by every statement of every            *)
(* disciplined program, whatever locals are given up later.  The finished  *)
(* blocks then keep their promises to each other in every run (Running),   *)
(* and drop elaboration only picks locals of which the promises say that   *)
(* they own an object or hold nothing at a return.                         *)
(*                                                                         *)
(* That nothing is left behind is a statement the other way round: every   *)
(* live object is held by one of a set of locals (Snug), instructions lead *)
(* from one such set to another (Carries), and the sets that reach a       *)
(* return are dropped there (Tidy).                                        *)
(***************************************************************************)
EXTENDS Drops

-----------------------------------------------------------------------------
(* Memory *)

Owned(m, x) == /\ m.env[x] \in Objects /\ m.heap[m.env[x]] = "live"
               /\ m.env[x] \notin m.kept

\* The locals own hold objects of their own, the locals clean such objects
\* or nothing, no two of them one object.  What was handed over is there.
Good(m, own, clean) ==
  /\ m \in Memory /\ m.fault = "none"
  /\ own \subseteq Locals /\ clean \subseteq Locals
  /\ \A x \in own : Owned(m, x)
  /\ \A x \in clean : m.env[x] = Nil \/ Owned(m, x)
  /\ \A x, y \in own \cup clean : x # y /\ m.env[x] = m.env[y] => m.env[x] = Nil
  /\ \A o \in m.kept : m.heap[o] = "live"

\* Unless the bound on the objects of a run stopped it, m is good.
Exhausted(m) == m \in Memory /\ m.fault = "exhausted"
Sound(m, own, clean) == Exhausted(m) \/ Good(m, own, clean)

Wrote(n, m, x, v) == n = [m EXCEPT !.env[x] = v]
Born(n, m, x, o)  == n = [m EXCEPT !.env[x] = o, !.heap[o] = "live"]

Moved(n, m, d, s) == n = [m EXCEPT !.env[d] = m.env[s], !.env[s] = Nil]

Kept(n, m, v) == n = [m EXCEPT !.kept = m.kept \cup {v}]

-----------------------------------------------------------------------------
(* Freeing and clearing *)

FreedIn(n, m, held) ==
  n = [m EXCEPT !.heap = [o \in Objects |-> IF o \in held THEN "freed" ELSE m.heap[o]]]

ClearedIn(n, m, xs) ==
  n = [m EXCEPT !.env = [x \in Locals |-> IF x \in xs THEN Nil ELSE m.env[x]]]

-----------------------------------------------------------------------------
(* Recursion *)

\* The states before, between and behind the instructions of block b.
StateAt(f, m, b, i) == IF i = 0 THEN Cleared(m, b.clears)
                       ELSE Exec(f[i - 1], b.ins[i])
States(f, m, b, n)  == f = [i \in 0 .. n |-> StateAt(f, m, b, i)]

-----------------------------------------------------------------------------
(* Blocks *)

Ops == {"alloc", "assign", "move", "free"} \cup GivingOps
Instructions == [op: Ops, to: Locals, from: Locals]
Jumps == [kind: {"goto", "branch", "return"}, then: Nat, else: Nat,
          value: {0} \cup Locals]
Terminators == Jumps \cup {Unreachable}
Blocks == [clears: SUBSET Locals, ins: Seq(Instructions),
           frees: SUBSET Locals, term: Terminators]

\* Block b of new has the instructions is at its end, and nothing else of bs
\* has changed.
Grows(new, bs, b, is) ==
  /\ DOMAIN new = DOMAIN bs /\ \A c \in DOMAIN bs \ {b} : new[c] = bs[c]
  /\ new[b].clears = bs[b].clears /\ new[b].frees = bs[b].frees
  /\ new[b].term = bs[b].term
  /\ Len(new[b].ins) = Len(bs[b].ins) + Len(is)
  /\ \A i \in DOMAIN bs[b].ins : new[b].ins[i] = bs[b].ins[i]
  /\ \A j \in DOMAIN is : new[b].ins[Len(bs[b].ins) + j] = is[j]

-----------------------------------------------------------------------------
(* What a block makes of what is known where it starts *)

\* f goes through the instructions is.
Steps(f, is) == \A i \in 1 .. Len(is) : f[i] = Exec(f[i - 1], is[i])

\* From own and clean the instructions is lead to own2 and clean2.
Leads(is, own, clean, own2, clean2) ==
  \A f : Sound(f[0], own, clean) /\ Steps(f, is) => Sound(f[Len(is)], own2, clean2)

\* On entry to a block its own locals own objects, and clean ones nothing else.
Known == [own: SUBSET (Locals \cup {0}), clean: SUBSET Locals]

\* Nothing enters the block yet: no local is 0.
Nowhere == [own |-> Locals \cup {0}, clean |-> Locals]

\* What the locals given up somewhere leave: the locals that never hold what
\* is not their own, as far as the backend clears them first, and the locals a
\* Return may find to drop.
Sat(m, k, w) == Good(m, k.own, k.clean \cup w.base)

Yields(b, k, w, own, clean) ==
  \A f : Sat(f[0], k, w) /\ Steps(f, b.ins) => Sound(f[Len(b.ins)], own, clean)

Outcome(m, b) == Cleared(Freed(m, b.frees), b.frees)

Lands(m, t, w, know) ==
  \/ Exhausted(m)
  \/ t.kind = "return" /\ Good(m, {t.value} \ {0}, w.drop)
  \/ t.kind # "return" /\ Sat(m, know[t.then], w) /\ Sat(m, know[t.else], w)

Flows(b, k, w, know) ==
  \A f : Sat(f[0], k, w) /\ Steps(f, b.ins)
         => Lands(Outcome(f[Len(b.ins)], b), b.term, w, know)

\* Block b of bs ends with t and frees xs, and more follows: what the control
\* statements do to the blocks.
Opens(new, bs, b, t, xs, more) ==
  /\ Len(new) = Len(bs) + Len(more)
  /\ \A c \in DOMAIN bs \ {b} : new[c] = bs[c]
  /\ new[b].clears = bs[b].clears /\ new[b].ins = bs[b].ins
  /\ new[b].frees = xs /\ new[b].term = t
  /\ \A j \in DOMAIN more : new[Len(bs) + j] = more[j]

-----------------------------------------------------------------------------
(* The shape of the state *)

Frames == [kind: {"then", "else", "loop"}, target: Nat, exit: Nat, entry: Nat,
           locals: SUBSET Locals, scope: SUBSET Locals, moved: SUBSET Locals]

\* The blocks a construct has made and not reached.
Pending(f) == IF f.kind = "then" THEN {f.target, f.exit} ELSE {f.exit}

\* A block without a jump is the current one or one still pending.
Lowering ==
  /\ blocks[cur].term = Unreachable
  /\ \A b \in DOMAIN blocks : blocks[b].term = Unreachable =>
       /\ blocks[b].frees = {}
       /\ b = cur \/ \E i \in DOMAIN frames : b \in Pending(frames[i])
  /\ \A i \in DOMAIN frames :
       /\ cur \notin Pending(frames[i])
       /\ frames[i].kind = "then" => frames[i].target # frames[i].exit
       /\ \A p \in Pending(frames[i]) :
            blocks[p].ins = <<>> /\ blocks[p].term = Unreachable
  /\ \A i, j \in DOMAIN frames :
       /\ i # j => Pending(frames[i]) \cap Pending(frames[j]) = {}
       /\ frames[j].kind = "loop" =>
            {frames[j].target, frames[j].entry} \cap Pending(frames[i]) = {}

Lowered == frames = <<>> /\ \A b \in DOMAIN blocks : blocks[b].term \in Jumps

Targets(bs) ==
  \A b \in DOMAIN bs : bs[b].term \in Jumps /\ bs[b].term.kind # "return"
                       => {bs[b].term.then, bs[b].term.else} \subseteq DOMAIN bs

StateTypes ==
  /\ phase \in {"lower", "elaborate", "run", "done"}
  /\ fragment \in Fragments /\ returns \in BOOLEAN
  /\ cur \in DOMAIN blocks /\ at \in DOMAIN blocks
  /\ declared \in 0 .. MaxLocals
  /\ visible \cup inited \cup moved \subseteq 1 .. declared
  /\ open \in BOOLEAN /\ spent \in 0 .. MaxStatements
  /\ jumps \in 0 .. MaxJumps
  /\ mem \in Memory

Shape ==
  /\ StateTypes
  /\ blocks \in Seq(Blocks) /\ Targets(blocks)
  /\ frames \in Seq(Frames)
  /\ \A i \in DOMAIN frames :
       /\ {frames[i].target, frames[i].exit, frames[i].entry} \subseteq DOMAIN blocks
       /\ frames[i].locals \cup frames[i].scope \cup frames[i].moved \subseteq 1 .. declared
  /\ IF phase = "lower" THEN Lowering ELSE Lowered

-----------------------------------------------------------------------------
(* What the statements change *)

\* The constructs stay open; what the loops list may change.
Relisted(new, old) ==
  /\ DOMAIN new = DOMAIN old
  /\ \A i \in DOMAIN old :
       /\ new[i].kind = old[i].kind /\ new[i].target = old[i].target
       /\ new[i].exit = old[i].exit /\ new[i].entry = old[i].entry
       /\ new[i].scope = old[i].scope /\ new[i].moved = old[i].moved

\* A statement that jumps nowhere appends is to the current block.
Emits(is) ==
  /\ phase = "lower" /\ is \in Seq(Instructions)
  /\ blocks' \in Seq(Blocks) /\ Grows(blocks', blocks, cur, is)
  /\ frames' \in Seq(Frames) /\ Relisted(frames', frames)
  /\ spent' \in 0 .. MaxStatements
  /\ UNCHANGED <<phase, fragment, returns, drops, running, cur, open>>

Declares ==
  /\ declared + 1 \in Locals /\ declared' = declared + 1
  /\ declared' \in 0 .. MaxLocals
  /\ visible' = visible \cup {declared'} /\ inited' = inited \cup {declared'}
  /\ \A i \in DOMAIN frames :
       frames'[i].locals = IF InLoop /\ i = LoopAt
                           THEN frames[i].locals \cup {declared'}
                           ELSE frames[i].locals

Declared ==
  /\ declared' = declared /\ visible' = visible
  /\ \A i \in DOMAIN frames : frames'[i].locals \subseteq frames[i].locals

Lets == May("let") /\ Emits(<<Alloc(declared + 1)>>) /\ Declares /\ moved' = moved
LetsFrom(y) ==
  /\ May("let_from") /\ y \in Movable /\ Emits(<<Move(declared + 1, y)>>) /\ Declares
  /\ moved' = moved \cup {y}
Sets(x) ==
  /\ May("set") /\ x \in Settable /\ Emits(FreePrior(x) \o <<Alloc(x)>>) /\ Declared
  /\ moved' = moved \ {x} /\ inited' = inited \cup {x}
SetsFrom(x, y) ==
  /\ May("set_from") /\ y \in Movable /\ x \in Settable /\ x # y
  /\ Emits(FreePrior(x) \o <<Assign(x, y)>>) /\ Declared
  /\ moved' = (moved \ {x}) \cup {y} /\ inited' = inited \cup {x}
Gives(x, how) ==
  /\ May(how) /\ how \in GivingOps /\ x \in Movable
  /\ Emits(<<Give(x, how)>>) /\ Declared
  /\ moved' = IF how = "store" THEN moved ELSE moved \cup {x}
  /\ inited' = IF how \in {"push", "spawn"} THEN inited \ {x} ELSE inited
  /\ how \in {"push", "spawn"} =>
       \A i \in DOMAIN frames : frames'[i].locals = frames[i].locals \ {x}

\* The current block ends with t after freeing xs; more blocks follow.
Jumped(t, xs, more) ==
  /\ phase = "lower" /\ t \in Jumps /\ xs \subseteq Locals /\ more \in Seq(Blocks)
  /\ blocks' \in Seq(Blocks) /\ Opens(blocks', blocks, cur, t, xs, more)
  /\ spent' \in 0 .. MaxStatements
  /\ UNCHANGED <<fragment, returns, declared, inited, drops, running>>

Three == <<NewBlock, NewBlock, NewBlock>>
Header(n) == [NewBlock EXCEPT !.term = Branch(n + 2, n + 3)]

\* A construct opens.
Opening(t, more, f) ==
  /\ Jumped(t, {}, more)
  /\ frames' = Append(frames, f) /\ f \in Frames
  /\ UNCHANGED <<phase, visible, moved, open>>

Ifs(n) ==
  /\ May("if") /\ Opening(Branch(n + 1, n + 2), Three, IfFrame(n + 2, n + 3))
  /\ cur' = n + 1
Whiles(n) ==
  /\ May("while")
  /\ Opening(Goto(n + 1), <<Header(n), NewBlock, NewBlock>>, LoopFrame(n + 1, n + 3, n + 2))
  /\ cur' = n + 2
Loops(n) ==
  /\ May("loop")
  /\ Opening(Goto(n + 1), <<NewBlock, NewBlock>>, LoopFrame(n + 1, n + 2, n + 1))
  /\ cur' = n + 1

\* What Else and the ends of constructs leave.
Elses ==
  /\ frames # <<>> /\ Top.kind = "then" /\ Jumped(Goto(Top.exit), {}, <<>>)
  /\ cur' = Top.target /\ frames' \in Seq(Frames) /\ DOMAIN frames' = DOMAIN frames
  /\ \A i \in DOMAIN frames \ {Len(frames)} : frames'[i] = frames[i]
  /\ LET new == frames'[Len(frames)]
     IN /\ new.kind = "else" /\ new.target = Top.target /\ new.exit = Top.exit
        /\ new.entry = Top.entry /\ new.locals = Top.locals
        /\ new.scope = Top.scope /\ new.moved = moved
  /\ visible' = Top.scope /\ moved' = Top.moved /\ open' /\ UNCHANGED phase

Pops == frames # <<>> /\ frames' = Front(frames) /\ cur' = Top.exit
        /\ visible' = Top.scope /\ open' /\ UNCHANGED phase
EndsIf ==
  /\ Top.kind = "else" /\ Jumped(Goto(Top.exit), {}, <<>>) /\ Pops
  /\ moved' = moved \cup Top.moved

EndsLoop ==
  /\ phase = "lower" /\ Top.kind = "loop" /\ Pops
  /\ spent' \in 0 .. MaxStatements /\ Goto(Top.target) \in Jumps
  /\ UNCHANGED <<fragment, returns, declared, inited, drops, running, moved>>
  /\ blocks' \in Seq(Blocks) /\ DOMAIN blocks' = DOMAIN blocks
  /\ \A c \in DOMAIN blocks :
       /\ blocks'[c].ins = blocks[c].ins
       /\ blocks'[c].clears = IF c = Top.entry THEN Top.locals ELSE blocks[c].clears
       /\ blocks'[c].frees = IF c = cur THEN Top.locals ELSE blocks[c].frees
       /\ blocks'[c].term = IF c = cur THEN Goto(Top.target) ELSE blocks[c].term

\* A jump out of the text, and the dead block behind it.
Leaves(t, xs) ==
  /\ Jumped(t, xs, <<NewBlock>>)
  /\ cur' = Len(blocks) + 1 /\ open' \in BOOLEAN
  /\ UNCHANGED <<phase, frames, visible, moved>>

EndsBody ==
  /\ frames = <<>> /\ phase' = "elaborate"
  /\ \E x \in Readable \cup {0} : Jumped(Return(x), {}, <<>>)
  /\ UNCHANGED <<cur, frames, visible, moved, open>>

-----------------------------------------------------------------------------
(* The shape is kept *)

\* A construct that opens, with the blocks it makes and the frame it keeps.
Opened(n, t, more, f) ==
  /\ {t.then, t.else} \subseteq 1 .. n + Len(more)
  /\ \A j \in DOMAIN more :
       /\ more[j].frees = {} /\ more[j].ins = <<>> /\ more[j].clears = {}
       /\ more[j].term \in Jumps => {more[j].term.then, more[j].term.else}
                                      \subseteq 1 .. n + Len(more)
       /\ more[j].term = Unreachable <=> n + j = cur' \/ n + j \in Pending(f)
  /\ cur' \in n + 1 .. n + Len(more) /\ cur' \notin Pending(f)
  /\ Pending(f) \cup {f.target, f.exit} \subseteq n + 1 .. n + Len(more)
  /\ f.entry \in 1 .. n + Len(more)
  /\ f.kind = "then" => f.target # f.exit
  /\ f.kind = "loop" => /\ f.entry \in n + 1 .. n + Len(more)
                        /\ {f.target, f.entry} \cap Pending(f) = {}
  /\ f.locals \cup f.scope \cup f.moved \subseteq 1 .. declared

\* Every step of the lowering, by what it changes.
Lowers ==
  \/ Lets \/ \E y \in Movable : LetsFrom(y)
  \/ \E x \in Settable : Sets(x) \/ \E y \in Movable : SetsFrom(x, y)
  \/ \E how \in GivingOps : \E x \in Movable : Gives(x, how)
  \/ \E n \in {Len(blocks)} : Ifs(n) \/ Whiles(n) \/ Loops(n)
  \/ Elses \/ EndsIf \/ EndsLoop
  \/ InLoop /\ \E b \in {Innermost.exit, Innermost.target} : Leaves(Goto(b), Innermost.locals)
  \/ May("return") /\ \E x \in Readable \cup {0} : Leaves(Return(x), {})
  \/ EndsBody

-----------------------------------------------------------------------------
(* The locals given up, and the scopes *)

Losing == GivingOps \cup {"assign"}

\* The locals whose object some instruction of bs gives away or copies.
LostIn(bs) ==
  {x \in Locals : \E b \in DOMAIN bs : \E i \in DOMAIN bs[b].ins :
                    bs[b].ins[i].op \in Losing /\ bs[b].ins[i].from = x}
Lost == LostIn(blocks)

\* The scopes of the open constructs nest, a loop lists nothing of an outer
\* scope and nothing given up, and what was moved outside a loop is moved in
\* it.  Where nothing branches, what is not lost is listed as initialized.
LoopScope(i) ==
  /\ frames[i].locals \cap (frames[i].scope \cup Lost) = {}
  /\ moved \cap frames[i].scope = frames[i].moved \cap frames[i].scope
  /\ \A j \in DOMAIN frames : i < j =>
       frames[j].moved \cap frames[i].scope = frames[i].moved \cap frames[i].scope

Scoped ==
  /\ Lost \subseteq 1 .. declared
  /\ \A i \in DOMAIN frames : frames[i].scope \subseteq visible
  /\ \A i, j \in DOMAIN frames : i < j => frames[i].scope \subseteq frames[j].scope
  /\ \A i \in DOMAIN frames : frames[i].kind = "loop" => LoopScope(i)
  /\ Branchless(fragment) =>
       frames = <<>> /\ Len(blocks) = 1 /\ (1 .. declared) \ Lost \subseteq inited
  /\ "revive" \in fragment.outside /\ ~Branchless(fragment) => Lost = {}

\* What the instructions is give up.
Gone(is) == {x \in Locals : \E j \in DOMAIN is : is[j].op \in Losing /\ is[j].from = x}

WellBehaved == \A f \in Fragments : Disciplined(f)

-----------------------------------------------------------------------------
(* What is read has been written, in the order of the blocks *)

Defining == {"alloc", "assign", "move"}

\* Instruction j of block c puts something into x.
Defines(bs, c, j, x) == bs[c].ins[j].op \in Defining /\ bs[c].ins[j].to = x

\* What the blocks up to b define, and what comes before an instruction.
Defined(bs, b) ==
  {x \in Locals : \E c \in DOMAIN bs : \E j \in DOMAIN bs[c].ins :
                    c <= b /\ Defines(bs, c, j, x)}
Earlier(bs, b, i) ==
  {x \in Locals : \E c \in DOMAIN bs : \E j \in DOMAIN bs[c].ins :
                    (c < b \/ (c = b /\ j < i)) /\ Defines(bs, c, j, x)}

InOrder(bs, n) ==
  \A b \in DOMAIN bs : \A i \in DOMAIN bs[b].ins :
    /\ {bs[b].ins[i].to, bs[b].ins[i].from} \subseteq 1 .. n
    /\ bs[b].ins[i].op = "assign" => bs[b].ins[i].from \in Earlier(bs, b, i)

Ordered ==
  /\ InOrder(blocks, declared)
  /\ phase = "lower" =>
       /\ visible \subseteq Defined(blocks, cur)
       /\ \A i \in DOMAIN frames : \A p \in Pending(frames[i]) :
            frames[i].scope \subseteq Defined(blocks, p)

-----------------------------------------------------------------------------
(* What is known where the blocks start *)

\* What b knows, a does not exceed.
Less(a, b) == a.own \subseteq b.own /\ a.clean \subseteq b.own \cup b.clean

\* F: the locals given up before the body ends, and those it never declares.
Base(F) == IF fragment.backend = "llvm" THEN {} ELSE Locals \ F
Way(F)  == [base |-> Base(F), drop |-> Locals \ F]
Undeclared == declared + 1 .. MaxLocals
Allowed(F) == F \subseteq Locals /\ Lost \subseteq F
              /\ F \subseteq Lost \cup visible \cup Undeclared

\* What is known at the end of the current block.
Clean == IF Branchless(fragment) THEN inited ELSE visible \ Lost

\* What was known when a construct opened, of what is still so.
Start(f) == [own |-> f.scope \ f.moved, clean |-> f.scope \ Lost]
FrameKnown(f, know) ==
  /\ f.kind = "then" => Less(Start(f), know[f.target]) /\ know[f.exit] = Nowhere
  /\ f.kind = "else" => Less(Start(f), know[f.exit])
  /\ f.kind = "loop" =>
       /\ Less(Start(f), know[f.exit]) /\ Less(know[f.exit], Start(f))
       /\ Less(know[f.target], Start(f)) /\ know[f.entry].own \subseteq f.scope

Wired(bs, know, w) ==
  \A b \in DOMAIN bs : bs[b].term \in Jumps => Flows(bs[b], know[b], w, know)

Typed(bs, know) ==
  /\ know \in [DOMAIN bs -> Known]
  /\ 1 \in DOMAIN bs /\ know[1].own = {} /\ know[1].clean = {}
  /\ \A b \in DOMAIN bs : bs[b].clears \cap know[b].own = {}

\* The blocks so far keep every promise, whichever locals are given up later.
TypedSoFar(know) ==
  /\ Typed(blocks, know)
  /\ \A i \in DOMAIN frames : FrameKnown(frames[i], know)
  /\ \A F : Allowed(F) =>
       /\ Wired(blocks, know, Way(F))
       /\ Yields(blocks[cur], know[cur], Way(F), Readable, Clean \cup Base(F))

\* What a jump leaves of the blocks, in numbers.
JumpLeaves(new, n, t, xs, more) ==
  /\ new \in Seq(Blocks)
  /\ DOMAIN blocks = 1 .. n /\ n \in Nat /\ Len(more) \in Nat
  /\ DOMAIN new = 1 .. n + Len(more) /\ DOMAIN more = 1 .. Len(more)
  /\ \A b \in 1 .. n : /\ new[b].clears = blocks[b].clears
                       /\ new[b].ins = blocks[b].ins
                       /\ b # cur => /\ new[b].term = blocks[b].term
                                     /\ new[b].frees = blocks[b].frees
  /\ \A b \in 1 .. n + Len(more) : b \notin 1 .. n =>
       b - n \in 1 .. Len(more) /\ new[b] = more[b - n]
  /\ cur \in 1 .. n /\ new[cur].term = t /\ new[cur].frees = xs

\* What any jump does to the typing: where a block is pending, less may be
\* known; what is known elsewhere stays.
Retypes(know, know2, more) ==
  /\ know2 \in [DOMAIN blocks' -> Known] /\ know2[cur] = know[cur]
  /\ \A b \in DOMAIN blocks :
       /\ Less(know2[b], know[b])
       /\ blocks[b].term \in Jumps => know2[b] = know[b]
  /\ \A j \in DOMAIN more : more[j].clears = {}
  /\ visible' \subseteq visible /\ Lost' = Lost
  /\ \A i \in DOMAIN frames' : FrameKnown(frames[i], know2)'
Rewires(know, know2, more) ==
  \A F : Allowed(F) =>
    /\ Flows(blocks'[cur], know[cur], Way(F), know2)
    /\ \A j \in DOMAIN more : more[j].term \in Jumps =>
         Flows(more[j], know2[Len(blocks) + j], Way(F), know2)
    /\ Yields(blocks'[cur'], know2[cur'], Way(F), Readable', Clean' \cup Base(F))

\* The jump of a block that ends.
Onward(t, xs, know2, F) ==
  /\ t.kind # "return" /\ xs \subseteq Readable \cup Clean \cup Base(F)
  /\ \A k2 \in {know2[t.then], know2[t.else]} :
       k2.own \subseteq Readable \ xs /\ k2.clean \subseteq Readable \cup Clean \cup Base(F)

\* Where the blocks of a construct that opens jump to: blocks of its own,
\* only a while's header before the body is written.
JumpsInto(n, more, f, t) ==
  /\ t.kind # "return" /\ {t.then, t.else} \subseteq n + 1 .. n + Len(more)
  /\ f.kind = "then" => f.exit \notin {t.then, t.else}
Fresh(n, t, more, f) ==
  /\ JumpsInto(n, more, f, t)
  /\ \A j \in DOMAIN more : more[j].term \in Jumps =>
       f.kind = "loop" /\ JumpsInto(n, more, f, more[j].term)

\* What is known of the blocks of a construct that opens.
Entering(know, here, f) ==
  [b \in DOMAIN blocks' |->
     IF b \in DOMAIN blocks THEN know[b]
     ELSE IF f.kind = "then" /\ b = f.exit THEN Nowhere ELSE here]

\* The locals that the finished body has given up, or never declared.
Given == Lost \cup Undeclared
Settled(know) == Typed(blocks, know) /\ Wired(blocks, know, Way(Given))

-----------------------------------------------------------------------------
(* Drop elaboration *)

Owners == [rooted: SUBSET Locals, tainted: SUBSET Locals]

\* What a place in the blocks has behind it: the locals given up there.
Gave(bs, b, i) ==
  {x \in Locals : \E c \in DOMAIN bs : \E j \in DOMAIN bs[c].ins :
                    (c < b \/ (c = b /\ j < i))
                    /\ bs[c].ins[j].op \in Losing /\ bs[c].ins[j].from = x}

\* What the pass over the blocks knows: what was given up is tainted, and
\* what was defined is rooted, or tainted for good.
Scan(s, given, defined, n) ==
  /\ s \in Owners /\ s.rooted \cap s.tainted = {} /\ s.rooted \subseteq 1 .. n
  /\ given \subseteq s.tainted /\ defined \subseteq s.rooted \cup s.tainted

-----------------------------------------------------------------------------
(* The run *)

\* Nothing has run yet.
Blank == [env |-> [x \in Locals |-> Unset], heap |-> [o \in Objects |-> "unborn"],
           kept |-> {}, result |-> Nil, fault |-> "none"]

\* What insert_drops may free at a Return.
DropsOwn ==
  /\ drops \subseteq (1 .. declared) \ Lost
  /\ \A b \in DOMAIN blocks : blocks[b].term.value \notin drops

\* The memory at the start of the next block is what the block counts on.
Running(know) == Settled(know) /\ Sat(mem, know[at], Way(Given))
Ended ==
  /\ mem.fault = "none" /\ \A o \in mem.kept : mem.heap[o] = "live"
  /\ mem.result # Nil => mem.result \in Objects /\ mem.heap[mem.result] = "live"

Owning ==
  /\ Shape /\ Scoped /\ Ordered
  /\ phase \in {"lower", "elaborate"} => at = 1 /\ mem = Blank /\ drops = {}
  /\ phase = "lower" => \E know : TypedSoFar(know)
  /\ phase = "elaborate" => \E know : Settled(know)
  /\ phase \in {"run", "done"} => DropsOwn
  /\ phase = "run" => \E know : Running(know)
  /\ phase = "done" => Ended

ReturnedTo(n, m, v, r) == n = [m EXCEPT !.result = v, !.fault = r]

-----------------------------------------------------------------------------
(* Nothing is left behind *)

\* Every live object is held by another owner or by a local of S.
Held(m, S) == \A o \in Objects : m.heap[o] = "live" =>
                o \in m.kept \/ \E x \in S : m.env[x] = o
Snug(m, S) == m \in Memory /\ (m.fault = "none" => Held(m, S))

\* From where S holds everything the instructions is lead to where T does.
Carries(is, S, T) == \A f : Snug(f[0], S) /\ Steps(f, is) => Snug(f[Len(is)], T)

\* What a statement writes, where code can be reached.
Statements ==
  /\ open
  /\ \/ Lets \/ \E y \in Movable : LetsFrom(y)
     \/ \E x \in Settable : (Sets(x) /\ frames' = frames) \/ \E y \in Movable : SetsFrom(x, y)
     \/ \E how \in GivingOps : \E x \in Movable : Gives(x, how)
Starts  == \E n \in {Len(blocks)} : Ifs(n) \/ Whiles(n) \/ Loops(n)
Breaks  == InLoop /\ \E b \in {Innermost.exit, Innermost.target} :
                       Leaves(Goto(b), Innermost.locals)
Returns == open /\ ~open' /\ \E x \in Readable \cup {0} : Leaves(Return(x), {})
Finishes ==
  /\ frames = <<>> /\ phase' = "elaborate"
  /\ \E x \in Readable \cup {0} : (~open => x = 0) /\ Jumped(Return(x), {}, <<>>)
  /\ UNCHANGED <<cur, frames, visible, moved, open>>

\* The locals the lowerer counts on to hold an object of the program's.
Holders == inited \ moved

-----------------------------------------------------------------------------
(* What drop elaboration keeps of a block without branches *)

\* The locals own are rooted, and only lost ones tainted.
Fits(s, own, lost) == s \in Owners /\ own \subseteq s.rooted /\ s.tainted \subseteq lost
Follows(f, is) == \A i \in 1 .. Len(is) : f[i] = Track(f[i - 1], is[i])
Tracks(is, own, lost, own2, lost2) ==
  \A f : Fits(f[0], own, lost) /\ Follows(f, is) => Fits(f[Len(is)], own2, lost2)

TakingOps == {"assign", "move", "spawn"}

\* Nothing branches so far.
Flat == \A b \in DOMAIN blocks : blocks[b].term.kind \in {"return", "unreachable"}

\* A body without branches is one block, and a dead one behind a return.
Level ==
  /\ frames = <<>> /\ visible = 1 .. declared /\ visible \ moved \subseteq inited
  /\ Len(blocks) \in {1, 2} /\ blocks[1].clears = {} /\ blocks[1].frees = {}
  /\ phase = "lower" => cur = Len(blocks) /\ (open => cur = 1)
  /\ Len(blocks) = 2 => /\ ~open /\ blocks[2].ins = <<>> /\ blocks[2].clears = {}
                        /\ blocks[2].frees = {} /\ blocks[2].term.value = 0
  /\ Carries(blocks[1].ins, {}, Holders)
  /\ "revive" \notin fragment.outside =>
       /\ Tracks(blocks[1].ins, {}, {}, Holders, moved)
       /\ \A j \in DOMAIN blocks[1].ins :
            blocks[1].ins[j].op \in TakingOps => blocks[1].ins[j].from \in moved
Even == Flat => Level

-----------------------------------------------------------------------------
(* What drop elaboration frees *)

\* Every local is defined somewhere.
AllDefined == 1 .. declared \subseteq Defined(blocks, Len(blocks))

\* In the pass over the blocks only locals of E are given up, and what was
\* defined is rooted, but for those.
Roots(s, defined, E) ==
  s \in Owners /\ s.tainted \subseteq E /\ defined \subseteq s.rooted \cup E

\* The edges of b, and what its instructions do but allocate and free, touch
\* only locals of E.
Confined(b, E) ==
  /\ b.clears \cup b.frees \subseteq E
  /\ \A j \in DOMAIN b.ins :
       b.ins[j].op \notin {"alloc", "free"} => {b.ins[j].from, b.ins[j].to} \subseteq E

-----------------------------------------------------------------------------
(* Bodies in which no object changes hands *)

\* Nothing but allocations and reassignments, and no local of a loop.
Neat ==
  /\ \A b \in DOMAIN blocks :
       /\ blocks[b].frees = {}
       /\ \A j \in DOMAIN blocks[b].ins : blocks[b].ins[j].op \in {"alloc", "free"}
  /\ \A i \in DOMAIN frames : frames[i].kind = "loop" => frames[i].locals = {}

\* Block b leaves the objects with the locals that the next one counts on.
Closed(count, b) ==
  IF blocks[b].term.kind = "return"
  THEN Carries(blocks[b].ins, 1 .. count[b], 1 .. declared)
  ELSE \A c \in {blocks[b].term.then, blocks[b].term.else} :
         Carries(blocks[b].ins, 1 .. count[b], 1 .. count[c])

\* Where block b starts, only the locals 1 .. count[b] hold objects.
Counted(count) ==
  /\ count \in [DOMAIN blocks -> 0 .. declared] /\ count[1] = 0
  /\ inited = 1 .. declared
  /\ \A b \in DOMAIN blocks : blocks[b].clears = {}
  /\ \A i \in DOMAIN frames :
       /\ \A c \in Pending(frames[i]) : count[c] = declared /\ c # 1
       /\ frames[i].kind = "loop" => count[frames[i].target] = declared
  /\ \A b \in DOMAIN blocks : blocks[b].term # Unreachable => Closed(count, b)
  /\ phase = "lower" => Carries(blocks[cur].ins, 1 .. count[cur], 1 .. declared)

\* A block that a jump may lead to: all locals declared so far may hold objects.
Full(count, b) == b \in DOMAIN blocks' /\ (b \in DOMAIN blocks => count[b] = declared)

\* What a jump keeps of the blocks, and that what it adds is empty.
JumpKeeps(t, more) ==
  /\ phase = "lower" /\ DOMAIN blocks \subseteq DOMAIN blocks' /\ cur \in DOMAIN blocks
  /\ blocks'[cur].term = t /\ blocks[cur].frees = {}
  /\ DOMAIN blocks' = 1 .. Len(blocks) + Len(more)
  /\ DOMAIN blocks = 1 .. Len(blocks) /\ Len(blocks) \in Nat /\ Len(more) \in Nat
  /\ \A b \in DOMAIN blocks :
       /\ blocks'[b].ins = blocks[b].ins /\ blocks'[b].clears = blocks[b].clears
       /\ b # cur => blocks'[b].term = blocks[b].term /\ blocks'[b].frees = blocks[b].frees
  /\ \A b \in DOMAIN blocks' \ DOMAIN blocks :
       \E j \in DOMAIN more : b = Len(blocks) + j /\ blocks'[b] = more[j]
  /\ declared' = declared /\ inited' = inited

Controls == Starts \/ Elses \/ EndsIf \/ EndsLoop \/ Breaks \/ Returns \/ Finishes

-----------------------------------------------------------------------------
(* No object is left *)

Tidy ==
  /\ AllDefined /\ Even
  /\ phase \in {"run", "done"} => drops = DropLocals
  /\ phase = "run" /\ Flat => at = 1 /\ mem = Blank
  /\ Neat => \E count : Counted(count) /\ (phase = "run" => Snug(mem, 1 .. count[at]))
  /\ NothingLeaks
=============================================================================

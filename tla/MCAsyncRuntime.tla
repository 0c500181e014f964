---------------------------- MODULE MCAsyncRuntime ----------------------------
(***************************************************************************)
(* Programs for AsyncRuntime.  Root is the future given to block_on, t1    *)
(* and t2 are futures it may spawn.                                        *)
(***************************************************************************)
EXTENDS AsyncRuntime

CONSTANTS t1, t2

Spawn(t) == [kind |-> "spawn", task |-> t]
Join(t) == [kind |-> "join", task |-> t]
Yield == [kind |-> "yield"]
Sleep(k) == [kind |-> "sleep", timer |-> k]
ReadFd(fd) == [kind |-> "read", fd |-> fd]
ReadTimeout(fd, k) == [kind |-> "readTimeout", fd |-> fd, timer |-> k]
Ext == [kind |-> "ext"]

\* A program: three bodies, the lowering of all of them, the open streams.
Program(root, b1, b2, lowering, streams) ==
  [body |-> [f \in {Root, t1, t2} |->
               CASE f = Root -> root [] f = t1 -> b1 [] f = t2 -> b2],
   lowering |-> [f \in {Root, t1, t2} |-> lowering],
   streams |-> streams]

\* Bodies of the spawned tasks.  Only t1 reads the stream: a registration
\* remembers one waker.
Bodies1 == { <<Yield>>, <<Yield, Yield>>, <<Sleep(1)>>, <<ReadFd(1), ReadFd(1)>>,
             <<ReadFd(1), Sleep(1)>>, <<Yield, Sleep(1)>> }
Bodies2 == { <<Yield>>, <<Sleep(2)>>, <<Yield, Sleep(2), Yield>> }

\* Bodies of the root: it spawns, and joins in either order; it may sleep,
\* or leave the spawning of t2 to t1.
Roots == { <<Spawn(t1), Spawn(t2), Join(t1), Join(t2)>>,
           <<Spawn(t2), Spawn(t1), Join(t1), Join(t2)>>,
           <<Spawn(t1), Sleep(3), Spawn(t2), Join(t2), Join(t1)>>,
           <<Spawn(t1), Spawn(t2), Yield, Sleep(3)>> }

Composed(roots, bodies1, bodies2) ==
  {Program(x, y, z, "loop", {1}) : x \in roots, y \in bodies1, z \in bodies2}

LinuxPrograms ==
  Composed(Roots, Bodies1, Bodies2) \union {
  \* a single sleep, as in fixtures 725 and 731
  Program(<<Sleep(1)>>, << >>, << >>, "linear", {}),
  \* chained awaits that never touch the reactor
  Program(<<Yield, Yield>>, << >>, << >>, "linear", {}),
  \* one await after another without leaving the poll
  Program(<<Sleep(1), Sleep(2)>>, << >>, << >>, "loop", {}),
  \* a read with a timeout that the root returns right after
  Program(<<Spawn(t1), Join(t1)>>, <<ReadTimeout(1, 1)>>, << >>, "loop", {1}),
  \* a task that spawns
  Program(<<Spawn(t1), Join(t1), Join(t2), Sleep(1)>>, <<Spawn(t2), Yield>>,
          <<Yield>>, "loop", {}) }

ThreadPrograms ==
  Composed(Roots, {<<Ext>>, <<Ext, Yield>>}, {<<Yield>>, <<Sleep(2), Ext>>})
  \union Composed({<<Spawn(t1), Spawn(t2), Ext>>,
                   <<Spawn(t1), Spawn(t2), Sleep(3), Ext, Join(t1)>>},
                  {<<Yield>>, <<ReadFd(1), Ext>>}, {<<Sleep(2)>>, <<Yield, Yield>>})
  \union { Program(<<Ext>>, << >>, << >>, "linear", {}) }

AllPrograms == LinuxPrograms \union ThreadPrograms

\* Programs that show where the code and its documentation part.
SleeperWithoutFds ==
  { Program(<<Spawn(t1), Join(t1)>>, <<Sleep(1)>>, << >>, "loop", {}) }
TaskOfTwoAwaits ==
  { [Program(<<Spawn(t1), Join(t1)>>, <<Yield, Yield>>, << >>, "loop", {})
       EXCEPT !.lowering[t1] = "linear"] }
TimedOutReader ==
  { Program(<<Spawn(t1), Join(t1), Sleep(2)>>, <<ReadTimeout(1, 1)>>, << >>,
            "loop", {1}) }

=============================================================================

# TLA+ models of concurrent parts of Erlang/OTP

This directory holds specifications of four parts of the run-time system and of
kernel in which the difficulty is concurrency, and which a test suite can hardly
exercise: **thread progress** (the grace periods on which all lock-free memory
management in erts rests), **code permissions** (who may load, trace or purge
code), **code indices** (how new code becomes visible without stopping the
schedulers) and **pg with its data publisher** (eventually consistent process
groups). Each is written from the source; where a comment or document says
something else than the code does, a run shows it.

The parts build on each other inside erts: a loader takes code permissions
(`CodePermission`), stages and commits code (`CodeIx`), and to commit it waits
for a grace period (`GraceService`), which thread progress provides
(`ThrProgress`; that it does is the theorem `Refinement`). `pg` is independent
of them.

## Layout

| module | models |
|---|---|
| `ThrProgress` | `erts/emulator/beam/erl_thr_progress.{c,h}` and its callers' loops |
| `ThrProgressInv` | the inductive invariants of `ThrProgress` |
| `GraceService` | abstract: what thread progress promises to its users |
| `ThrProgressRefine` | the refinement mapping `ThrProgress` -> `GraceService` |
| `ThrProgress{Type,Leader,Value,Pend,Grace,Block}Proofs` | TLAPS proofs, see below |
| `CodePermission` | permissions in `code_ix.c`, their use by loading, purging, GC, exit |
| `CodePermissionProofs` | TLAPS proofs about `CodePermission` |
| `CodeIx` | active and staging code index, code barriers, commit |
| `CodeIxProofs` | TLAPS proofs about `CodeIx` |
| `PgData` | pure operations on the data and the table of `pg.erl` |
| `Pg` | `pg.erl` and `data_publisher.erl` on several nodes |
| `MC...`, `*.cfg` | instances for TLC |

`PROJECT.json` maps definitions to source lines, and lists runs, mutants,
findings, hazards and theorems. Definitions called `Mutant` in a comment are not
part of the specifications: each is a plausible bug, and replaces the definition
after it when one asks whether a property can fail at all.

    tlc -config ThrProgress_grace.cfg MCThrProgress
    tlapm ThrProgressGraceProofs.tla

## Thread progress

**The code.** A global counter `current` is incremented by a *leader*, one of
the managed threads (schedulers, the aux thread, pollers), after every managed
thread has confirmed the next value or sleeps, and every *unmanaged* thread that
delayed progress has continued. `erts_thr_progress_later` returns a value; when
`erts_thr_progress_has_reached` says yes for it, every thread that was running
at the time of `later` has passed a point at which it held no reference to
shared structures. Threads can ask to be woken at a value, and a managed thread
can block all others.

**The model.** The variables carry the names of the C structures in their
comments; a step makes at most one access to memory that another thread may
write at that point, so every interleaving of the C code at that grain is a
behaviour. Accesses are sequentially consistent: the explicit barriers are taken
to do what their comments say. `pc[i]` says where managed thread `i` is:

* `update`, `leader_update` (takeover, check of the threads' values one by one,
  flip of the two reference counts, recheck, publication, wakeups, resignation):
  `Update*`, `TakeOver`, `Check*`, `Flip*`, `Recheck*`, `Advance`, `Publish`,
  `Relinquish*`;
* `prepare_wait` and `finalize_wait` with the loops of `scheduler_wait`, the aux
  thread and the pollers around them: `Prepare*`, `Wake`, `Finalize*`;
* `request_wakeup_managed/unmanaged` and `handle_wakeup_requests`, with the
  two-level bitmap and the four slots that are reused;
* `unmanaged_delay` / `unmanaged_continue`: `Delay*`, `Continue*`;
* `block`, `block_thread`, `block_count_inc/dec`, `unblock`.

`later` and `pend` describe the users: `later[t]` is the value thread `t` waits
for, and `pend[t]` (history) the threads that have not been quiescent since.
Values are `0 .. 4*Quarter-2`, with `VAL_WAITING` above them, so that the
comparison across the wrap is the code's (`Quarter` is 2^62 there).

**Properties.** `GracePeriod` is the promise above. `ConfirmedWindow`,
`LeaderUnique`: what the leader's check relies on. `WakeupIdsWritten`,
`ManagedWakeupKept`, `UnmanagedWakeupKept`, `NobodyForgotten`: wakeups are not
lost between a requester, the leader and threads that fall asleep.
`BlockExclusive`, `BlockerWakeupKept`, `BlockedWakeupKept`: blocking.
`RequestServed`, `BlockReturns`: liveness. `GraceServiceSpec`: refinement.

**Runs and bounds.** Two managed threads and up to one unmanaged one; `MaxVal`
bounds how far the leader goes, and `LaterBound` the values asked for, so that
each of them can be reached. A value from `later` is two ahead of one the thread
has confirmed, so that three increments are the least in which operations are
started before and after an increment and all of them are completed. They are
also what a wakeup needs, which the code registers for one value more. Each run
enables the features in question (`Sleepers`, `Delayers`, `Requesters`,
`Blockers`), since all of them together are out of reach:

* `grace`: sleeping, delaying and change of leadership together, with the
  inductive invariant `GraceInv` and the refinement. One of the managed threads
  sleeps: with both the run does not end in minutes;
* `control`: both managed threads sleep, so that an unmanaged thread that continues
  finds nobody active and wakes them, over two increments and without operations:
  `LeaderUnique` and the inductive invariant `SafeInv`;
* `wakeup`: requests of a managed and of an unmanaged thread. The slots start
  with the entries of `init_wakeup_request_array`; four values would be needed
  before a slot is used for a second request, and three are counted;
* `block`: two blockers that also sleep, with the inductive invariant
  (`BlockInv`). Of two threads that block over and over
  one can lose every time, so `BlockReturns` says that one of them returns;
* `live`: requests of a scheduler beside a poller (a deep sleeper) with both
  sleeping, no blocks (a thread that blocks over and over can keep another one
  from ever running);
* `stall`: the same with a thread that delays progress, see below.

Two threads leave one branch unreached, that in which `unblock` goes on to a
third thread; `BlockedAreWoken` below covers it.

**Fairness.** Weak fairness of each step of a thread that is inside a function,
and of going round the scheduler loop (strong for the call of `update` and for looking
at an operation, which a thread that runs again and again gets to): threads are
preempted by the operating system, not stopped, and no function of the module waits except on its event.
Sleeping is not forced to end; only a set event makes a thread go on.

**Proofs.** For every number of managed and unmanaged threads: `SafeControl`
(`SafeInv` is an invariant), `TypeCorrect`, `LeaderUniqueHolds`, and, as long as
the counter does not wrap (`NoWrap`), `GraceInvariant` (so is `GraceInv`),
`WindowHolds`, `GracePeriodHolds` and `Refinement` (at the wrap of the 64-bit counter
`has_reached` is true at once for what `later` returned, of no practical
consequence). The invariant `GracePeriod`
is far from inductive, as the leader checks threads one after the other while
they move. `ThrProgressInv` strengthens it to `SafeInv /\ GraceInv`:

1. `ControlInv`: where active threads and leaders can be;
2. `ValueInv`: an awake thread's value is `current` or `current + 1`, and what
   locals hold was true when read and is off by at most what the code allows;
3. `CheckInv`: threads the leader has passed stay asleep or at `current + 1`;
4. `CountInv`, `DelayInv`: a reference count is the number of threads that
   incremented it, and who delays uses the current index or the one waited for;
5. `PendInv`: why each waiting operation's value has not been reached.

`ThrProgressTypeProofs` proves the types, `...LeaderProofs` 1 and `LeaderUnique`,
`...ValueProofs` 2 and 3 (`QuietOrSpecial` separates the steps that touch none of
the variables concerned), `...PendProofs` 4 and 5 but for the sizes of the sets
counted, and `...GraceProofs` counts, puts the invariant together, maps each step
to a step of `GraceService` or a stutter, and states the results.

`...BlockProofs` proves, for every number of threads and without `NoWrap`,
`BlockInvariant` and from it `BlockIsExclusive`, `BlockerIsWoken` and
`BlockedAreWoken`. Their properties need each other's reasons: a blocker goes on
when it reads 0 from a counter, so `BlockInv` says that the counter is the number
of threads outside `OutPc`, that the `BLOCK` flag, the event and the "blocking"
bit belong to one thread (`BlockerInv`), and, because `unblock` skips threads
whose value is `WAITING`, that a thread in `block_thread` has a value
(`AwakeInv`). Most steps are `Calm`; the others are one lemma per kind:
decrementing, setting the event, incrementing, the blocker's own steps, and the
round of `unblock`, which `RoundStarts` and `RoundGoesOn` show to leave out nobody.

The proofs assume of the constants what `ThreadAssumption` and `ValueAssumption` say, which
TLC evaluates in every run.

## Code permissions

**The code.** `code_ix.c` keeps two permissions, *stage* and *modification*, each
with a lock, an owner and a queue. A process that finds one taken is suspended
in the queue; a release hands the permission to the first waiter that can take
it, by a flag in the process's external state set with compare-and-swap, unless
it exits or collects garbage, in which case it is passed over. Aux jobs wait in
the same queue. Loading takes both: stage, then modification, and gives stage
back when it gets only the first.

**The model.** A critical section of a permission's lock is one step. `Try`,
`TryMod`, `BackOut`, `Retry`, `Done`, `ReleaseStage` follow
`erts_try_seize_code_*` and `erts_release_code_*`; `Prepared`, `Complete`,
`Abort`, `Purged` the purger's calls of `purge_module/2`; `StartGc`, `EndGc`,
`Exit`, `Reject`, `Clear` what `erl_gc.c` and `erl_process.c` do with permissions
that were handed over; `Schedule`, `TryAux`, `DoneAux` the aux jobs that close a
NIF library (`erl_nif.c`). Left out: the exit of a loader that is suspended for its
commit, where `commit_code_ix` releases both permissions for it just the same
(`beam_bif_load.c:310`); and the branch of `purge_module/2` that releases stage
permission and raises `badarg`, which is taken only when the purger makes its calls
in another order than it does.

**Properties.** `Exclusive`, `HandedOver` (the code's own assertions),
`NotLeaked` and `NotForgotten` (no permission stays with the dead, no waiter
outside every queue), `NoCircularWait`, and under weak fairness of each actor
`Served` and `ServedAux`. Fairness is justified because actors are scheduled
processes or aux work which hold a permission for a bounded operation.
`BackOut` is what makes `NoCircularWait` hold for loaders.
Two ordinary processes, the purger and an aux job contend in
`code_perm_safety`; two garbage collections allow one rejection by each process.
Liveness is checked without the purger, because with it the code has the
circular wait of the finding below.

**Proofs.** For any number of processes and aux jobs, with or without a purger,
under `ActorAssumption`: `OneHolder`, `FlagMeansOwner`, `NoLeak`, `WaiterInQueue`
(the four safety properties above) and `CircleNeedsPurger`: two actors wait for
each other only while the purger keeps stage permission, so the circle found by
`code_perm_purge` is the only kind of two there is; `NoCircle` is the case without
a purger. None of them is inductive: that a flagged process owns the permission
depends on who can be in a queue, and that on what the process asked for and
where it is. `PermInv`, an invariant of `code_perm_safety`, has the three parts:

1. `QueueInv`: who is in a queue is there once, suspended, wants that permission
   and does not own it, and whoever waits is in one; a process in the queue for
   modification permission has no flag for stage;
2. `OwnerInv`: the recorded owner is who was told so, was flagged, or is an aux
   job scheduled again; who has released and not yet cleared the flag is not owner;
3. `CallerInv`: where a process can be with a flag set, with stage permission kept,
   or exiting.

`Released` turns the search along the queue into a statement about sets (who is
next, who has left the queue), from which `ReleaseQueue`, `ReleaseOwner` and
`ReleaseCaller` show that a release preserves the three parts; `MoveQueue`,
`MoveOwner` and `MoveCaller` do the same for steps that release nothing, and one
lemma per action reduces it to these. `NoCircularWait` follows because a waiter
owns a permission only if it was flagged with it or kept it for a purge, and a
process flagged with stage permission is not in the queue for the other one.

## Code indices

**The code.** Export, module and other tables exist three times. Schedulers read
the active index without any barrier. A loader writes the staging tables and
then lets every scheduler execute an instruction barrier, waits for thread
progress, and makes staging active; the old active set is staged only after
another load has gone through the same. With tracing in the way it blocks thread
progress instead, commits at once, and counts a *blocking code barrier* for which
threads that wake up issue an instruction barrier until thread progress has been
made.

**The model.** `mem[s]` is what scheduler `s` sees of the index and the tables:
any part may be old until a quiescent point, wakeup or unblocking (weak memory).
`use[s]` is the index a BIF or an instruction on `s` has read and goes on using.
`Commit` and `Dec` are two instances of `GraceService`, one for the operation
`commit_code_ix`, one for `decrement_blocking_code_barriers`: the composition of
code loading with what thread progress promises.

**Properties.** `StagingUnused`: nobody uses the tables being written, which is
what the third set is for. `UsesComplete`: a used set is seen in full.
`BarrierIssued`: the instruction barrier came before the use, with one exception,
which the history variable `missed` records: a scheduler that is asleep at the
very step that takes the count of blocking barriers to zero wakes up later and
issues none (`code_ix.c:644`), although the comment at `code_ix.h:298` speaks of
all managed threads. `missed[s]` holds the blocking loads for which this happened
to `s`; every other scheduler, and every other load, is held to the rule.
`DecScheduledOnce`: the one global record of the decrement operation is not queued
twice.

`LoadReturns`, `BarrierEnds`: liveness, under weak fairness of scheduling, of aux
work and of finishing a BIF. A scheduler may sleep while its own operation waits
for thread progress (`erl_process.c:2298`). It is woken for aux work and when the
value it asked for has been reached: that is `RequestServed` of `ThrProgress`,
which `CodeIx` takes as fairness of `Wake`. `ThrProgress` gives it without threads
that delay progress; with them there is the finding `stall`.

**Runs and bounds.** `code_ix_loads` has two schedulers that sleep and three loads
of either kind: with three sets of tables the third load writes the set that was
active at first, and two blocking barriers fall into one grace period. A scheduler
waits for the other one while it loads; more schedulers are left to the proofs,
which cover all the safety properties of the run.

**Proofs.** For any number of schedulers, loads and overlapping barriers, under
`CodeIxAssumption`: `NobodyUsesStaging`, `TablesSeenInFull`, `BarrierBeforeUse`
(with the exception of `missed`),
`DecrementScheduledOnce` and `CodeIxTypes`. That nobody uses the staging tables is
not inductive: when a commit makes the third set the staging one, the invariant has
to say why no scheduler still has its index. `IndInv`, an invariant of
`code_ix_loads`, has five parts:

1. `IndexInv`: a scheduler that is awake neither uses nor sees the staging set as
   the active one, and sees the other two sets in full;
2. `LoadInv`: the tables of the staging set are those of the load in progress, and
   the scheduler of the load sees what it wrote;
3. `CommitInv`: at most one commit waits, and every scheduler it no longer waits
   for has left the third set and sees all of the staging one;
4. `BarrierInv`: instruction barriers were issued for every set but the staging
   one, or were missed as above, or the scheduler, asleep or parked, will find the
   count of blocking barriers above zero when it goes on;
5. `DecInv`: the decrement operation is under way exactly while that count is
   positive.

The proof has, for each part, a lemma about the schedulers' steps and one about the
steps of a load (`DecInv` has one for all). The grace period is used only as
`GraceService` promises it; that thread progress keeps the promise is `Refinement`,
in a model of its own.

## Process groups

**The code.** Each node's scope process owns a table of groups; `data_publisher`
behind it keeps the node's own data, a copy of every peer's data, monitors
members and peers, and exchanges `discover`, `local_data` and `update` messages.

**The model.** `box[n][m]` holds what the scope process of `n` will receive because
of node `m`, in order; messages are lost when a connection is cut, after a prefix
has arrived. What the run-time system does for it is modelled by what its code
gives the scope process: references and DOWN signals (`bif.c`,
`erl_proc_sig_queue.c`), nodeup and the loss of a connection (`dist.c`). Members are bags, since a process may join several
times. `Join`, `Leave`, `Exit`, `Subscribe` are callers (with what they read from
the table before the call, with which some of them reach the process that was
started after a crash), `Start`, `Crash`, `Connect`, `Disconnect` the environment,
`Handle(n)` every clause of `handle_call` and `handle_info`. Automatic connection
by a cast or a monitor is covered by `Connect` taken before. `Budget` bounds each
kind of event: a behaviour follows one of several plans, which `MCPg` lists (repeated
joins, racing leaves and exits on one node; joins of both nodes and a leave; a lost
connection and its return; a crash and a restart, without and with a leave; an exit
seen by a peer), with two processes on one node and one on the other and two groups,
so that data go both ways and a group has local and remote members. The two
processes of one node, groups and subscribers are interchangeable. A list of
processes that join may be empty, as the code allows.

**Properties.** `ViewIsSum` (the table is the sum of the copies),
`MembersMonitored`, `PeersMonitored`, `Synchronised` (with nothing under way the
copies are equal), `SubscriberExact` (a subscriber that applies what it is told
knows the table), `Converges` under weak fairness of the scope processes, which
are ordinary processes that never wait for each other. `LegacyAgrees`: what an
update becomes for a peer of version 0 (leave and join messages, and updates
again) has the same effect as the update, for every update that is under way. No
node of version 0 takes part: its code is not in the repository. Version 1 sends
every other version its data as they are, so that the versions in the messages
have no effect.

Two things the code does and the properties do not exclude: two callers of
`leave` that both saw a process leave an empty group in the table (`pg.erl:484`;
`pg.erl:31` says that `which_groups` returns only groups with members); and a
reply to `discover` carries the version of the process that asked
(`data_publisher.erl:318`), which matters once there are two versions.

## Disagreements between code and comments

* `stall`: a requested wakeup can be left with all managed threads asleep.
* `code_perm_purge`: the purger and a loader wait for each other.

Each is quoted, with the lines, under `findings` in `PROJECT.json`.

## Only model-checked

Checked by TLC on the instances given and not proved:

* liveness, everywhere: fairness is out of the prover's reach;
* the wakeups of `ThrProgress` (`WakeupIdsWritten`, `ManagedWakeupKept`,
  `UnmanagedWakeupKept`): they need an inductive invariant of their own about the
  bitmaps and the slots that are reused, which this development does not have yet.
  `NobodyForgotten` does not hold for all values of the constants, see `stall`;
* `Pg`: the table is a sum of bags over sequences, defined by folds, for which the
  prover has no induction.

## Not modelled

Of the modelled parts: blocks of thread progress by unmanaged threads, nested
blocks and the fatal error block; debug and lock-checking code; the contents of
the code tables; on-load functions; scopes without distribution and
monitoring of one group (`pg`). Memory ordering is modelled for `CodeIx` only.

Other parts of the repository are listed in `PROJECT.json` with the reason. Most
of the repository is sequential library code, the compiler and generated code,
for which a state machine says little; the rest (ETS, ports, distribution,
`global`, mnesia) would each be a project of the size of this one.

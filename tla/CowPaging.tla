------------------------------ MODULE CowPaging ------------------------------
(***************************************************************************)
(* User memory of src/src/mem/paging.c: physical frames, page faults, the  *)
(* copy-on-write counts, fork (clone_crt_page_dir), exec and exit          *)
(* (release_user_space_pages of process.c), and destroy_process.           *)
(*                                                                         *)
(* Every process has one thread and one user page.  Page faults and system *)
(* calls run with interrupts enabled (isr_handler), so the processes       *)
(* interleave at every step below; a step touches shared state once (but   *)
(* for release_page, where the count, the frame and the entry follow one   *)
(* another: with the old count at 0 no other process knows the frame).     *)
(* phy_frames_map_lock and frame_cow_ref_counts_lock each protect a single *)
(* step and are not modelled apart.  page_dir_lock belongs to one process: *)
(* with one thread, only a fault inside a fault finds it taken.            *)
(*                                                                         *)
(* CR0.WP is never set (loader.S, enable_paging): a store of the kernel    *)
(* ignores the rw bit of a present page.                                   *)
(***************************************************************************)
EXTENDS Integers, FiniteSets, FiniteSetsExt

CONSTANTS
  Processes,     \* process slots; an exited process is not used again
  FirstProcess,  \* the process that runs initially
  NumFrames,     \* frames of physical memory left for processes
  KernelFrames,  \* frames of physical memory below them
  PAGE_SIZE,
  Values,        \* what a user page can hold
  Zero,          \* the page after clear_page
  MaxExecs,      \* bound on the calls of process_exec
  Tables         \* the content of a frame used for page tables

ASSUME CowAssumption ==
  /\ FirstProcess \in Processes
  /\ IsFiniteSet(Processes)
  /\ NumFrames \in Nat \ {0}
  /\ MaxExecs \in Nat
  /\ Zero \in Values
  /\ Tables \notin Values

\* The address of a frame is larger than the number of any frame: 3 MB are below them.
ASSUME AddressAssumption ==
  /\ KernelFrames \in Nat /\ PAGE_SIZE \in Nat \ {0}
  /\ KernelFrames * PAGE_SIZE > KernelFrames + NumFrames

\* Frame f is the bit KernelFrames + f of phy_frames_map.
Frames == 1..NumFrames
NoFrame == 0
NotPresent == [present |-> FALSE, rw |-> FALSE, frame |-> NoFrame]

VARIABLES
  phy_frames_map,        \* the frames that are allocated
  frame_cow_ref_counts,  \* 0 for a frame that is not in the table
  page_dir,              \* frame of the page directory of a process, also a destroyed one
  pde,                   \* frame of the page table of the user page
  pte,                   \* page table entry of the user page
  page_copy_lock,        \* held
  copy_page,             \* frame mapped at COPIED_PAGE_VADDR, in every process
  memory,                \* content of a frame
  new_frame,             \* local of map_page_with_frame_impl
  child,                 \* the process its fork is making; itself, for none
  execs,                 \* history: calls of process_exec so far
  pc

frameVars == <<phy_frames_map, frame_cow_ref_counts>>
tableVars == <<page_dir, pde, pte>>
copyVars == <<page_copy_lock, copy_page, new_frame>>
vars == <<frameVars, tableVars, copyVars, memory, child, execs, pc>>

Goto(p, from, to) ==
  /\ pc[p] = from
  /\ pc' = [pc EXCEPT ![p] = to]

\* bitmap_allocate_first_free finds nothing.
Exhausted == phy_frames_map = Frames

\* The frame allocate_phy_frame returns, and its effect.
FirstFree == Min(Frames \ phy_frames_map)
allocate_phy_frame ==
  /\ ~Exhausted
  /\ phy_frames_map' = phy_frames_map \cup {FirstFree}

release_phy_frame(frame) == phy_frames_map' = phy_frames_map \ {frame}

\* page_dir_entries_phy, the address of a frame.
Address(frame) == (KernelFrames + frame) * PAGE_SIZE

\* The old count decides what the caller does: it is read before the step.  An
\* entry is kept only while it is positive.
change_cow_frame_refcount(frame, delta) ==
  frame_cow_ref_counts' =
    [frame_cow_ref_counts EXCEPT ![frame] = IF @ + delta > 0 THEN @ + delta ELSE 0]

-----------------------------------------------------------------------------
\* A user program stores to its page.
UserStore(p, v) ==
  /\ pc[p] = "user"
  /\ pte[p].present /\ pte[p].rw
  /\ memory' = [memory EXCEPT ![pte[p].frame] = v]
  /\ UNCHANGED <<frameVars, tableVars, copyVars, child, execs, pc>>

\* The kernel stores into a buffer of the user program, as process_wait does with
\* the exit status.
KernelStore(p, v) ==
  /\ pc[p] = "user"
  /\ pte[p].present
  /\ memory' = [memory EXCEPT ![pte[p].frame] = v]
  /\ UNCHANGED <<frameVars, tableVars, copyVars, child, execs, pc>>

\* page_fault_handler and map_page_with_frame_impl.  The access that faults is
\* repeated when they return: the process is in user mode again, where it can store.
\* First the page table, if it is missing,
MapTable(p) ==
  /\ pde[p] = NoFrame
  /\ Goto(p, "user", "map_page")
  /\ allocate_phy_frame
  /\ pde' = [pde EXCEPT ![p] = FirstFree]
  /\ memory' = [memory EXCEPT ![FirstFree] = Tables]
  /\ UNCHANGED <<frame_cow_ref_counts, page_dir, pte, copyVars, child, execs>>

\* then a cleared frame for a page that is not present,
MapNewPage(p) ==
  /\ Goto(p, "map_page", "user")
  /\ allocate_phy_frame
  /\ pte' = [pte EXCEPT ![p] =
               [present |-> TRUE, rw |-> TRUE, frame |-> FirstFree]]
  /\ memory' = [memory EXCEPT ![FirstFree] = Zero]
  /\ UNCHANGED <<frame_cow_ref_counts, page_dir, pde, copyVars, child, execs>>

\* and for a read-only page the copy on write: the count comes first, and says
\* whether the frame is still shared.
CowFault(p) ==
  /\ pte[p].present /\ ~pte[p].rw
  /\ change_cow_frame_refcount(pte[p].frame, -1)
  /\ \/ /\ frame_cow_ref_counts[pte[p].frame] > 0
        /\ Goto(p, "user", "copy_alloc")
        /\ UNCHANGED pte
     \/ /\ frame_cow_ref_counts[pte[p].frame] <= 0
        /\ Goto(p, "user", "user")
        /\ pte' = [pte EXCEPT ![p].rw = TRUE]
  /\ UNCHANGED <<phy_frames_map, page_dir, pde, copyVars, memory, child, execs>>

CopyAllocates(p) ==
  /\ Goto(p, "copy_alloc", "copy_lock")
  /\ allocate_phy_frame
  /\ new_frame' = [new_frame EXCEPT ![p] = FirstFree]
  /\ UNCHANGED <<frame_cow_ref_counts, tableVars, page_copy_lock, copy_page,
                 memory, child, execs>>

\* page_copy_lock is taken and the window of all processes maps the new frame.
CopyLocks(p) ==
  /\ Goto(p, "copy_lock", "copying")
  /\ ~page_copy_lock
  /\ page_copy_lock' = TRUE
  /\ copy_page' = new_frame[p]
  /\ UNCHANGED <<frameVars, tableVars, new_frame, memory, child, execs>>

\* (source and destination of memcpy swapped)
CopiesBackwards(p) ==
  /\ copy_page # NoFrame
  /\ Goto(p, "copying", "copy_release")
  /\ memory' = [memory EXCEPT ![pte[p].frame] = memory[copy_page]]
  /\ page_copy_lock' = FALSE
  /\ pte' = [pte EXCEPT ![p] =
               [present |-> TRUE, rw |-> TRUE, frame |-> new_frame[p]]]
  /\ new_frame' = [new_frame EXCEPT ![p] = NoFrame]
  /\ UNCHANGED <<frameVars, page_dir, pde, copy_page, child, execs>>

\* memcpy from the faulting page to the window; page_copy_lock is released and the
\* page mapped to the new frame,
Copies(p) ==
  /\ copy_page # NoFrame
  /\ Goto(p, "copying", "copy_release")
  /\ memory' = [memory EXCEPT ![copy_page] = memory[pte[p].frame]]
  /\ page_copy_lock' = FALSE
  /\ pte' = [pte EXCEPT ![p] =
               [present |-> TRUE, rw |-> TRUE, frame |-> new_frame[p]]]
  /\ new_frame' = [new_frame EXCEPT ![p] = NoFrame]
  /\ UNCHANGED <<frameVars, page_dir, pde, copy_page, child, execs>>

\* or, when the window is gone, a fault inside the fault: map_page waits for
\* page_dir_lock, which this thread holds, and never gets it.
CopyFaults(p) ==
  /\ copy_page = NoFrame
  /\ Goto(p, "copying", "nested_fault")
  /\ UNCHANGED <<frameVars, tableVars, copyVars, memory, child, execs>>

\* and the window is unmapped, whoever uses it now.
CopyReleasesWindow(p) ==
  /\ Goto(p, "copy_release", "user")
  /\ copy_page' = NoFrame
  /\ UNCHANGED <<frameVars, tableVars, page_copy_lock, new_frame, memory, child, execs>>

map_page_with_frame_impl(p) ==
  \/ MapTable(p) \/ MapNewPage(p) \/ CowFault(p)
  \/ CopyAllocates(p) \/ CopyLocks(p) \/ Copies(p) \/ CopyFaults(p)
  \/ CopyReleasesWindow(p)

-----------------------------------------------------------------------------
\* A process slot that a fork can take.
Free(c) == pc[c] = "unborn" /\ \A q \in Processes \ {c} : child[q] # c

\* clone_crt_page_dir on the way from process_fork: a frame for the directory,
CloneDirectory(p, c) ==
  /\ Free(c)
  /\ Goto(p, "user", "clone_table")
  /\ allocate_phy_frame
  /\ child' = [child EXCEPT ![p] = c]
  /\ page_dir' = [page_dir EXCEPT ![c] = FirstFree]
  /\ memory' = [memory EXCEPT ![FirstFree] = Tables]
  /\ UNCHANGED <<frame_cow_ref_counts, pde, pte, copyVars, execs>>

\* The end of the fork: the child can be scheduled.
CloneEnds(p, place) ==
  /\ pc[p] = place
  /\ pc' = [pc EXCEPT ![p] = "user", ![child[p]] = "user"]
  /\ child' = [child EXCEPT ![p] = p]

\* (only the entry of the child becomes read-only)
CloneTableKeepsWritable(p) ==
  /\ pde[p] # NoFrame
  /\ Goto(p, "clone_table", "clone_count")
  /\ allocate_phy_frame
  /\ pde' = [pde EXCEPT ![child[p]] = FirstFree]
  /\ memory' = [memory EXCEPT ![FirstFree] = Tables]
  /\ pte' = [pte EXCEPT ![child[p]] = [pte[p] EXCEPT !.rw = FALSE]]
  /\ UNCHANGED <<frame_cow_ref_counts, page_dir, copyVars, child, execs>>

\* a frame for the page table and a copy of it, both entries read-only,
CloneTable(p) ==
  /\ pde[p] # NoFrame
  /\ Goto(p, "clone_table", "clone_count")
  /\ allocate_phy_frame
  /\ pde' = [pde EXCEPT ![child[p]] = FirstFree]
  /\ memory' = [memory EXCEPT ![FirstFree] = Tables]
  /\ pte' = [q \in Processes |->
               IF q \in {p, child[p]} THEN [pte[p] EXCEPT !.rw = FALSE] ELSE pte[q]]
  /\ UNCHANGED <<frame_cow_ref_counts, page_dir, copyVars, child, execs>>

\* (the new sharer is not counted)
CloneCountsNot(p) ==
  /\ CloneEnds(p, "clone_count")
  /\ UNCHANGED <<frameVars, tableVars, copyVars, memory, execs>>

\* the count of the frame (a process with the page table has the page),
CloneCounts(p) ==
  /\ CloneEnds(p, "clone_count")
  /\ change_cow_frame_refcount(pte[p].frame, 1)
  /\ UNCHANGED <<phy_frames_map, tableVars, copyVars, memory, execs>>

\* or nothing to copy.
CloneNoTable(p) ==
  /\ pde[p] = NoFrame
  /\ CloneEnds(p, "clone_table")
  /\ UNCHANGED <<frameVars, tableVars, copyVars, memory, execs>>

clone_crt_page_dir(p) == CloneTable(p) \/ CloneNoTable(p) \/ CloneCounts(p)

-----------------------------------------------------------------------------
\* (off by one: the frame is freed although one process still maps it)
release_page_off_by_one(p) ==
  /\ change_cow_frame_refcount(pte[p].frame, -1)
  /\ \/ frame_cow_ref_counts[pte[p].frame] > 1 /\ UNCHANGED phy_frames_map
     \/ /\ frame_cow_ref_counts[pte[p].frame] <= 1
        /\ release_phy_frame(pte[p].frame)
  /\ pte' = [pte EXCEPT ![p] = NotPresent]

\* release_page of a present page, with free_frame set.
release_page(p) ==
  /\ change_cow_frame_refcount(pte[p].frame, -1)
  /\ \/ frame_cow_ref_counts[pte[p].frame] > 0 /\ UNCHANGED phy_frames_map
     \/ /\ frame_cow_ref_counts[pte[p].frame] <= 0
        /\ release_phy_frame(pte[p].frame)
  /\ pte' = [pte EXCEPT ![p] = NotPresent]

\* release_user_space_pages, on the way of process_exec ("exec") or process_exit:
\* release_pages, which skips what is not present,
ReleasePages(p, why) ==
  /\ Goto(p, "user", why)
  /\ \/ pte[p].present /\ release_page(p)
     \/ ~pte[p].present /\ UNCHANGED <<frameVars, pte>>
  /\ UNCHANGED <<page_dir, pde, copyVars, memory, child>>

\* and release_pages_tables.
ReleaseTables(p, why, next) ==
  /\ Goto(p, why, next)
  /\ \/ /\ pde[p] # NoFrame
        /\ release_phy_frame(pde[p])
        /\ pde' = [pde EXCEPT ![p] = NoFrame]
     \/ /\ pde[p] = NoFrame
        /\ UNCHANGED <<phy_frames_map, pde>>
  /\ UNCHANGED <<frame_cow_ref_counts, page_dir, pte, copyVars, memory, child, execs>>

release_user_space_pages(p) ==
  \/ ReleasePages(p, "exec") /\ execs < MaxExecs /\ execs' = execs + 1
  \/ ReleasePages(p, "exit") /\ UNCHANGED execs
  \/ ReleaseTables(p, "exec", "user")
  \/ ReleaseTables(p, "exit", "exited")

\* destroy_process, in the clean thread.  release_phy_frame takes the number of a frame
\* and is given an address: the bit it clears lies behind the bitmap, in kernel memory
\* that is not modelled, and the one of the directory stays set.
destroy_process(p) ==
  /\ Goto(p, "exited", "destroyed")
  /\ release_phy_frame(Address(page_dir[p]) - KernelFrames)
  /\ UNCHANGED <<frame_cow_ref_counts, tableVars, copyVars, memory, child, execs>>

-----------------------------------------------------------------------------
\* The process is at a call of allocate_phy_frame, or can get there with a fault or
\* a fork.
AtAllocation(p) ==
  \/ pc[p] \in {"map_page", "copy_alloc"}
  \/ pc[p] = "clone_table" /\ pde[p] # NoFrame
  \/ pc[p] = "user" /\ (pde[p] = NoFrame \/ \E c \in Processes : Free(c))

\* There is no free frame: all callers of allocate_phy_frame panic.
AllocationFails(p) ==
  /\ Exhausted
  /\ AtAllocation(p)
  /\ pc' = [pc EXCEPT ![p] = IF @ = "copy_alloc" THEN "copy_panic" ELSE "panic"]
  /\ UNCHANGED <<frameVars, tableVars, copyVars, memory, child, execs>>

Init ==
  /\ phy_frames_map = {1}
  /\ frame_cow_ref_counts = [f \in Frames |-> 0]
  /\ page_dir = [p \in Processes |-> IF p = FirstProcess THEN 1 ELSE NoFrame]
  /\ pde = [p \in Processes |-> NoFrame]
  /\ pte = [p \in Processes |-> NotPresent]
  /\ page_copy_lock = FALSE
  /\ copy_page = NoFrame
  /\ memory = [f \in Frames |-> IF f = 1 THEN Tables ELSE Zero]
  /\ new_frame = [p \in Processes |-> NoFrame]
  /\ execs = 0
  /\ child = [p \in Processes |-> p]
  /\ pc = [p \in Processes |-> IF p = FirstProcess THEN "user" ELSE "unborn"]

Step(p) ==
  \/ \E v \in Values : UserStore(p, v) \/ KernelStore(p, v)
  \/ map_page_with_frame_impl(p)
  \/ \E c \in Processes : CloneDirectory(p, c)
  \/ clone_crt_page_dir(p)
  \/ release_user_space_pages(p)
  \/ destroy_process(p)
  \/ AllocationFails(p)

Next ==
  /\ \A q \in Processes : pc[q] \notin {"panic", "copy_panic"}
  /\ \E p \in Processes : Step(p)

Spec == Init /\ [][Next]_vars

-----------------------------------------------------------------------------
\* A process between the count of its copy-on-write fault and the new mapping: its
\* entry still names the shared frame, which is no longer counted for it.
Copying(p) ==
  pc[p] \in {"copy_alloc", "copy_panic", "copy_lock", "copying",
             "nested_fault"}

\* The processes that map a frame and are counted for it.
Sharers(f) ==
  {p \in Processes : pte[p].present /\ pte[p].frame = f /\ ~Copying(p)
                       /\ pc[p] # "unborn"}

\* change_cow_frame_refcount is called once for each sharer a frame gains or loses,
\* in any interleaving of forks, faults and exits: the count of a frame is one less
\* than the number of its sharers.
CountIsOtherSharers ==
  \A f \in Frames :
    frame_cow_ref_counts[f] =
      IF Sharers(f) = {} THEN 0 ELSE Cardinality(Sharers(f)) - 1

\* A page is writable only when no other process shares its frame: fork takes the
\* right away from both, a fault gives it back to the last sharer or to a copy.
WriterIsAlone ==
  \A p \in Processes : pte[p].rw => Sharers(pte[p].frame) = {p}

\* The processes whose page directory is still there, and the directories of the others.
HasDirectory(p) == page_dir[p] # NoFrame /\ pc[p] # "destroyed"
LeftDirectories == {page_dir[p] : p \in {q \in Processes : pc[q] = "destroyed"}}

\* The frames that are in use for one purpose or another, with that purpose.
Uses ==
  {<<page_dir[p], "directory", p>> : p \in {q \in Processes : HasDirectory(q)}}
    \cup {<<pde[p], "table", p>> : p \in {q \in Processes : pde[q] # NoFrame}}
    \cup {<<new_frame[p], "copy", p>> : p \in {q \in Processes : new_frame[q] # NoFrame}}
    \cup {<<f, "page", FirstProcess>> : f \in {g \in Frames : Sharers(g) # {}}}

\* No frame is in use twice, or in use and not allocated, whatever is shared, copied and
\* released meanwhile.  What is allocated and in use for nothing are the directories of
\* destroyed processes, all of them and nothing else: contrary to its comment ("Release
\* page directory frame") destroy_process loses one frame for each process.
FramesAccounted ==
  /\ LeftDirectories \subseteq phy_frames_map
  /\ {u[1] : u \in Uses} = phy_frames_map \ LeftDirectories
  /\ Cardinality(Uses) = Cardinality(phy_frames_map \ LeftDirectories)

\* The content of a frame changes under a sharer, outside its own copy-on-write
\* fault, only by its own stores and by those of the kernel, whatever the other
\* processes fault on, copy, clear, free and allocate.
OthersCannotWrite ==
  [][\A f \in Frames : \A p \in Sharers(f) \cap Sharers(f)' :
       memory'[f] # memory[f] =>
         \E v \in Values :
           UserStore(p, v) \/ \E q \in Processes : KernelStore(q, v)]_vars

\* "copy the content of this page to a new frame; re-map fault page to the new
\* frame; decrease ref count of shared frame": the frame stays shared until it has
\* been copied, so that in the meantime it is not freed and nobody can write to it.
SharedUntilCopied ==
  \A p \in Processes : Copying(p) =>
    /\ pte[p].frame \in phy_frames_map
    /\ \A q \in Processes : pte[q].rw => pte[q].frame # pte[p].frame

==============================================================================

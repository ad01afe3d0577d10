# Verification of lucix64

TLA+ specifications of the lucix64 kernel, written from its C and assembly
source, model-checked with TLC and, for the page and slab allocators, the vmap
zones and the page tables behind them, the address space of a program, the
scheduler and the console, proved with TLAPS.
`PROJECT.json` gives for each definition the lines it models, for each run its
properties, and the list of hazards with the properties that cover them.

## The system

lucix64 is a small single-CPU x86-64 kernel. It boots, sets up memory, caches,
devices and a RAM file system, makes one task, unpacks an archive into ramfs
and turns the task into a user program with `execve`.

| part | state | operations | what is hard about it |
|---|---|---|---|
| page allocator, `mm/page_alloc.c` | zones, free lists through `struct page`, a bit per buddy pair, `available_pages` | `mem_init`, `alloc_pages`, `free_pages`, `page_ref`/`page_unref` | splits and merges in any order; list calls with head and entry swapped; index arithmetic |
| slab allocator, `kernel/slab.c` | caches, slabs on three lists, a free list per slab | cache creation, allocate, free, `kmalloc`, `kfree` | free lists after long histories; nested allocation of descriptors |
| lists, `list.h` | `next`/`prev` pointers | add, delete, walk | an entry used after its deletion |
| scheduler and switches, `kernel/sched.c`, `arch_sched.c`, `jmp_user.s`, `interrupt.c` | run queue, `current`, saved stack pointers, page table, interrupt stack, interrupt flag | boot, `schedule` from the timer, task creation, `execve`, system calls | a timer interrupt between any two steps; starvation |
| vmap zones, `kernel/vm.c` | sorted list of zones | `get_vm_zone`, `remove_vm_zone` | gaps after removals; `size + PAGE_SIZE` wraps |
| address spaces, `mm/mmap.c`, `mm/vma.c`, `mm/page_fault.c`, `arch/x86_64/vma.c` | list of areas, page table, page and file references | `do_mmap`, join, page fault | overlapping requests; joins; copy on write |
| page tables, `arch/x86_64/paging.c`, `ioremap.c` | four levels of tables, copied at the top for each task | `paging_init`, `map_contiguous`, `ioremap`, `cpu_mm_create_page_table` | loops over four levels, large pages, tables made after a copy was taken |
| interrupt entry, `idt_table.s`, `interrupt.c`, `page_fault.c` | the kernel stack and the registers | a stub per vector, handlers, system call dispatch | error codes, faults within handlers |
| file system, `fs/*.c` | name cache, inode cache, open files | lookup, open, close, create, mkdir | stale names, reference counts on error paths |
| ramfs and file I/O, `fs/ramfs/ramfs.c`, `fs/read_write.c` | page array and size of an inode | read, write, fault | page boundaries, end of file, growth of the array |
| system calls and descriptors, `fs/fd_table.c`, `fs/sys_*.c`, `kernel/user.c` | descriptor table | open, write, copies from user space | growth, partly mapped buffers |
| program loading, `init/*.c`, `fs/binfmt_elf.c` | the place in the archive | unpack the archive, check and map the program, start user code | data that looks like headers; segments that overlap or touch |
| console and formatted output, `efi_fb_console.c`, `kernel/console.c`, `kernel/printk.c` | cursor, text buffer, screen | `printf`, `console_putchar`, scrolling | wrap and scroll at once; flags, width and precision together |
| platform setup, drivers' registries | | one-time setup | little state; not modelled |

The slab allocator takes its blocks from the page allocator; areas, tasks and
inodes are slab objects; the timer interrupts everything that runs with
interrupts on; the loader builds an address space out of file pages, which page
faults then map. `kinit_task` unpacks the archive through the file system, opens
the console and executes the first program, which comes back through system
calls.

## Modules

| module | models | notes |
|---|---|---|
| `Slab` (`MCSlab`, `SlabSchedConsoleProof`) | `kernel/slab.c` | A slab list is a set, since which member is taken is immaterial. `link` is the index array of a slab. A nested call (descriptor of an off-slab slab, object of a new cache) is an open `call`; only the callee steps meanwhile, because no interrupt handler allocates. |
| `ListHead` | `list.h` | Lists as functions `next` and `prev`, for modules whose code depends on the links themselves. |
| `MemInit` | `arch/x86_64/init_mem.c`, `mem_init` and the conversions of `mm/page_alloc.c` | One step per memory map entry and per zone in each of `mem_init`'s loops; sizes and places are numbers of bytes, with the real constants. |
| `PageAllocator` | the promise of `mm/page_alloc.c` | Abstract: an allocation gives out an aligned block of pages nobody has. |
| `PageAlloc` (`MCPageAlloc`, `BuddyTheory`, `ListTheory`, `ZoneTheory`, `PageAllocProof`) | `alloc_pages`, `free_pages`, `page_unref`, from the state `mem_init` leaves | Free lists are `ListHead` pointers. Each recursive call of `free_pages` is a step. `mem_init` clears no bitmap, so that `map` starts as any member of `Leftovers`, which `stale` remembers; no map is set for blocks of `MAX_PG_ORDER`, and freeing one is a page fault (`FreeFaults`). The maps are taken to lie apart, as `MapsApart` of `MemInit` shows. `past` records how far the frees have gone: the properties say up to where they hold. A merge goes wrong (`past = "broken"`) when its bit was 1 at boot, when it takes a page that is not the pair's first, or at `max_order`. |
| `Sched` (`SlabSchedConsoleProof`) | `kernel/sched.c`, `task.c`, `init.c`, `exec.c`, `arch_sched.c`, `jmp_user.s`, `interrupt.c` | A thread has a place; the places are those between which a timer interrupt makes a difference. The handler runs with interrupts off and is one step. |
| `IrqFrame` | `idt_table.s`, `interrupt.c`, `page_fault.c`, `kernel/syscall.c`, `usr/syscall.s` | The stack is a sequence of words, a register's value says which code put it there. Delivery, `iretq` and the calling convention are the processor's and the compiler's (external). A page fault may arrive in every handler, to a depth of `MaxNested`. |
| `VmZone` (`IoremapTheory`) | `kernel/vm.c` | Each iteration of `get_vm_zone`'s loop is a step; sums wrap at `Word`. |
| `Ioremap` (`IoremapTheory`, `IoremapProof`) | `ioremap.c`, `paging.c`, on top of `VmZone` | Extends `VmZone`: the zone that the scan finds is mapped before `ioremap` returns. A table is a function from indices to entries with `Radix` entries in place of 512; a new one is clear, as `alloc_pages` returns it. |
| `AddressSpace` (`MCAddressSpace`, `AddressSpaceProof`) | `mm/mmap.c`, `mm/vma.c`, `mm/page_fault.c`, `arch/x86_64/vma.c`, `process.c`, `paging.c` (one page), `elf_load_segments`, `ramfs_vma_fault` | Addresses in pages, differences wrap; an area's protection is a set of bits. An area without a place keeps 0 as start and end, since its memory was cleared. One action per `do_mmap` call of the loader and of `cpu_setup_process`, one per page fault, one for a write of user code. |
| `NameTree` | the promise of directories | Abstract: a tree of names that only grows. |
| `Vfs` (`MCVfs`) | `fs/vfs.c`, `lookup.c`, `namecache.c`, `inocache.c`, directories of `ramfs.c`, `fd_table.c`, `sys_open.c`, `kinit.c`, `kernel/exec.c`, `is_valid_elf` | One step per component of a path, which is the sequence of what stands between its slashes; a path that does not begin with a slash leads to a null pointer. The callers are the kernel's own, in their order: the archive, the console, the first program, then `sys_open`. The returns of `vfs_open` for a device without a driver and for block devices cannot be reached: the only device is the console's. |
| `FileStore` | the promise of files | Abstract: each file is a sequence of bytes; reads and writes proceed byte range by byte range. |
| `FileIO` (`MCFileIO`) | `fs/read_write.c`, the page array of `ramfs.c`, `vfs_lseek`, `sys_write.c`, `copy_from_user` | One step per iteration of the loops. All files share one physical memory, so that a copy past a page hits what is there; pages are cleared when they are allocated. `sys_write` is modelled from its loop on, for a descriptor that is open and can be written. |
| `Initramfs` | `init/initramfs.c`, `kernel/strtol.c` | An archive is a sequence of blocks; one step per block. A name is the number of its leading dots and what stands between its slashes. Whether `vfs_mkdir` and `vfs_open` succeed, fail or fault is told from the members made before, for names none of which begins like another. |
| `FbConsole` (`SlabSchedConsoleProof`) | `efi_fb_console.c`, `kernel/console.c` | Buffer, screen, and the text as it should look, side by side. |
| `Printk` | `_vsnprintf` and its helpers in `kernel/printk.c` | One step per part of a directive; numbers wrap at the widths of C's types, which are constants. |
| `MCStartup` | | One instance of `MemInit`, `FbConsole`, `Printk`, `IrqFrame` and `Initramfs`, which share no state: each behaviour takes the steps of one of them. |

Some situations end a behaviour because the code says nothing about them or
what follows depends on the contents of memory: `alloc_pages` with no memory
left (it uses a null page); `ioremap` without a free zone; a memory map with no
zone below 4 GiB; an index beyond the object that holds an inode's page array;
a file created where there is no directory, a lookup that goes on from a file or
starts with a path that is not absolute, a device node made twice (null pointers,
which are not mapped: the fault ends in `hlt`); the system call number that has no
function, and negative numbers; a format that ends within a directive. After
a merge of `free_pages` has gone wrong, and after an interrupt has hit
`__iret_context_switch` where `%rsp` is no stack, the models stop as well.

## Runs

| run | expected | shows |
|---|---|---|
| `slab` | pass | Free lists are exact (no object twice, none lost, `in_use` right), each slab is on one list of its cache, `mem_cache_alloc_obj` never meets an exhausted slab, wholly free slabs are on `slabs_free`, and a full slab stays out of use until it is wholly free. |
| `page_alloc` | pass | Whatever the bitmaps held at boot, until a merge goes wrong: owned and listed blocks are disjoint, a buddy bit has changed since boot exactly when one of its two blocks is wholly free and the other is not, and `PageAllocator` is implemented. Until a free: no page is lost. Until a merge: `available_pages` is exact. |
| `page_free_aligned` | violation | `free_pages` calls itself with an unaligned block (`pfn >> (order + 1)` is not shifted back), against its comment "SHOULD be aligned". |
| `sched` | pass | The running thread is `current`, user code has its own page table and kernel stack, every switch after `sched_start` loads a real frame, tasks take turns, and a queued task becomes current. |
| `sched_boot` | violation | A timer interrupt between `sched_add_task` and `sched_start` makes the task current although the comment in `start_kernel` says that no task is active. |
| `vm_zone` | pass | Module `Ioremap`: zones stay in the region, sorted and disjoint; `get_vm_zone` is a first fit that fails only when nothing fits, and its loop ends; each page of a remapped zone translates to its page of the device, up to the end of the zone's first top-level slot; task page tables see exactly what is mapped through the slots they were made with. |
| `address_space` | pass | Areas stay sorted and disjoint (when the lowest is not below `X86_LOW_LIMIT`); page and file reference counts are exact; file pages appear only where a header put them. |
| `vma_join` | violation | `try_join` goes on from the entry it has just deleted: it follows `LIST_POISON1`. |
| `private_write` | violation | Every page table entry is writable, so a write to a private mapping changes the file's cached page; the copy on write that `page_fault.c` speaks of never happens. |
| `vfs` | pass | Reference counts of inodes are exact on every path, errors included, up to one reference that `vfs_open` never drops; a lookup, cached or not, finds the inode made under the name unless a longer name begins like it; the directories implement `NameTree`; the descriptor table fits its memory although its growth asks for 32 bytes instead of 32 slots, and descriptors keep their files. |
| `file_io` | pass | Until a copy crosses a page, or the growth of the page array replaces one, files implement `FileStore`: writes land where they should and nowhere else, reads return what was written and zeros where nothing was, and the part of a buffer that is not mapped is written as zeros. A read within the file ends. (Growth counts one page more and puts a new page into the slot counted: after a write beyond the counted pages, the next one replaces the page that has its data.) |
| `startup` | pass | Memory set-up: bitmaps and page structures do not overlap, and have a bit for every pair but up to seven per order; a page and its frame convert into each other, but in the zone with the maps every frame is too low by the zone's base. Console: the text is shown, outside the cells that a scroll clears by mistake. `printf`: what C requires, in exactly the cases that `Differs` does not name. Interrupts: the interrupted code goes on as if nothing had happened, with a system call's result in `rax`. Archive: unpacked exactly, unless a member is one that `Misread` names: a file marked the old way, a name without a slash in front, a member before its directory, data that looks like a header. |

Every property of a passing run has a mutant in `PROJECT.json`: a plausible
mistake in one definition that makes the property fail.

### Bounds

- `slab`: root cache, the 64-byte kmalloc cache and one off-slab cache with 2 or
  3 objects per slab; four page blocks. Every cache can have a slab of its own
  and one of them two; with two objects a slab goes through all three lists.
  Blocks are interchangeable (symmetry). `MCSlab` evaluates the real kmalloc
  table against the assumptions of `Slab`: two objects or more per slab and
  descriptors that fit the 64-byte cache.
- `page_alloc`: zones of 8, 2 and 1 pages with top orders 2, 1 and 0, one of
  them not identity mapped: splits through two orders, merges through two, a
  first pair (where the index is right) and others (where it is wrong), the
  fall back to a second zone. `MAX_PG_ORDER` is 2, so that the first zone has
  blocks without a map and the second has none. The bitmaps are clear at boot,
  or have bits of order 0 or of higher orders set. `Excess` bounds how far merges
  overcount `available_pages`: by one page, which takes one merge.
- `sched`: the init task and three kernel tasks, so that a queue has a first, a
  middle and a last entry. `waited` is counted up to the length of the queue.
- `vm_zone`: a region of 11 units with pages of 2, up to four zones, sizes from
  0 to one that wraps. Tables of three entries: the region begins within a table
  of each level and crosses a top-level slot. One task, made at any moment.
- `address_space`: three headers out of nine chosen to be below the low limit,
  empty and without address (as `PT_GNU_STACK` is), adjacent with equal and
  different protection, overlapping in each way, over the stack, and beyond the
  end of the file; files of one and of two pages; 16 pages of address space.
- `vfs`: three names of which one begins like another, archives with directories
  and files under each other's names, paths through `.` and `..`, through a
  missing directory and through a file, paths that are relative and one that ends
  in a slash; six inodes, six open files, seven opens.
  One path leads `vfs_open`'s two lookups to different directories: the cached
  `..` answers for `.` the second time. The descriptor table starts with two slots, so that it grows twice; `MCVfs`
  evaluates the real sizes (32 slots, the kmalloc classes) as an assumption.
- `file_io`: two files, pages of four bytes, chunks of two, three pages of memory,
  counts of one byte and of more than a page, seeks to the start, forward, to
  the end and to the page after the next one the array can grow by, buffers of which three or six bytes are mapped; four calls.
- `startup`: memory maps of up to three entries with the real page and structure
  sizes; a console of 4 x 2 cells and nine characters, enough to fill it and
  scroll twice; directives with every combination of `0`, `-`, `+` and `#` and
  widths and precisions around the number of digits, with C's types narrowed to
  6, 8, 12 and 16 bits and a buffer of 8 characters; all vectors except 21 and 29,
  which belong to features that are never turned on, and two page faults within
  a handler; archives of up to three members out of thirteen: in and out of
  directories, below a file, with names that begin with a slash, a dot or neither,
  with data that looks like a file's or a directory's header.

Deadlock is not checked where the kernel may stop: memory runs out in `slab`,
`page_alloc` and `file_io`, the CPU halts or loses control in `sched`,
`address_space`, `vfs`, `vm_zone` and `startup`, whose one-time parts also come
to their end.

### Fairness

`sched`, `vm_zone` and `file_io` check liveness. Straight-line code goes on: boot,
`__iret_context_switch`, a system call, the loop of `get_vm_zone` with the mapping
after it, and the loops of a read or write are weakly fair. Nothing is assumed
about when a client calls. A timer interrupt stays pending in the APIC while interrupts are off, so
`TimerIrq` is strongly fair. Nothing makes kernel code turn interrupts on again:
`EventuallyCurrent` assumes that they are on infinitely often, and that no
interrupt hits the unprotected part of `__iret_context_switch`.

## Proofs

`SlabSchedConsoleProof` has the proofs of three components that need nothing of
each other. `Slab`, for any caches, slab sizes and number of page blocks, under the
assumptions of `Slab` on its constants (at least two objects per slab, the
descriptor cache made before the caches that need it and not off-slab itself):

- the inductive invariant `IInv` is the conjunction of the run's invariants and
  `MetaNotHeld` (an object that holds a cache or a descriptor is not one that a
  client may free). None of them is inductive alone: that a free slab is found
  on `slabs_free` needs the exact length of its free list, which needs exact
  contents, which needs that an object freed was out;
- a free list is a bijection `q` from `1 .. n`; the lemmas on lists say what
  taking the first index and pushing an index do to `q`, and that `n` is the
  cardinality of the set, so that no induction is needed;
- one lemma per action; `SlabFreeListExact`, `SlabNeverEmptyHanded`, `SlabLists`,
  `SlabFreeSlabsFound` and the action property `SlabFullSlabsDrain` follow.

`Sched`, for any set of kernel tasks (`KTasksAssumption`: they are none of
the names the model uses for other things):

- the inductive invariant `SInv` says while boot runs how far `start_kernel` has
  got and what it has set up (`BootInv`), and once a task runs that `current`, the
  page table, the interrupt stack and all saved stack pointers agree with it
  (`TaskInv`). That tasks take turns needs `Turns`: the turns others had since a
  task's own are no more than the places from it to current, round the queue;
  and `Distinct`, because two places of one task would break that count;
- `SchedTypes`, `SchedRunsCurrent`, `SchedOwnSpaceAndStack`,
  `SchedFramesAfterStart` and `SchedOneTurnEach` follow.

`FbConsole`, for any number of rows and columns, any characters and any length
of text (`ConsoleAssumption`: at least one row and column, no character that the
model uses for an empty cell; `BufferAssumption`: the buffer fits the largest
object of `kmalloc`, whose null pointer for larger screens `initialize` does not
look at):

- `ConsoleTextShown` needs only that the three pictures of the screen stay
  functions over its cells, and that each of a newline, a wrap and a character
  keeps `TextShown`; the arithmetic of rows and columns is in lemmas of its own.

`BuddyTheory`, `ListTheory`, `ZoneTheory` and `PageAllocProof`, for any number of
zones, of any size and any `max_order`, with any contents of the bitmaps at boot
(`ZonesAssumption`: a zone is a whole number of its largest blocks, as `mem_init`
makes it, no larger than `MAX_PG_ORDER`, and the model's null is not a block):

- none of the run's invariants is inductive. `NoOverlap` speaks of what the free
  lists hold, but `list_add` and `list_add_tail` are called with head and entry
  swapped, so that blocks fall off the lists; such a block still points at the
  list's head, and comes back when its buddy is freed. The inductive invariant
  `IInv` therefore reads the free blocks off the links of the pages (`FreeAt`): a
  page that does not point at itself is free, and where it points gives its
  order. `ZoneOK` says that these blocks and those in use tile the zone
  (`Tiled`), that a pair's bit has changed since boot exactly when one of its two
  buddies is free as a block and the other is not, that two are both free only
  where the bit was 1 at boot (`BitsOf`), and what the links look like (`ListsOK`).
  It holds until a merge has gone wrong (`past = "broken"`);
- before the first free, `Chain` adds that nothing has fallen off a list and that
  the list of `max_order` still has its blocks in the order of their addresses;
  `CountsOK` adds that `available_pages` is the number of pages not in use, until
  blocks merge;
- `BuddyTheory` has the lemmas about powers of two and tilings: splitting a block,
  merging two buddies, giving a block out and taking it back. `ListTheory` has
  what the swapped list calls do to the links, and what a walk along a list
  visits. `ZoneTheory` puts lists and bits together: what `__alloc_from_zone` and
  `__init_free_lists` leave behind for every order, and what a merge in
  `free_pages` does. `PageAllocProof` has one lemma per action;
- `PageAllocTypeOK`, `PageAllocNoOverlap`, `PageAllocNothingLost`, `PageAllocBits`,
  `PageAllocCounts` and `PageAllocRefines` (the refinement of `PageAllocator`)
  follow from `PageAllocInvariant`. `BitsExact` speaks of pairs of any order,
  wholly free or not, inside which no bit was 1 at boot, and needs that an aligned range of pages is inside one
  block or made up of blocks (`Nested`);
- the recursive functions `Pow2`, `AllocFromZone`, `InitFreeLists` and `Entries`
  are reasoned about with induction over sets of numbers (`Least`, `Up`, `Down`),
  which needs no theorem with an operator as parameter.

`IoremapTheory`, first part: `VmZone`, for any word, page and region size and any sizes asked for
(`RegionAssumption`: twice the region's size above its start is still below the
wrap-around):

- the inductive invariant adds `ScanInv` to disjointness: the zones before the
  loop's place end at or below its address, those from it on start at or above
  it, and no address below it fits;
- `VmZonesDisjoint` and the action property `VmZoneFirstFit` follow. The proof
  also shows that the `continue` of the loop is never taken and that the test
  for a wrapping sum never succeeds.

`IoremapTheory`, second part, and `IoremapProof`: `Ioremap`, for tables of any size
(`Radix`, 512 in the code), any number of tasks and any calls. `TableAssumption`
gives the constants their types; `LayoutAssumption` is the layout of the kernel's half:
the 2 MiB pages of the identity mapping end before the vmap region and the
kernel's own pages, these end before the top, the region starts with a page and
a word is a whole number of pages (in the code `0xffff800000000000`,
`0xffffc00000000000` and `0xffffffff80000000`, in this order):

- `IoremapImplementsVmZone`: a step of `Ioremap` is a step of `VmZone` or leaves
  its state alone, so that zones are disjoint and found by first fit here too
  (`IoremapZonesDisjoint`);
- neither `ZonesMapped` nor `SeenByTasks` is inductive: a table reached in two
  ways would let an iteration for one zone change another, and a table that is
  also a task's top level would change what the task sees. `MapInv` says that the
  tables but for the tasks' top levels are a tree (`Tree`): each has a level and
  a place (`at`), the number of the slot that leads to it, which determines its
  parent, so that two paths to a table are the same; 2 MiB pages are in the slots
  below `Identity` of the second level only. It says that a task's top level is
  the kernel's in the slots copied and empty elsewhere, and that open loops are
  above the 2 MiB pages, or at the one they are to map;
- the loops' indices are the digits of a page number in base `Radix` (`PageAt`);
  an iteration goes on to the next page (`NextSlot`), and the entry it writes is
  that page's and no other's (`PageStep`). Tables made on the way only fill
  absent entries (`Grown`), so that what is mapped stays mapped;
- `AllInv` adds that zones are whole pages while requests are (`WholeOK`), and
  that every zone is mapped (`Done`) or is the one the loops are at, mapped up to
  them (`Open`). That an iteration does not touch the other zones needs that
  zones are disjoint, which the refinement of `VmZone` provides;
- `IoremapTables` (`MapInv`), `IoremapSeenByTasks` and `IoremapZonesMapped` follow.
  The last one is about the pages up to the end of the zone's first top-level
  slot: for the rest the code maps nothing (`paging.c:66`).

`AddressSpaceProof`, for any program headers, any layout and any number of pages
(`LayoutAssumption`: no header reaches beyond `X86_LIMIT`, the stack lies between
the two limits, of which the lower is not 0, and addresses wrap at more than twice `X86_LIMIT`):

- the inductive invariant `ASInv` adds to the run's invariants that the list is
  in order even where areas start below `X86_LOW_LIMIT`, that areas end at or
  below `X86_LIMIT` otherwise, that while the loader maps no page is mapped and
  no two neighbours can be joined (so that a join always takes in the area just
  inserted, and the `file_unref` of one cancels the `file_ref` of the other), and that
  every page table entry is writable (so that a fault only ever finds none);
- `AssignClear` is the heart of it: with the areas apart no difference of
  `cpu_assign_vma_vaddr` wraps, and the place it picks is clear of all areas;
  `ValidClear` says the same of an address `is_valid_vaddr_for_vma` accepts;
- `SpaceTypeOK`, `SpaceAreasDisjoint`, `SpaceRefsExact` and `SpaceRightPage` follow. The proof
  also shows that the copy on write of `ramfs_vma_fault` is never reached, which
  is what the run `private_write` shows on an instance.

Only model-checked: liveness (`EventuallyCurrent`, `ScanEnds`, `ReadEnds`), the
refinements of `NameTree` and `FileStore`, and everything about `Vfs`, `FileIO`,
`MemInit`, `Printk`, `IrqFrame` and `Initramfs`. Liveness under fairness and ENABLED are
beyond the prover used, and so is induction over data: `Printk` and `Initramfs`
are about what a recursive definition computes for every text or archive.

## Plan

In this order:

1. A composition of `Slab` over `PageAllocator`: the blocks of slabs as blocks of
   the page allocator.
2. `AddressSpace` in bytes, for segments whose length crosses a page that their
   rounded address does not (`binfmt_elf.c:157`).
3. Proofs: `MapsApart` and `PagesRight` of `MemInit` for any memory map;
   `InterruptsTransparent` for any depth of nesting; `RefsExact` of `Vfs`.

## Not modelled

- ACPI, APIC, GDT and HPET setup, `early_paging.c`, the initcall sequence and the
  registries of drivers, file systems and binary formats: straight-line code
  against hardware, or lists that get one entry at boot.
- Code that nothing calls: `kernel/elf.c`, `parse_madt`, `pci_init`,
  `fs_name_cache_reap`, `ino_cache_get`, `vfs_mount` beyond the root,
  `x86_64_vm_map_pages`, `vma_populate` (nobody passes `VM_FLAG_POPULATE`).
- `sys_read`, which does nothing, and the value `sys_open` returns, which is 0
  whatever the descriptor.
- `strncpy_from_user` failing: `sys_open` ignores it and goes on with the path
  buffer as it is; paths are taken to be mapped and terminated.
- The one byte that `copy_from_user` writes past its buffer: what it hits depends
  on the layout of the stack.
- The floating-point directives of `printf`, which no code of the kernel uses.
- The list operations that no modelled code uses.

`PROJECT.json` lists all parts with the reason.

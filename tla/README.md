# Verification of the eyoung event description language

The repository is a compiler front end, written in C, for an event description
language (`engine`), the memory and hash library it stands on (`libmemory`) and
two protocol decoders that are to feed it (`decoder/pop3`, `decoder/html`). This
directory holds TLA+ models of that code, TLC configurations that check them on
small instances, and TLAPS proofs that hold for every value of the constants.
Paths below are relative to `src/trunk`.

    tlc -workers 2 -config HashTable.cfg MC_HashTable     # one of the runs
    tlapm Pop3Proofs.tla                                  # one of the proofs

`PROJECT.json` lists the components, the runs, for each property a mutant of the
model that breaks it, the source lines each definition stands for, the findings,
the hazards and the theorems.

## 1. The system

    rule files ──> eng_parser ──> eng_rule.l / eng_rule.y ──> eng_sym, eng_type,
                      │                     │                 eng_expr, eng_stmt
                      │        engine contexts (levels, label lists)      │
                      └──────────── ey_hash, ey_slab, ey_fslab, ey_malloc ┘
    pop3 conversation ──> client lexer/parser ─┐ request_list
                          server lexer/parser ─┴> cmd_list, session state
    html fragments ──> html lexer ──> html push parser ──> tree, checks

| part | state it keeps | operations | called by |
|---|---|---|---|
| slab, `libmemory/ey_slab.c` | pages on two lists by whether they have a free item, a free list, a counter and a flag per item, one lock; a registry of all slabs | `ey_zinit`, `ey_zalloc`, `ey_zfree`, `ey_zclear`, `ey_zfinit` | fslab, hash, engine, html; any thread |
| flexible slab, `ey_fslab.c` | a slab for small blocks, a list of the big ones | `ey_fzinit`, `ey_fzalloc`, `ey_fzfree`, `ey_fzclear`, `ey_fzfinit` | names, values and types of the engine; one thread |
| checked heap, `ey_malloc.c` | a head and a tail around each block | `ey_malloc`, `ey_free`, `ey_realloc` | everything, the flexible slab included |
| hash table, `ey_hash.c` | an array of lines, each a list with a rwlock; a count with a lock; entries from a slab | create, destroy, insert, find, find_ex, remove, remove_all | file and symbol tables; any thread |
| symbol tables, `engine/eng_sym.c` | the ident, tag and label hash tables, a list of symbols each | find, find at a level, insert, remove, purge of a level | the grammar's actions |
| scopes and bodies, `engine/eng_rule.y` | the parser's level; the engine's `loop_level`, `switch_level`, `label_list`, `func_undefined_label` | one action per rule that opens or closes a construct, declares or jumps | `yyparse` |
| declarations, `eng_sym.c` 549-1401 | symbols under construction | from specifiers and declarators to symbols, initial values | the grammar's actions |
| types, `eng_type.c` | trees of type nodes; tags shared by all who name them; member lists with offsets | combine specifiers, derive, merge, compare, copy, promote, lay out | the grammar's actions, expressions |
| expressions, `eng_expr.c` | trees of expressions, each with a type and perhaps a value | one allocation per operator: check, type, value | the grammar's actions |
| statements, `eng_stmt.c` | trees of statements, then one flat list with branches and jumps | one allocation per statement, prepare (lowering) | the grammar's actions, the end of a function |
| engine life cycle, `engine.c`, `eng_parser.c` | one engine; a table of files; a parser per file | create, load a file, parse, destroy; the work functions are empty | the user |
| POP3 session, `decoder/pop3` | two push parsers with their stacks, `request_list`, `response_list`, `cmd_list`, `state`, saved lexer input | a delivery of bytes in either direction, two end marks | `demo.c` |
| HTML decoder, `decoder/html` | one scanner with saved input, one push parser, `html_root`, free lists of nodes and properties | a fragment, the last fragment, the end of the stream; a check of one buffer | `main.c`, the stream engine |

### What is hard about it

* *Threads.* Slab and hash are meant for several threads. The slab touches an
  item's flag outside its lock; the hash drops a line's lock before it reads what
  it found, and keeps the count under a lock other than the line's.
* *Boundaries.* Free lists without a terminator, two size tests in two functions,
  purges by level, rounding, bit-fields in what the member before them left.
* *State that outlives its owner.* The symbol tables, the loop and switch levels
  and the label lists belong to the engine, the level to a file's parser: a file
  that fails in the middle leaves them to the next one. A tag's type is shared by
  every use of it, before and after it is complete.
* *Order.* A push parser reduces a rule when it sees the token that follows, and
  the POP3 lexer chooses a mode from a queue that the other direction's parser
  fills. Specifiers come in any order and are combined from the last to the first.
* *Cuts.* A document or a conversation comes in fragments that end anywhere; what
  the scanner cannot decide is saved for the next one.
* *Context.* Lowering saves, replaces and restores where break and continue go
  around every body, and drops dead code unless a label in it can be reached.
* *Failure of one step of several.* Allocation can fail between any two of them,
  and a failed one ends the process in some places and not in others.

Nothing is persisted and nothing is sent, so there are no crashes to recover from
and no messages to lose.

### What makes each part correct

| part | properties |
|---|---|
| slab | an item has one owner; lists, counters and flags agree; an empty page goes back; a legal client never sees a diagnostic; the lock is released |
| flexible slab on the heap | a block returns to the allocator it came from; a clear leaves nothing behind; listed blocks stay allocated and big enough whatever the heap's other clients do |
| checked heap | a block holds what was asked, so the magic word behind it is out of reach of its client and of a copy; growing keeps its content |
| hash table | a key occurs once and on its line; the count is right and bounded; no entry leaks; no line stays locked; it is a map |
| symbol tables | they are a stack of scopes for the file being read; globals persist; a search finds the innermost declaration |
| bodies | break, continue and case are accepted where the language allows; a switch gets its own cases; every goto of an accepted body has its label |
| types | a declaration gives the type it reads as; equality is sameness; members do not overlap, are aligned and inside the whole, bit-fields are packed |
| expressions | an accepted expression has the type C gives it, loses no qualifier, and its operators' constraints held |
| lowering | the list evaluates what the structured function evaluates, in its order; every jump lands in it, only returns leave it |
| POP3 session | requests keep their order; a response is paired with its request; the state is the session's; alarms are exact; nothing is left over |
| HTML decoder | a document is read as if it came whole, however it is cut; whatever fails, everything allocated is given back |
| declarations | section 7 |

## 2. Modules

| module | models | notes |
|---|---|---|
| `Allocator` | what an allocator promises | abstract |
| `Slab`, `SlabProofs` | `ey_slab.c`: alloc, free, clear, page exchange | one step per lock, critical section and flag access of a thread |
| `Heap` | rounding of sizes (`ey_memory.h`) and the heap's blocks | shared by the next two |
| `FSlab` | `ey_fslab.c` over an `Allocator` and any heap | addresses tell where a block came from, the code only has its size |
| `Malloc` | `ey_malloc.c` | sizes, rounding, failing libc |
| `Memory`, `MC_Memory`, `MemoryProofs` | both together: `ey_fzalloc` asks the heap | the product of the two, with the process's death |
| `KeyMap` | what a hash table promises | abstract |
| `HashTable`, `MC_HashTable`, `HashProofs` | `ey_hash.c`: insert, find, find_ex, remove, remove_all | one step between two points where another thread can be seen |
| `ScopeStack` | what the symbol tables promise | abstract |
| `ScopeTable`, `ScopeProofs` | the ident and tag tables under the grammar's actions, over several files | |
| `FunctionBody`, `MC_FunctionBody`, `FunctionBodyProofs` | the label table, `label_list`, `func_undefined_label`, loop and switch levels | several files, each with one body |
| `CTypes` | the types of `eng_type.c` and the functions on them without state of their own | operators on sequences of nodes; the tags are a variable |
| `StructLayout` | the loop that lays out a structure or union | one step per turn of the loop |
| `TypeDecl`, `MC_TypeDecl` | the grammar's actions that make types: a tag's definition and parameters that use it | |
| `ExprBuild`, `MC_ExprBuild` | `eng_expr.c`: check, type and value of every operator | the parser's stack of operands |
| `TypeProofs` | | the proofs about the four modules above |
| `Statements` | the statement trees of `eng_stmt.h` | pure |
| `StmtMeaning` | what a function's body means | abstract |
| `StmtLower`, `MC_StmtLower` | `ey_function_prepare` and all it calls, and a machine that runs the list | |
| `Pop3Session`, `MC_Pop3Session`, `Pop3Proofs` | both push parsers of `decoder/pop3` and what they share | the conversation is the environment |
| `HtmlLexer` | the scanner's rules, on characters that they tell apart | pure |
| `HtmlDocument` | what reading a whole document means | abstract |
| `HtmlParser` | what a token does to the push parser, the nodes and the free lists | pure, a set of outcomes |
| `HtmlStream`, `MC_HtmlStream`, `HtmlProofs` | `parse_html_stream` over fragments, `html_priv_free` | |

A definition with a suffix after an underscore, marked *a faulty variant*, is a
bug somebody could have written. It is used by nothing but the mutants, each of
which puts it in the place of the definition below it to show that a property
notices.

### How state and actions correspond to the code

* **Slab.** `full_page_list` and `alloc_page_list` are the two lists as sets: their
  order only chooses among equals. `free_item[p]` is page `p`'s free list,
  `free_count[p]` its counter, kept apart because the code knows an empty list by
  the counter alone. `pc[t]` is where thread `t` is in `ey_zalloc`
  (`want`, `alloc`, `mark`) or `ey_zfree` (`give`, `free`); `head[t]` is the item in its
  hands. `owner` is the client's side, the refinement's only variable. Clients free
  an item once, from any thread. `ey_zclear` runs while nobody is inside.
* **FSlab.** `zsize` is the item size of the slab, 0 when there is none: `ey_fzinit` was
  given 0, or `ey_zinit` refused the size or found no memory, which line 60 does not
  look at (`SlabSizes`). `slabOut` and `heap` are what the two allocators count as
  handed out, `malloc_list` the list of big blocks, `user_size` the size a block's
  head holds. `fault` is the undefined operation that was done: a block given to the
  allocator it did not come from, or a list operation that reaches freed memory;
  after one nothing is known but that the process ends. The list keeps its elements
  over a clear, as in the code, and a cleared fslab may be used (the engine's are not).
* **Malloc.** `want` and `filled` are the client's: what it asked for and how many of
  a block's bytes are its data. `overwritten` are the blocks whose magic word
  something has written over, by their bounds: a client that fills a block
  (`Write`), or the `memcpy` of a move, which copies `CopyLength` bytes into a block with
  room for `REAL_SIZE` of the new size; `Copied` is what arrives of the data.
  `NearNull` is the address 8 that `ey_malloc` answers for a NULL from libc.
* **Memory.** A step is a step of the flexible slab, of another client of the heap,
  or of both at once: `FzallocFromHeap` takes a block by `ey_malloc`, `Released` gives
  one or all back by `ey_free`. When libc has no memory the answer is the address 8,
  which the flexible slab writes through: `FzinitFailed` and `FzallocFailed` end the
  process, and so does another client's `ey_realloc` (`ReallocFailed`).
* **HashTable.** `writer` and `readers` are a line's rwlock, `linked` its list,
  `allocated` the entries taken from the slab. The `i_`, `f_`, `r_` and `a_` positions of
  `pc` belong to insert, find, remove and remove_all. One set of find actions
  stands for `ey_hash_find` and `ey_hash_find_ex`.
* **ScopeTable.** A symbol is a record of its kind, name, level, file and the hash
  line it is on. The line is a choice at each occurrence, because the tables hash
  the address of a name (`eng_sym.c` 18-22) and each occurrence of an identifier is
  a copy. `newer` is the order of a line's list. `scopes` is the stack of open
  constructs, its length `ey_parser_level`. A structure's or union's body opens one
  (`OpenTag`, `CloseTag`), an enum's does not (`EnumTag`, `EnumDefined`).
* **FunctionBody.** `nest` is the parser's stack: the open constructs, with the
  contexts that mid-rule actions saved there. `next` and `prev` are the links of the
  list of undefined labels, followed as `TAILQ_REMOVE` follows them. `ready` tells
  whether `label_list` was ever initialised. `Values` are the names case labels have in
  the table. At this commit there are two, `default` and `0`, because
  `ey_convert_label` (`eng_sym.c` 503-507) answers 0 for every value; the theorems are
  for any set of them.
* **CTypes, TypeDecl.** A type is the sequence of the nodes (`ey_type_t`) its links
  lead through: a pointer, an array or a function comes first, what it is derived
  from is the rest (`to`), and NULL is the empty sequence. A node has the code's
  `type` split into sign, length and base, and `class` as its union's selector. What
  changes of a tag is in `tags`. `equal` follows the calls of `ey_type_equal` level by
  level: `CallsOf` is the set of calls at each depth, those that agree make the next. `spec` is the combination of the
  specifiers read so far from the right, `decl` the declarator with its inner end
  open, and `words`, `quals` and `derived` remember what was written, which is what
  the properties compare with. `type_qualifier`'s action sets bits of a `$$` that
  bison has not set; `JunkQuals` are the values it may have had.
* **StructLayout.** `offset`, `bit_offset`, `size` and `alignment` are the loop's
  variables, `members` the list, `placed` what the members before the current one
  were given.
* **ExprBuild.** `stack` is the parser's. An expression has its opcode, the type the
  code gave it and its value's kind, and beside them what it means in C (`meant`,
  `lvalue`, `kept`; `mixed` if one of two different operands decided). An operator's action goes through check, type and value, each
  of which may refuse or crash, which ends the parse.
* **StmtLower.** `prog` is the tree, `code` the list `ey_function_prepare` makes, each
  of its statements known by the path of the statement it comes from; `pc` runs
  it. Where the code would follow NULL the list holds a `crash`. `ReturnPoint` is
  allocated beside the list and never put into it (section 6): a return leaves the
  list (`Returned`), and since the return point links to nothing, the function ends.
* **Pop3Session.** `held` and `reading` are what is on the two parsers' stacks,
  because a rule is reduced by the token after it: a request is queued when the
  next command begins, a response when the next status line begins. `mode` is the
  server lexer's start condition. `sent`, `answers` and `text` are the conversation
  itself. `flow` is `corrupt` after the code has used memory it never set.
* **HtmlStream.** `rest` has not arrived, `last_string` was saved, `buf` is in the
  scanner's buffer, `p` the parser: its state, the names and properties on its
  stack, and the nodes and properties on the free lists. `Lex` is one call of
  `htmllex` with the push of its token, `Save` the call that saves what it cannot
  decide. `live` counts what the allocators gave out; `Free` is `html_priv_free`. What
  has been read is seen in the free lists: a node's `Kids` are those it is linked to
  and those still on the parser's stack, `Depths` follows them up to the document,
  and `InOrder` says that going through the tree meets the nodes in the order in
  which they were allocated, which is the one `HtmlDocument` reads them in.

### Which composes which

`Slab` refines `Allocator`, which stands for the slab inside `FSlab` and, as the set
of `Entries`, inside `HashTable`. `Memory` is `FSlab` on `Malloc`: it extends both, each
of its steps is a joint step, and every behaviour is proved to be one of `FSlab` and
one of `Malloc`. `HashTable` refines `KeyMap`. `ScopeTable` refines `ScopeStack`; it has
the search order of a line's list from `HashTable`'s insertion at the head.
`FunctionBody` has the label table's insertion, search and purge in the same form,
and stands beside `ScopeTable`: the first follows the statements of one body, the
second the scopes of a whole file. `TypeDecl` extends `StructLayout`, whose loop it
runs when a tag's body ends, and `CTypes`, as does `ExprBuild`. `StmtLower` refines
`StmtMeaning` over the trees of `Statements`: where the list has got to is mapped to
the expression that is evaluated next. `HtmlStream` drives `HtmlParser` with the
tokens of `HtmlLexer` and refines `HtmlDocument`, which reads the same tokens from
the whole document.

## 3. Runs

| run | configuration | what it shows |
|---|---|---|
| `slab` | 2 threads, 2 pages, 4 items to a page (660 000 states) | `PagesConsistent` (types, lists, counters), `OneHolder`, `NoFalseAlarm`, `NoIdlePage`; refines `Allocator`; `LockReleased` |
| `memory` | fslabs made for 8 and for 1000 bytes (a slab with items of 32, or none), requests of 5, 8 and 20, sizes 0 to 44 on the heap, 3 heap blocks, 2 items (564 000 states up to symmetry) | `BlocksGoBack`, `BlocksAccounted`, `CapacityCovers`, `ReallocKeepsData` |
| `hash_safety` | 2 threads, 3 keys on 2 lines, 3 entries, limit 2 (290 000 states up to symmetry) | `UniqueKeys`, `TableSound` (types, exact count, limit), `LinesReleased`, `EntriesAccounted`; refines `KeyMap` |
| `hash_find` | 2 keys, 2 entries | finding: a find uses an entry after unlocking its line |
| `scope` | 2 files, depth 3, 3 symbols, 2 lines, 1 formal (225 000 states) | `FindsInnermost`, `TablesSound`, `GlobalsPersist`; refines `ScopeStack` |
| `scope_func` | the same | finding: no function definition can be completed |
| `body` | 2 files, nesting 4 and 3, 2 cases, 2 lines (2.1 million states up to symmetry) | `ContextsSound`, `SwitchOwnsCases`, `SameLineDistinct`, `GotosResolved` |
| `types` | every structure or union of up to 3 members of 9 types and widths 0, 5 and 27, then parameters of up to 4 specifiers and derivations (2.5 million states) | `LayoutSound`, `PackedTight`, `DeclaredAsWritten`, `EqualIsSame` |
| `expr` | up to 6 steps over 20 symbols, 3 operands on the stack (780 000 states) | `ResultTypes`, `ConstraintsKept` |
| `lower` | every statement inside every other to depth 3, conditions of unknown value or 0 (390 000 states) | refines `StmtMeaning`; `JumpsLand` |
| `pop3` | up to 4 commands of 6 sorts, any pipelining (600 000 states) | pairing, order, state, alarms, end of stream |
| `html` | 1 000 documents from a file and from a stream, in any fragments, a parser stack of 13 (150 000 states) | refines `HtmlDocument`; `NothingLost` |

*Bounds, and why they suffice.* Four items is the smallest page the code allows
(`MIN_PAGE_ITEMS`); two pages are needed for an item of one to be freed while the
other is the current one. Two threads make every race of two critical sections;
the slab's and hash's invariants speak of at most two threads at a time. In
`memory` a request with its head lies below the slab's item, exactly at it and above
it; 8 is the size the engine makes its fslabs for, 1000 the one whose slab
`ey_zinit` refuses; the heap's sizes, 0, 29, 32 and 44, are those with the head, two
of which round to the same, and three heap blocks let one of the flexible slab's
lie between two of others. Three keys on two lines give one line
that is contended by two keys and one that is not, and a limit below the number of
keys makes it bite. In the rule language two files are enough because a file only
sees what all earlier ones left, which one can leave; depth 3 puts a scope inside a
scope inside a scope. A body of four nested constructs has a switch in a switch
with a case in each. Three members put a bit-field after a bit-field after a plain
member, and widths 5 and 27 share a unit of 32 bits exactly, one of 8 not at all,
and one of 64 with room to spare. Four parts are a specifier with three
derivations, or two of each, and every order of three specifiers with one. Six
steps build an operator over operators over three operands; every property looks
at an expression and its direct operands, whose types are by then any the
symbols' types lead to in two operators. Depth 3 has a loop in a switch in a loop
with a leaf that leaves any of them. Four commands let a client run two ahead of
an answer and still see a third pair; every property of `Pop3Session` speaks of
neighbouring pairs. The HTML documents are every sequence of up to three of seven
characters, every tag of a begin, a property, a value and an end with something
after it, and six longer ones, of which one fills the parser's stack; the scanner
keeps no more than a start condition, so what a cut can do is decided by the
rule it falls into, and each rule is cut everywhere. What is proved (section 5)
does not depend on the bounds.

*Deadlock* is checked in `slab`, `memory` and `hash_*`. The other runs say
`CHECK_DEADLOCK FALSE`: a process that crashed, the last file read, a parse that
ended, a function that returned, a freed decoder and a conversation that ended do
stop.

*Symmetry* is used for threads and entries in `hash_safety`, for blocks and items in
`memory` and for lines in `body`, which check no liveness.

*Left out by the checked properties.* Where the code is known to differ from
what it should do, the property says so by name and the difference is in section
6: exact fits, of which `BlocksGoBack` says that they go to the wrong allocator
and nothing else does, and after which the process may do anything, returns
(`JumpsLand`), `char` before a sign (`DeclaredAsWritten`), tags that are not
complete (`EqualIsSame`: the code takes two of them for equal), expressions that
took the type of one of two different operands or of a lost long long (`mixed`
in `ExprBuild`), constant conditions other than 0, empty loop bodies and hidden
labels (`IsClear` in `StmtLower`), misread answers (`misread` in `Pop3Session`).

## 4. Fairness

One property needs it, `LockReleased` in `Slab`: whoever gets the lock drops it. It
assumes weak fairness, for each thread, of the steps it takes while it holds the
lock (`Critical(t)`): a runnable thread that waits for nobody is scheduled eventually,
which any scheduler the library runs under provides, and inside the critical
section these threads wait for nothing. Nothing is assumed of a thread that waits
for a contended lock (the code promises no order among waiters) or of clients.

That no path out of a hash operation keeps its line's lock is stated without
fairness, as the invariant `LinesReleased`: the holder is always between locking and
unlocking that very line. The parsers and decoders are driven by their callers and
promise nothing if nobody calls.

## 5. Proofs

| theorem | says | rests on |
|---|---|---|
| `SlabInvariant`, `SlabSafety`, `SlabPages`, `SlabNoFalseAlarm`, `SlabNoIdlePage` | the slab's invariants for any threads, pages and page size of at least four | `SlotsAssumption`, `PagesAssumption`, `NoThreadAssumption` |
| `SlabImplementsAllocator` | refinement | the same |
| `FSlabInvariant`, `FSlabCorrect`, `FSlabAccounted` | every block but the exact fits goes back where it came from, whatever the sizes and the order of calls; the client's blocks are those the allocators count, a clear leaves nothing | `RequestsAssumption`, `ItemsAssumption` |
| `MallocInvariant`, `MallocCapacity`, `MallocKeepsData` | no magic word is overwritten, and the copy of a move brings all the data along, for any sizes | `SizesAssumption`, `AnswersAssumption` |
| `MemoryImplements` | every behaviour of the composition is one of the flexible slab and one of the heap | `RequestsReachHeap` |
| `MemorySafe`, `MemoryListedFit`, `MemoryBlocks`, `MemoryKeepsData` | what was proved of the parts, and what relates them | the same |
| `HashSafety`, `HashEntries`, `HashCount`, `HashTableSound`, `HashLines`, `HashImplementsMap` | uniqueness, accounting, the count and its limit, the locks, refinement | the named assumptions of `HashTable` |
| `ScopeSafety`, `ScopeTables`, `ScopeGlobals`, `ScopeImplementsStack` | search, open tags, globals, refinement | `BoundsAssumption`, `FiniteAssumption` |
| `StructLayoutSound`, `StructPacked`, `TagsLaidOut`, `TagsPacked` | offsets and bits for any member types, widths and number of members, of the loop alone and of the tags of a file | `MemberTypesAssumption`, `BitSizesAssumption`, `MaxMembersAssumption` |
| `TypesDeclaredAsWritten` | a declaration gives the type it reads as, for any number of specifiers and derivations | `DefinedTagAssumption`, `StarListsAssumption` |
| `EqualsAreSame` | two types compare equal just when they were built alike: a declared one of any length, with functions in it or without, and any of `Known`, at each setting of the flags | `KnownAssumption`, `ArgListsAssumption`, `MaxDepthAssumption` and those of `TypesDeclaredAsWritten` |
| `ExpressionTypes`, `ConstraintsHold` | type, qualifiers and constraints of every accepted expression, for any symbols, operands and steps | `SymbolsAssumption`, `ParametersAssumption`, `MaxDepthAssumption` |
| `Pop3Types`, `Pop3Order`, `Pop3OffByOne`, `Pop3EndComplete` | order and pairing for every conversation | `CommandsAssumption`, `MaxSentAssumption` |
| `BodyInvariant`, `BodyContexts`, `BodySwitchOwns`, `BodySameLine`, `BodyGotos` | contexts, cases and gotos for any nesting, files, names, values and lines | `BoundsAssumption`, `NamesAssumption` of `FunctionBody` |
| `HtmlInvariant`, `HtmlNothingLost`, `HtmlInOrder`, `ScanExtends` | ownership, the tree and the cuts for any documents, names and depth | `DocumentsAssumption` |
| `HtmlImplementsWhole` | refinement | the same |
| `Pop3Lockstep`, `Pop3StateFollows`, `Pop3AlarmExact`, `Pop3NoText` | pairs, state, alarms and the lexer's mode for a client that waits for each answer | the same |

The arguments, and why each needs more than its property:

* **Slab.** *One holder* is not inductive: a thread between its critical section and
  the flag owns an item no list shows. `IInv` adds that `head[t]` is set exactly in
  those positions (`HeadMatchesPc`) and that the flag tells owned from free items
  once the position is known (`FlagMatchesOwner`), from which `NoFalseAlarm` follows
  although the flag is read without the lock. `NoIdlePage` needs
  `IdleOnlyWhileTaking`: the only page without an allocated item is the one its
  new owner has just put in place, with the lock held.
* **Memory.** The size in a block's head tells where it came from by the test of
  `ey_fzalloc` (`SizeTellsOrigin`), and that of `ey_fzfree` is the same one but for exact
  fits (lemma `TestsAgree`): so a freed block is unlinked from a list it is on or
  given to a slab that counts it, unless it is one of these, which the slab counts
  and the list does not hold. Clears leave old elements on the list, so it says more
  than `Accounted`: either the list is the heap's blocks, or the fslab was cleared and
  has none. On the heap, heads hold rounded sizes (`Rounded`), which cover what was
  asked (`Covers`) and so what was filled; hence the copy of a move, as long as the
  head says, is never shorter than the data, and since a block moves only where the
  rounded size grows, never longer than the room (`MoveKeeps`). That the composition
  implements its parts is shown step by step: each joint step is a step of one
  and a step or a stutter of the other. `ListedFit` is proved over both at once,
  because it says of the flexible slab's list what only the heap knows.
* **Hash.** That keys are unique rests on the scan: while an insertion is past it,
  the line has no equal key (`NoneEqual`) because it still has the write lock
  (`LockHeld`). The count is related to the lines by adding the insertions that have
  counted and not linked and the removals that have counted and not unlinked, a
  cardinality argument of its own (`CountInv`).
* **Scopes.** A search has no level to go by, so it is right only if a line's list
  is ordered: later files before earlier ones, deeper levels before outer ones
  within a file (`Ordered`), keys unique (`KeysUnique`), and no symbol of the file
  deeper than the level (`LevelBound`).
* **Layout.** The invariant says where the loop stands: the next free bit,
  8 `offset` + `bit_offset`, is past every member placed, `size` covers them, and
  while a run of bit-fields goes on, it stands in the unit of the last of them. For
  a unit's boundary to be one, alignments are 0 or a power of two up to 8.
* **Declarations.** A word is made of the specifiers one at a time from the right, and
  what was written is known by counting. The invariant ties the two: `IsRead` says of
  each part of the word so far how often its specifiers occur (two `long` are one
  `long_long`), that no other occurs, and that a base that takes no sign or length
  stands alone; each row of `ey_type_combine` either keeps it or has no answer, and
  then the specifiers name no type (`CombineSpelled`, `CombineRead`). The declarator
  is, node by node, the derivations from the identifier outwards, which
  `ey_type_merge` keeps although it fills in sizes behind them. The layout of a file's
  tags is that of `StructLayout`, whose invariant holds because every step of `TypeDecl`
  is a step of its loop, begins one anew or leaves it alone.
* **Comparing types.** `ey_type_equal` calls itself for what a type leads to and for each
  parameter, with flags that change on the way; `EqualIsSame` compares the nodes of two
  types at once, with the qualifiers from the first function on. The proof relates one
  call to one node: two types are built alike just when their first nodes agree and
  all the calls made in turn are for types built alike (`AlikeStep`). Upwards along the
  levels of calls this gives that types built alike are equal; downwards from the last
  level, where nothing is left to call for (`CallGoesOn`: each level is a node less
  deep), that equal types are built alike (`AgreeIsAlike`). Both need that a node is
  what `alloc_*` made, so that its word tells its class (`SameClass`); `MadeInv` says
  this of the declarator at each step, of the specifiers that no word combined of
  others names a tag, and of the type declared that only its last node is no link.
  `KnownAssumption` says the same of the types of other declarations, and that the bound
  `MaxDepth` is not below their depth; the type declared may be deeper.
  `ArgListsAssumption` is a restriction: parameters are objects behind any number of
  pointers, no arrays or functions, because parameters are compared as wholes here and
  an array is equal to another of a different size held or of no length. `EqualIsSame`
  says nothing of tags that are not complete: the code takes two of them for equal.
* **Expressions.** The type of an expression is a copy of a part of an operand's type,
  what it means is a part of what the operand means, and they are not alike: an
  array has become a pointer, a copied tag keeps qualifiers of its own. So
  the invariant (`StackInv`) compares them node by node: of the same shape but for an
  array at the head that is meant as a pointer, the qualifiers kept at each
  (`Agrees`), and for a symbol, a dereference and an index of the same shape at the
  head too (`Exactly`). What is no lvalue is const at its head, since every result is
  copied const, and that is what keeps `++` and `=` off it. A call needs that an
  argument accepted by `ey_type_equal` has its parameter's shape (`EqualShape`): each
  call of a level (`LevelOf`) agrees on one node and asks for the next, down to the
  depth of the parameter, which `ParametersAssumption` bounds by the comparison's.
* **POP3.** `Taken`, the number of commands that have left the queue, ties stack,
  queue and pairs together: the pairs hold the commands `1..Taken` in order
  (`CmdsAre`), the queue those that follow (`QueueIs`). That no pair is off by more
  than one needs a fact about the environment's guard: an answer has a command,
  so a pair is made without one only for the greeting, or at the end of a stream
  that stops short (`Counts`).
* **POP3, in lock-step.** `FullInv` adds to this that no command is sent before the
  answer to the one before it (`NoneEarly`), so the queue holds at most one command
  when a response is paired and none for the greeting (lemma `FirstInTurn`), and the
  lexer, which looks at the queue after that, never leaves `INITIAL` (`Quiet`).
  `Turn` says where pairs, state and alarms then stand; to advance it, each answer
  must be one the server may give to its command (`Conversed`), for which the
  decoder's two tables agree with the server's rules (`TransferIsMove`,
  `CheckIsAccept`).

* **Bodies.** What a `break`, a case or the end of a switch looks at is in three
  engine variables, and what it should look at is on the parser's stack. So the
  invariant says for each open switch where its context is: in force if it is the
  innermost, else in what the next switch inside it saved (`SwitchContexts`, by way
  of which switch `Follows` which); and that its cases are in the label table on its
  own level, below every block inside it, so that no purge takes them before it ends
  (`CasesRecorded`). That a level is set exactly inside a construct of its kind needs
  the levels saved along the stack (`LevelsSaved`), in the first file only: a later one
  may begin with what a failed one left. `GotosListed` says that the links of
  `func_undefined_label`, read from its head, are an injective sequence of just the
  undefined labels, which insertion at the tail and `TAILQ_REMOVE` keep; the list being
  empty at the end of an accepted body is then `GotosResolved`. This too is so only
  in the first file (section 6).
* **HTML, what is owned.** `Held`, a cardinality over the free lists, is compared
  with the count of strings at each token: the cases of a token's outcomes (`Shifted`,
  and a name reduced before it) either leave lists and count alone, abort before
  anything is linked, or add one element and its string.
* **HTML, refinement.** Three things make a cut invisible. *The scanner:* if no rule
  can begin with all of what is in the buffer, the longest match there is the
  longest in anything that begins with it (`ScanExtends`, by cases of the rules). *The
  input:* the texts saved, buffered and not arrived are, one after the other, the
  end of the document from where the scanner stands (`Placed`), so that match is
  `HtmlDocument`'s. *The parser:* each outcome of a token is a step of `HtmlDocument` or
  one that stops it (`Taken`), which for a file needs what the tree looks like: the
  nodes are a forest in which each hangs from an earlier one, the open tags are
  its right edge (`Forest`), and the end of a tag or of the document moves children
  from the stack into their node without moving any of them in the tree
  (`EndMovesNone`, `AcceptMovesNone`). For a stream properties are copied exactly
  within tags that are checked (`CopyTells`). The scanner never
  uses up its buffer before the last fragment, so an end can come early only while
  all fragments so far were empty, with nothing open (`AtStart`).

Only model-checked: `LockReleased` (liveness under fairness is out of the installed
prover's reach); `ImplementsMeaning` and `JumpsLand`, because lowering recurses over
trees, and what a recursion computes needs an induction that the prover cannot do
(`Statements`, `StmtMeaning`, `StmtLower` and its `MC` module use `RECURSIVE`
operators; no module with a theorem reaches one).

## 6. Findings

Each is a run that TLC finds violated, with the line of the repository that says
otherwise in `PROJECT.json`.

1. `hash_find`: `ey_hash_find` reads an entry after it has dropped the line's lock
   (`ey_hash.c` 144-145).
2. `scope_func`: what the header of a function hands to the end of its body is the
   symbol the search found, NULL for a new function (`eng_rule.y` 516).

Observations made on the way, for a maintainer. No run is about them; where the
model has them it does what the code does.

*Memory and hash.*

* `ey_fzalloc` and `ey_fzfree` put a block of exactly the slab's item size on
  different sides (`>` at `ey_fslab.c` 80, `>=` at 111). With the 8 byte configuration
  of names and values every name of seven characters meets it. The block comes from
  the slab and is freed as one of the heap's: unlinked by links nobody has set, then
  given to `ey_free`. Exact fits are requested in the run, and what `BlocksGoBack`
  states and `FSlabCorrect` proves is that all of them go astray and nothing else.
* `ey_fzclear` leaves the freed blocks on the list (131); the next big block of a
  cleared fslab is linked to freed memory. No caller in the engine uses a cleared
  one, but the model may, and `BlocksGoBack` says that nothing else gets there.
* Nobody looks at the result of `ey_zinit` (60): an fslab whose slab was refused works
  from the handler alone.
* `ey_malloc` answers the address 8 when libc answers NULL (`ey_malloc.c` 35); no
  caller's test for NULL notices, and `ey_fzalloc` writes through it.
* `2^power2_size` in `ey_hash.c` 54-58 is an exclusive or.

*Scopes and bodies.*

* Symbols are hashed by the address of their name (`eng_sym.c` 21). Two occurrences
  of a name meet only by chance: duplicates are accepted and declarations missed.
* Every `init_declarator` aborts: `|` for `&` at `eng_sym.c` 556, 562 and 604-611, and a
  successful `ey_insert_symbol` taken for a failure at 731-969.
* A file that fails leaves its locals in the tables, its loop and switch levels to
  the next file (where break and continue are then accepted anywhere), and its
  undefined labels in the label table, whose links the next body follows. Formals
  with the key of a stale symbol are dropped without a word (`eng_rule.y` 505, 513).
* `label_list` is initialised only by the end of a switch, so the first case of the
  engine's first switch writes through a NULL tail pointer (`eng_rule.y` 4192).
* `ey_convert_label` is a stub (`eng_sym.c` 503-507), so all case labels of a switch are
  named `0`: the second one is taken for a redefinition where the two hash together.
* Equal cases are accepted when they hash apart, and in
  `switch (x) case 1: { case 1: ; }`. A false redefinition is reported for unbraced
  nested switches.
* A label is inserted only if a goto came before it (`eng_rule.y` 4101), and then the
  statement it labels is dropped (4122).
* `ey_parse_file` frees the name of a file that is still in the hash table (the
  success path falls through to `failed`), looks a name up by the address of the
  caller's string, so hardly ever finds it, and answers 0 when the file fails. The
  rule lexer sets no token values.
* The `finit` functions of the engine re-initialise their hash tables (`ey_hash_init`
  drops the entries, which keep their slab items and their part of the count) and
  clear their slabs; tables and slabs themselves are never destroyed.

*Types.*

* The members a structure can have today are pointers and a final open array; of
  `int *p, *q;` the second becomes a pointer to the first's type; a member of type
  void is accepted (forbidden at `eng_rule.y` 2326); a named `int a[]` follows NULL
  (about 3284).
* `char signed` and `char unsigned` are read as short: a `break` is missing
  (`eng_type.c` 627-643). No specifier at all is int. `long double` is refused.
  Anything after a storage class always aborts (`|` for `&`, 1881).
* `* const * p` puts the qualifier on the wrong star; an abstract pointer has no
  value; `const` and `restrict` set bits of a value that was never set. The
  qualifiers of one use of a tag go to the tag, so to every use.
* Two incomplete tags compare equal, against `eng_rule.y` 2465-2466.
* Two operands of `signed long long` are promoted to a type that `is_integer` does
  not know; the integer promotion would make `unsigned char` an `unsigned int`
  (868-874). `f(void)` gets a parameter of type void.
* So an operand that was promoted to long long is not an integer to the checks. In
  `c ? (c ? ll : ll) : d` the outer conditional does not convert (`eng_expr.c` 954-958)
  and takes its first branch's type, where C has double (`LostLongLong`).

*Expressions.*

* A conditional takes the type of its first branch: `++*(c ? p : cp)` is accepted when
  `cp` points to const (against `eng_expr.c` 962-964), `c ? &p : &q` may mix pointers,
  and a branch that is an enum tag is not checked at all. Arguments drop the const
  of what they point to.
* Accepted and wrong: an integer minus a pointer, `%=` of floats, arithmetic on
  pointers to void; the difference of pointers is `unsigned long`; a shift takes the
  common type of its operands; `long long` and `unsigned long` get the wrong one.
* Refused and right: unary `-`, `+`, `~` and `!`, sums and all that has a value to
  compute (`calc_value` answers -1), a pointer compared with 0, `x++` on a symbol,
  `f(x)` and `(*f)(x)` by name, an argument for an array formal, every member access.
  A comma crashes, and so does an assignment, or it gets its right side's type.

*Lowering.*

* `ey_function_prepare` allocates `return_point` (`eng_stmt.c` 1688) for every return to
  jump to and never puts it into `new_list` (1695-1707): returns leave the function's
  list, unlike every other jump. Its link is NULL, so nothing runs after it.
* `ey_expr_is_true` and `ey_expr_is_meanless_const_value` (`eng_expr.c` 2454-2463) are
  stubs that answer 0, so every constant condition counts as false: `while(1)` and
  `for(;;)` lose their body (against `eng_rule.y` 4476-4477).
* `{}` fails an assertion; in `while(x){int y;}` the branch leads to NULL; a constant
  `if` without else looks for labels in a null statement; a label in anything but a
  block is not seen (`eng_stmt.c` 446-474) and is lost with a dead body; the label of a
  goto has no statement. Every switch is refused before it gets there.

*POP3.* `pop3_parse_integer` reports an error for every number, so `LIST n` and
`UIDL n` are taken for commands with a multi-line answer; a multi-line answer's
text is never collected when the client waits for each answer (the request it
belongs to is still on the stack) and is linked to an uninitialised list when it
does not; only the first argument of a command is kept; a text line with `+OK `
is read as a response; an unknown command's name is copied from an unset token
value; a greeting and a first command that is never answered become a pair.

*HTML.*

* A `/` or `>` where a value is expected is put back by `unput`, which flex refuses at
  the start of a buffer by ending the process: `<a b=>` cut before the `>`.
* No tag is void and `/>` closes nothing, so nesting only ends with `</`, whatever
  name follows, and an ordinary page of more than about 120 begin tags reaches
  `YYMAXDEPTH`, 256 (`html.y` 15), and is refused.
* `!prots && !prots->value` (`html.y` 2125, 2176, 2191) follows NULL for a checked tag
  that has properties but not the one looked for.
* An unquoted value ends at `/`. A NUL byte in a fragment drops the rest of it. When
  the saved text finds no memory the scanner goes on as if the document had ended.
* `xss_injection_check` answers 1 without freeing its decoder, and
  `html_lex_fast_init` forgets the scanner's buffers.

## 7. Not modelled

| part | why |
|---|---|
| declarations to symbols (`eng_sym.c` 549-1401) | every `init_declarator` aborts at this commit, so no step after it can be reached; the tables it would fill and the types it would give are modelled |
| `xss_injection_check` and its score | it drives `parse_html_stream` with one last fragment up to four times, which is modelled; its verdict is a count of tags and a prefix of a value, a matter of policy |
| POP3 lines in fragments | saved by the scanner as in `HtmlStream`; `Pop3Session` takes whole lines |
| engine life cycle | what a file does to the symbol tables is in `ScopeTable` and the file table is an `ey_hash`; the rest is a fixed sequence of creations, and of releases that are incomplete (section 6); the work functions are empty |
| creation and destruction of hash tables, registry of slabs | one thread by their own comment; the sizing arithmetic is not what it seems (section 6) and has no property to meet |
| the refusal of `&` on a variable of register storage (`eng_expr.c` 68-72) | no declaration gets as far as a storage class; the model accepts more |
| freeing and printing of types, expressions and statements | called by nothing, or at exit |

Left out for good: `apu` (vendored OpenCL samples nothing else calls),
`decoder/demo`, `sample`, `script`, `tool` (examples and editor support), the
generated parsers, the work functions of `engine.c` 71-87 and the checks of
`pop3_detect.c` (empty), messages and locations.

What would be next: `EqualIsSame` for parameters that are arrays or functions
themselves, and `HtmlStream` for values with entities.

# TLA+ models of the pranaOS AK core

This directory holds TLA+ models of the container and ownership layer in
`src/AK` of this repository. The TLC configurations in it check those models.
Each module is written from the C++ source: `PROJECT.json` maps every
definition to the lines it translates. That file also lists each component,
run, mutant, finding and hazard.

## The system

`spec.md` names five core primitives, and `src/` also holds a small GUI
application. They interact as follows.

| Part | Source | State | Operations | Interacts with |
|---|---|---|---|---|
| Vector | `src/AK/Vector.h` | `m_size`, `m_capacity`, inline buffer, `m_outline_buffer` (a kmalloc block) | constructors; move and copy assignment; `clear`, `clear_with_capacity`; `append`/`try_append`/`empend`/`unchecked_append`; `insert`, `insert_before_matching`; `prepend` of a value, a vector or an array; `append` of a vector or an array; `remove(i)`, `remove(i, n)`, `remove_*_matching`; `take*`; `ensure_capacity`, `grow_capacity`; `shrink`, `resize` | kmalloc/kfree; `TypedTransfer` (not in this repository); the URL parser's buffer |
| InlineLinkedList | `src/AK/InlineLinkedList.h` | `m_head`, `m_tail`, and each node's `m_prev`/`m_next` | `prepend`, `append`, `insert_before`, `insert_after`, `remove`, `remove_head`, `remove_tail`, `append(list)`, `clear` | nodes owned elsewhere |
| OwnPtr | `src/AK/OwnPtr.h` | `m_ptr` | move construction and assignment, `operator=(T*)`, `clear`, `leak_ptr`, `release_nonnull`, `swap`, destructor | `delete` of the pointee |
| FlyString | `src/AK/FlyString.{h,cpp}` | the global `HashTable<StringImpl*>`, each impl's fly flag and reference count | construction from a String (intern), copy and move, `did_destroy_impl` | StringImpl's destructor (not in this repository) deregisters |
| URL | `src/AK/URL.cpp` | `m_protocol`, `m_host`, `m_port` (u16), `m_path`, `m_query`, `m_fragment`, the data fields, `m_valid` | `parse` (an 8-state byte machine), the setters, `compute_validity`, `complete_url`, `to_string`, `create_with_*` | Vector<char, 256> as its accumulation buffer |
| Utf32View | `src/AK/Utf32View.h` | a view's `m_code_points`, `m_length`; an iterator's `m_ptr`, `m_length` | constructor, `substring_view`, `begin`, `end`, iterator `++`, `*`, `-`, `iterator_offset` | a buffer owned elsewhere |
| Calendar | `src/UserLand/Applications/Calendar/main.cpp` | the calendar's view month, view year and mode; the process's pledge and unveil state | the pledge/unveil prologue of `main`; the prev/next, jump-to-today, view-mode, add-event and quit actions | GUI toolkit (not in this repository) |

The following are not behaviours over time: `RefPtr`/`IntrusiveList` (exercised
only by the tests in `src/AK/Tests`; their headers are not in this repository),
`Complex`, `MappedFile`, `Random`, `Result`, `TemporaryChange`, `Badge`,
`AnyOf`, `BitCast`, `TypeCasts`, `Forward`, `Platform`, `NonnullOwnPtrVector`,
and the StringView/Utf8/NumberFormat tests.

Everything is single-threaded (spec §5). What makes the code hard is the
order of steps inside one call:
- placement new, `~T()`, kmalloc and kfree on shared storage;
- allocation failure partway through an operation;
- aliasing (self-append, self-move);
- unsigned loop bounds;
- intrusive links that must be patched in the right order;
- a global table that objects deregister from when they are destroyed.

## Modules

### Vector (`Vector.tla`, `VectorSeq.tla`, `MCVector.tla`)

`Vector.tla` models `AK::Vector<T, inline_capacity>` at the level of its
storage.

**Variables.** The variables `size`, `capacity` and `outline` are `m_size`,
`m_capacity` and `m_outline_buffer` of each vector object. The objects are the
program's vectors plus the local `Vector tmp` of `try_append(Vector&&)` and
`try_prepend(Vector&&)`. `mem` holds every slot of every inline buffer and
heap block. A slot holds one of:
- an element value;
- `Moved`, a live object whose value was moved out;
- `None`, no object.

`heap` records which blocks kmalloc has handed out, and how long each is.
`faults` records every undefined or leaking memory operation performed:
- an out-of-bounds slot;
- a read of a freed block, or a double kfree;
- a destructor run on no object, or a read of a dead slot;
- a placement new over a live object.

**Actions.** Every public mutating member function is one action. The strict
forms (`append`, `insert`, ...) are the fallible ones with the allocation
succeeding, because their VERIFY aborts otherwise.

**Helpers.** Member functions that others call (`clear`, `try_ensure_capacity`,
`try_grow_capacity`, the move constructor, `remove`, `shrink`, `take_last`)
are operators on a record of all variables. An action therefore reads as the
sequence of calls the C++ makes, and it commits the whole handler in one step.

**Allocation.** kmalloc is a choice among the free blocks and NULL (failure).
A fallible operation whose allocation fails before anything changed is a
stutter, so it is left out. `try_append(Vector&&)` is different: it has
already moved the source into `tmp`, and its failure is an action of its own.

**TypedTransfer.** `TypedTransfer<T>::move/copy` is not in this repository. It
is modelled by the contract Vector.h relies on:
- each destination slot is constructed from its source slot;
- the walk goes backwards when the ranges overlap upwards;
- the sources are left alive.

**Trivial T.** `trivial` is `Traits<T>::is_trivial()`. `Init` picks it from
the constant `Kinds` and no step changes it, so one run checks both
instantiations of `Vector<T>`. When it holds, the code's trivially-copyable
paths are taken. Slots outside `data()[0..size)` then hold stale bytes that nothing
reads as elements, so the model records them as empty.

**Refinement.** `VectorSeq.tla` is the abstract specification, in the form
of a contract per member function: each vector is a sequence, and each call
is a named sequence operation. Both modules carry a history variable
`lastOp`, which records the call just made and its arguments. Each action of
`Vector.tla` sets it, and no action reads it.

`Vector.tla` is shown to implement `VectorSeq` through the refinement mapping
`seqs <- Contents(v)`, which reads `data()[0..size)`, with `lastOp <- lastOp`.
A step must therefore do what the call it makes promises. It is not enough
that some call could have produced it. Without the label, for example, a
`remove_all_matching` that skips an element would pass, because its result
equals that of a single `remove`.

`MCVector` gives TLC a VIEW without `lastOp`, so the label adds no states.
This is sound: states that differ only in `lastOp` have the same successors,
and TLC checks the property on every transition it generates.

**Runs.**

| Run | Checks | Shows |
|---|---|---|
| `vector` (`Vector.cfg`, `Kinds = {TRUE, FALSE}`) | `TypeOK`, `NoUndefinedBehaviour`, `OwnershipExact`, `QueriesAgree`, `ImplementsVectorSeq` | The properties below hold for a non-trivial T (each element an object with a destructor) and for a trivial T, whose overlapping block copies in insert, remove and prepend are separate code paths. |
| `vector_prepend_values` (`Vector_prepend_values.cfg`) | `NoObjectOverwritten` | Violated, as expected. |

The properties the passing run checks:
- **NoUndefinedBehaviour.** No operation touches a slot outside its buffer, a
  freed block, or a dead slot, and none destroys an element twice.
- **OwnershipExact.**
  - Every allocated block is the outline buffer of exactly one vector.
  - `tmp` ends every operation empty.
  - For a non-trivial T, the live objects are exactly the first `size` slots
    of each vector's data. Nothing is leaked in a freed or abandoned buffer,
    and nothing is duplicated.
- **ImplementsVectorSeq.** Each call changes the vectors' elements exactly as
  its contract in VectorSeq says. This covers every shift, block copy,
  relocation and hand-over through `tmp`, including the aliasing cases:
  self-append and self-move.
- **QueriesAgree.** In every reachable state, the read-only queries agree
  with their sequence definitions over the elements `data()[0..size)`. The
  queries are `operator==`, `contains_slow`, `first_matching`,
  `last_matching`, `find`, `find_first_index`, `first`, `last` and
  `is_empty`. The reference definitions are declarative: the set of indices
  whose element the predicate accepts, and its least or greatest member.
  Each query is
  modelled as its loop: a RECURSIVE operator over the index, with the loop's
  own bounds. `last_matching` counts a signed `ssize_t` down from
  `size() - 1` to 0, and the model keeps that bound. The predicate ranges
  over every subset of the values.

The violation in `vector_prepend_values` is a finding.
`try_prepend(const T*, count)` moves the old elements up with
`TypedTransfer::move`, which leaves moved-from objects alive. It then
placement-news the new values over them, so their destructors never run.
TLC's shortest trace is two steps: append one element, then prepend one
value.

**Bounds.**
- Two vectors and three heap blocks. That is enough for a vector to hold an
  outline block while another is allocated during a grow, and for the two
  vectors to take part in moves, appends and prepends between them.
- Inline capacity 2 and at most 3 elements. Every operation can then cross
  from inline to outline storage. Growth from 2 to 3 elements reallocates, and
  shifts run over overlapping ranges of length 1 and 2.
- `ensure_capacity` is called with up to 7 slots, the largest block any call
  within the bounds asks for. Without this, no outline buffer would ever be
  reallocated, because every growth past the inline buffer already gets 5 or
  7 slots. With it, `try_ensure_capacity` moves an outline buffer into a new
  block and kfrees the old one.
- Two values, one of them the default value.
- Initial capacities of 0 and 2. Both the default constructor and the
  copy/initializer-list constructors are covered; the latter leave
  `m_capacity` at 0.
- Symmetry over the vectors and over the blocks. It is sound because no
  action distinguishes two vectors, or two blocks, except by their state.

There is no liveness property: every operation is a single terminating step
of a single-threaded program, and deadlock cannot occur because `Clear` is
always enabled.

**Mutants.** Each property of the passing run is shown to catch a plausible
bug in the code:
- `take_last` without its VERIFY breaks `TypeOK`;
- `remove` shifting one slot past the end breaks `NoUndefinedBehaviour`;
- a move that leaves `other.m_outline_buffer` set breaks `OwnershipExact`;
- a `remove_all_matching` that also advances past the element shifted into
  the removed slot breaks `ImplementsVectorSeq`;
- a `last_matching` loop that stops at `i > 0`, and so never looks at
  element 0, breaks `QueriesAgree`.

TLC explores 14,957 distinct states (both kinds of T) in under two
minutes.

### InlineLinkedList (`InlineLinkedList.tla`, `NodeSeq.tla`, `MCInlineLinkedList.tla`)

`InlineLinkedList.tla` models `AK::InlineLinkedList<T>` and the links each node
embeds.

**Variables.**
- `head` and `tail` are each list's `m_head` and `m_tail`.
- `prev` and `next` are every node's `m_prev` and `m_next`.
- Nodes are model values, and `NULL` is `nullptr`.
- `faults` records every failed VERIFY and every dereference of null.

Nodes start with null links, as the `InlineLinkedListNode` constructor sets
them.

**Actions.** Each public mutating member function is one action. Its body is
the C++ statement by statement, as operators on a record of all variables, so
a link read after a write sees the write. This matters where the code reads
`before_node->prev()` or `after_node->next()` after it has changed other links.
A write through null adds `NULL` to the domain of `prev` or `next`, which
breaks `TypeOK`.

**Caller guards.** The guards of the actions are the caller's side of the
contract (spec §4.3):
- an inserted node is in no list;
- an anchor or a removed node is a member of the list it is given to.

The code checks none of this. The pass run also has no caller splice a list
onto itself (`SelfSplice = FALSE`).

**Refinement.** `NodeSeq.tla` is the contract: each list is a sequence of
distinct nodes, and each call is a named sequence operation, recorded in
`lastOp` as for Vector. The refinement mapping is the list as iteration sees
it: the walk from `m_head` along `next()` (`for_each`, `size_slow`,
`contains_slow`, and a range-for over the iterator, whose `begin()` is
`m_head` and whose `++` follows `next()`). The walk stops one step after the number of nodes, so a
cycle shows up as a repeated node.

**Runs.**

| Run | Checks | Shows |
|---|---|---|
| `inline_linked_list` (`InlineLinkedList.cfg`) | `TypeOK`, `NoUndefinedBehaviour`, `WellFormed`, `ImplementsNodeSeq` | The properties below hold, for three lists and five nodes. |
| `inline_linked_list_self_append` (`InlineLinkedList_self_append.cfg`) | `NoUndefinedBehaviour` | Violated, as expected. |

The properties the passing run checks:
- **NoUndefinedBehaviour.** No VERIFY fails and nothing is read through null.
- **WellFormed.** This is the symmetric invariant of spec §4.3:
  - the walk from `m_head` reaches null after distinct nodes;
  - the last of them is `m_tail`;
  - each member's `prev` is the node before it, and it is null only for the
    head;
  - no node is in two lists.

  `ImplementsNodeSeq` cannot see the `prev` links; this property does.
- **ImplementsNodeSeq.** Each call changes the lists exactly as its NodeSeq
  contract says.

The violation in `inline_linked_list_self_append` is a finding. `l.append(l)`
on a non-empty list calls `other.clear()`, which empties `l` itself. It then
evaluates `VERIFY(!m_tail->next())` with `m_tail` null. The trace is two
steps: prepend a node, then append the list to itself. The list is left with
`m_head` null and `m_tail` set.

**Bounds.**
- Five nodes make every branch reachable with room to spare: a middle
  insertion on either side of an anchor, a removal with both neighbours
  present, and a splice of two lists of two or more nodes each.
- Three lists make splices and disjointness across lists reachable while a
  third list holds nodes of its own, so a splice that touches the wrong
  list shows up.
- Nodes cleared by `clear()` keep stale links. They are inserted again later
  in the run, so the stale-link hazard is explored.
- Symmetry over lists and nodes is sound, for the same reason as for Vector.

TLC finds 9,639 distinct states in under half a minute.

**Mutants.**
- `remove` without its `node->prev()` test writes through null and breaks
  `TypeOK`.
- `insert_before` that copies the head branch's VERIFY into the other branch
  breaks `NoUndefinedBehaviour`.
- `insert_after` without `after_node->next()->set_prev(node)` breaks
  `WellFormed` only: the forward walk stays right.
- `remove_head` taking `tail()` breaks `ImplementsNodeSeq`.

### URL parser (`URL.tla`, `MCURL.tla`)

`URL.tla` models one `AK::URL` object: how it is built by parsing text or by
`create_with_file_protocol`/`create_with_data`, how its setters change it,
and how `complete_url` and `create_with_url_or_path` build a URL from a
string.

**Variables.**
- `url` is a record of the fields: protocol, host, port (a u16), path, query,
  fragment, the data URL fields (mime type, payload, base64 flag) and `m_valid`.
- `phase` is `"parsing"` while the constructor's `parse` runs, `"completing"`
  between that parse's return and the rest of `complete_url` or
  `create_with_url_or_path`, `"aborted"` once `complete_url` has aborted the
  program, and `"idle"` otherwise.
- `completing` holds what the rest of those two functions needs: which of
  them is running, the base URL (`*this`), the string, and whether the
  second parse of `complete_url` has run.
- `st` is parse's `state` and `buf` its Vector buffer.
- `look` is a character that `peek()` returned and nothing has consumed yet.
- `budget` is the number of input characters still to come.
- `input` is the rest of a given text being parsed (NONE when the input is
  drawn freely), `orig` the URL whose `to_string()` is being parsed, and
  `parsed` whether `url` was built by parsing.

**Input.** The input is drawn one character at a time as the machine reads
it, so every input of up to `MaxLen` characters is explored.

Characters are abstracted to the classes the code tells apart:
- a run of lowercase letters is one character naming what it spells: a
  protocol the code compares with, `base64` (`"b64"`), or anything else (`"z"`);
  `"b64"` is not a protocol character, as `is_valid_protocol_character`
  accepts only `a`..`z` and the run stops at its `6`;
- `"0"` and `"8"` are the digits;
- `"c"` is any other character, and `"nul"` is the byte 0.

The code only tests whether a host, path, query, fragment, mime type or
payload is null or empty, so their text is `"null"`, `""` or `"text"`. The
port is kept as a number: `to_uint` folds the digits, and storing the result
in the u16 `m_port` takes it modulo 2^16.

**Actions.**
- Each iteration of parse's `while` loop is one action, one per state
  (`ProtocolStep` … `PayloadStep`). Its guard is the state and the character
  peeked; its branches are the code's, including every `return false`.
- `Finish` is the end-of-input finalisation (lines 197-228).
- Each setter is one action, including the `compute_validity` the setter
  calls; so are `create_with_file_protocol` and `create_with_data`.
- `Reparse` is `URL(url.to_string())` of a valid URL that was just parsed:
  `to_string` (lines 236-274) renders the fields over the same alphabet (a
  field's text as one character, the port in decimal, the port left out
  when it is the protocol's default), and the parse then reads exactly
  those characters. The two checks that consume without peeking (`//`
  after the protocol, `base64,` after `;`) are decided by the characters
  of the given text (`Checks`), and nondeterministically for drawn input.
  Only parsed URLs are re-parsed: a setter can store protocols such as
  "https" that the letter abstraction cannot spell.
- `CompleteURL(s)` is `complete_url(s)` (lines 276-333) on the URL the
  program holds, and the program goes on with the URL it returns. An
  invalid base returns `{}`. Otherwise the action starts the parse of
  `URL(string)` over the given characters. `CompleteStep` runs the rest of
  the function after that parse returns:
  - the parsed URL is returned if it is valid;
  - a `data:` base gives `{}`;
  - a `//` string is parsed again as `"{protocol}:" + string`;
  - a `/` string replaces the base's path, and a `#` string its fragment;
  - any other string replaces the base's path with the one `LexicalPath`
    builds.
  The last branch first reads `path()[path().length() - 1]`. On a null or
  empty path that read aborts the program, and the model goes to
  `"aborted"`, where nothing follows.
- `CreateWithUrlOrPath(s)` is `create_with_url_or_path(s)`. It returns the
  parsed URL if it is valid, and otherwise
  `create_with_file_protocol(LexicalPath::canonicalized_path(s))`.
  `LexicalPath` is not in the repository, and the model keeps only whether
  a path is empty. A non-empty path canonicalizes to a non-empty one; the
  model leaves the empty string's result open.
  The strings (`Refs`) are a relative path with and without a trailing `/`,
  the empty string, `/c`, `//c`, `//` (whose second parse fails), `#`, `#c`,
  and a complete URL.
**Fairness.** `WF_vars(ParseStep)` and `WF_vars(CompleteStep)`: while
parse runs, the loop keeps taking steps, and once the parse returns, the
function that called it continues. That is all sequential code needs.
Deadlock is not checked: after `complete_url` aborts, nothing follows.

**Runs.**

| Run | Checks | Shows |
|---|---|---|
| `url` (`URL.cfg`) | `TypeOK`, `ValidityPreserved`, `CompleteResolvesAgainstBase`, `ParseTerminates` | These hold for every input up to 11 characters, every setter call, `create_with_data` with an empty and a non-empty mime type, and every `complete_url` string. |
| `url_failed_parse` (`URL_failed_parse.cfg`) | `FailedParseLeavesDefaults` | Violated: a failed parse keeps the protocol it read. |
| `url_round_trip` (`URL_round_trip.cfg`) | `RoundTrip` | Violated: `to_string()` of a parsed URL parses to a different URL. |
| `url_complete_abort` (`URL_complete_abort.cfg`) | `CompleteNeverAborts` | Violated: `complete_url` aborts on a valid URL with a null path. |

The properties:
- **TypeOK.** This includes the port staying in 0..65535 after the u16 store.
  An 11-character input holds a 5-digit port that wraps (`88888` becomes 23352).
- **ValidityPreserved.** Spec §3 says validity is recomputed after every
  change: whenever `m_valid` is set, `compute_validity` holds of the fields
  (`ValidityDerived`). That state predicate is false after the single call
  `create_with_data("", ...)` (see below). The action property the run
  checks is that every other step keeps it: from a URL whose `m_valid`
  agrees with its fields, no parse step, finalisation, setter,
  `complete_url` or `create_with_file_protocol` yields a URL marked valid
  that `compute_validity` rejects. `create_with_data` is excepted by name,
  as the step whose result is a `create_with_data` URL.
- **ParseTerminates.** Every parse returns. So does every `complete_url`
  and `create_with_url_or_path`, unless `complete_url` aborts. This is a
  liveness property. It fails if a branch changes state without consuming
  or re-peeking a character.
- **CompleteResolvesAgainstBase.** `complete_url` of a valid URL returns a
  valid URL, or `{}` when the base is a `data:` URL and the string is not a
  URL by itself. A result not parsed from the string keeps the base's
  protocol, host, port and validity. Up to three parses and four
  fall-through branches lie between the base and the result, and the
  failed parses' URL must not leak into it.
- **FailedParseLeavesDefaults.** After a failed parse every field is null or
  empty (spec §7).
- **RoundTrip.** Parsing `to_string()` of a valid parsed URL gives the same
  fields (spec §7: addresses serialize back, the port omitted exactly when
  it is the default).

The violations are findings:
- `parse` stores `m_protocol`, `m_host` and `m_port` as it reads them and
  returns false later (URL.cpp:67). The trace is "z:" followed by a character
  that is not `/`.
- The round trip fails for "http://c:": the input ends in the port state
  with no digits, the end-of-input code sets the path only for InHostname,
  and the URL is valid with port 80 and a null path; `to_string()` gives
  "http://c", which parses with path "/" (URL.cpp:214). With that case
  patched in a scratch copy, TLC reports the next one: `to_string()` of an
  `about:` URL stops after the path and drops the query "about:/?c" parsed
  (URL.cpp:241).

One more disagreement with spec §3 takes a single call, and no run is spent
on it: `create_with_data` sets `m_valid = true` whatever the mime type
(URL.cpp:449). A `data:` URL with an empty mime type is therefore marked
valid, although `compute_validity` rejects it. No code under `src/` calls
`create_with_data`. The `url` run includes the empty mime type in
`DataMimes`. `ValidityDerived` as an invariant fails after that one step,
and `ValidityPreserved` names that step as its only exception.

`url_complete_abort` checks `CompleteNeverAborts`: `complete_url` of a valid
URL returns whatever the string is. TLC finds the program aborting, and
this is a bug in the code. The relative branch reads
`path()[path().length() - 1]` without checking the path (URL.cpp:310). A URL
can be valid with a null path: `compute_validity` asks only `about:` and
`file:` URLs for a path. TLC's trace is `set_protocol("other")`,
`set_host(...)`, then `complete_url("")`. Parsing "http://c:" and then
calling `complete_url("c")` aborts the same way.

**Bounds.** `MaxLen = 11` is the shortest input with a protocol, `://`, and a
5-digit port. TLC's integers are 32-bit, so `MaxLen` is at most 15. A u32
overflow in `to_uint` would need 10 digits after the prefix, so the model has
no overflow branch. The run explores 285,727 states in under a minute.
`url_round_trip` and `url_complete_abort` use inputs of up to 6 characters,
enough for "http://c:".

**Mutants.**
- Storing the port without the u16 wrap breaks `TypeOK`.
- `set_host` that does not recompute validity breaks `ValidityPreserved`.
- InHostname's file case without `state = State::InPath` stays in InHostname
  on the same unconsumed '/', and breaks `ParseTerminates`.
- `complete_url`'s `#` branch without `url = *this`, which sets the fragment
  on the URL that failed to parse, breaks `CompleteResolvesAgainstBase`.

### OwnPtr (`OwnPtr.tla`, `Ownership.tla`, `MCOwnPtr.tla`)

`OwnPtr.tla` models `AK::OwnPtr<T>` handles, and the program that hands them
objects.

**Variables.**
- `m_ptr` is each handle's pointer.
- `inScope` is the handles whose lifetime has begun and not ended.
- `heap` is the objects allocated and not yet deleted.
- `raw` is the objects the program holds by raw pointer, or by a
  `NonnullOwnPtr`. `NonnullOwnPtr.h` is not in this repository.
- `faults` records a delete of an object that is already freed, and a read
  through a handle of an object that is freed.

**Actions.** There is one action for each of:
- the constructors;
- the destructor;
- the move assignment;
- the `NonnullOwnPtr` assignment;
- `operator=(T*)`;
- `operator=(nullptr)`/`clear`;
- `leak_ptr`/`release_nonnull`;
- `swap`;
- `operator->`/`operator*` (`Use`), which reads the object.

The move assignment is the code's three steps in order: construct a temporary
from `other`, swap, destroy the temporary. The program's `new` and its
`delete` of an object it holds raw are actions too.

**Caller guards.** The program keeps the contract of spec §5:
- it never releases or dereferences a null handle (the VERIFYs abort);
- it never gives a handle a pointer that another owner holds.

It may give a handle back its own pointer (`h = h.ptr()`), which the code
handles.

**Refinement.** `Ownership.tla` is the contract. Each object's owner is a
handle in scope, the program (`"raw"`), or no one (`"free"`). Each member
function moves ownership in a named way. The mapping computes each object's
owner from `heap`, `raw` and `m_ptr`. An object that is allocated but owned
by no one maps to `"lost"`, which no Ownership state has, so a leak breaks
the refinement. Ownership's `Use` names the object used, so the refinement
also checks that a handle only ever reaches the object it owns.

**Run** `own_ptr` (`OwnPtr.cfg`): three handles and three objects, 286 states.
- **ExclusiveOwnership.** Every allocated object has exactly one owner, no
  handle in scope points at freed memory, and nothing is deleted twice.
- **ImplementsOwnership.** Each call moves ownership as its contract says. A
  move to self (`h = move(h)`) and a reset to the handle's own pointer keep
  the object.

Symmetry is not used: with it, only 59 classes of states remain.

**Mutants.**
- `operator=(T*)` without the `m_ptr != ptr` test deletes the object
  `h = h.ptr()` keeps, which breaks ExclusiveOwnership.
- A move assignment written as `clear(); m_ptr = other.leak_ptr();` deletes
  the object on a self-move. Ownership stays exclusive, so only the
  refinement catches it.

### FlyString (`FlyString.tla`, `MCFlyString.tla`)

`FlyString.tla` models the global intern table `fly_impls()` and the
StringImpls it points to.

**Variables.**
- `rc`, `content` and `fly` are each impl's reference count, text and
  `is_fly` flag.
- `table` is the intern table.
- `str` and `fs` are the program's String and FlyString variables.
- Texts are short character sequences (`"a"`, `"A"`, `"ab"`), so that one
  text can be a prefix of another and `to_lowercase` can map one text onto
  another.

**Taken from the spec.** StringImpl, RefPtr and String are not in this
repository. Their reference counting, and StringImpl's destructor calling
`did_destroy_impl` for a fly impl, are modelled from spec §3, §4.2 and §6.

**Actions.** Each action is a composition, in the code's order, of:
- the interning constructor (lines 33-50);
- the delegating constructors from a C string or StringView, whose temporary
  String is destroyed before the result is moved into its variable;
- `to_lowercase`;
- FlyString's copy, move and destruction;
- String creation, copy and drop.

**Run** `fly_string` (`FlyString.cfg`): three impls, two Strings and two
FlyStrings, with symmetry over each; 694 states.
- **TableConsistent.** The table holds exactly the live fly impls, one per
  text, and no VERIFY fails. An impl whose last reference goes therefore
  leaves no dangling entry.
- **Canonical.** FlyString's `operator==` compares pointers, and it agrees
  with text equality however the FlyStrings were made.
- **EqualityAgrees.** The comparison with a String agrees with text
  equality, and so does `is_one_of` (the RECURSIVE `is_one_of` walks the
  variadic pack, here a FlyString then a String). `operator==(const char*)`
  is a `strcmp` of the impl's characters; a C string in the model is its
  text, so that comparison would agree by definition and is not modelled.

**Mutants.**
- A `did_destroy_impl` that removes nothing breaks TableConsistent.
- An interning constructor that keeps the String's own impl when the text is
  already in the table breaks Canonical.
- `operator==(const String&)` without its length test breaks EqualityAgrees:
  "a" then equals "ab".

### Calendar navigation (`Calendar.tla`, `CalendarCursor.tla`, `MCCalendar.tla`)

`Calendar.tla` models the Calendar application
(`src/UserLand/Applications/Calendar/main.cpp`): `main`'s sandboxing
prologue, then the toolbar and menu handlers the event loop runs.

**Variables.**
- `view_year` and `view_month` are the widget's view.
- `mode` is month or year view.
- `checked` is the action of the exclusive Month/Year group that is checked.
- `phase` is `"start"`, `"running"` (the event loop), `"exited"` (main
  returned) or `"killed"` (by the kernel, for a call outside the pledge).
- `promises`, `unveiled` and `locked` are the process's pledge and unveil
  state; `icons` is whether the toolbar icons could be read from `/res`.
- `dialog` is whether the modal AddEventDialog is open.

**The prologue** (`Startup`) is one action: `main`'s calls up to the event
loop, folded in order over `MainSteps` by the RECURSIVE `RunSteps`. The
calls are `pledge` (8 promises), `GUI::Application::construct`, `pledge`
(5 promises), `unveil("/res", "r")`, `unveil(nullptr, nullptr)` and the
icon loads. A failed pledge or unveil returns 1. The kernel is not in this
repository, so its rules are modelled from its documented behaviour:
- pledge fails when it would add a promise;
- connecting to the window server needs `unix`, and reading a file needs
  `rpath`; a call without its promise kills the process;
- unveil fails once locked, or when the path does not exist (whether `/res`
  exists is chosen nondeterministically);
- reading a path that is not unveiled fails, which leaves the icon empty.

**The event loop** delivers input to the main window only while it runs
and no modal dialog is open (`MainWindowInput`). Add Event (toolbar, File
menu, tile double-click) opens the dialog, and the user closes it. Quit
ends the loop.

**GUI::Calendar and GUI::Action** are LibGUI classes, not in this repository.
They are modelled from how main.cpp uses them:
- `update_tiles(y, m)` sets the view.
- `toggle_mode` switches the mode.
- A click on a month tile in year view shows that month in month view, then
  calls `on_month_click`.
- A checkable action of an exclusive group is checked, and its siblings are
  unchecked, before its callback runs.

**The year** is `unsigned`, so its arithmetic is taken modulo
`2^YearBits`. The code's width is 32 bits. TLC's integers are 32-bit signed,
so the MC module uses 4 bits: the wrap at year 0 is then reachable, and every
step of the code's arithmetic is the same.

**The clock.** `Nows` are the dates `Core::DateTime::now()` can return; the
MC module's clock reads January of year 1, either side of the new year
between years 1 and 2, or December of the largest year. Jump to Today
(main.cpp:88) calls `now()` once for `year()` and once for `month()`, in an
order C++ leaves unspecified. `ClockReads` are two reads moments apart: the
same date, or dates on either side of one month boundary. The view takes the
year of one and the month of the other.

**Actions.** `Startup`, `PrevDate`, `NextDate`, `JumpToday`, `ViewMonth`,
`ViewYear`, `MonthClick`, `AddEvent`, `CloseDialog` and `Quit`. Each is the
whole handler.

**Properties** (run `calendar`, `Calendar.cfg`; 1,160 states, every month in
both modes, with and without the dialog open). `CHECK_DEADLOCK FALSE`: the
process really stops, after Quit or a failed prologue.
- **TypeOK.**
- **ActionMatchesMode.** The checked action always names the current mode.
- **Sandboxed.** The kernel never kills the process. While the event loop
  runs, the process holds only the second pledge's five promises, sees only
  `/res`, read-only, with unveil locked, and the toolbar has its icons.
- **ImplementsCalendarCursor.** The view refines `CalendarCursor`, a cursor on
  the cycle of 12 * 2^YearBits months. Back and forward move one month in
  month view and twelve in year view, including across the unsigned wrap.
  Its "today" moves to one of `Todays`: the months Jump to Today can show,
  which the mapping takes from `ClockReads`. These are not only the clock's
  months. With `Todays` the clock's months alone, TLC reports Jump to Today
  on 31 December of year 1 showing December of year 2: the year was read
  after midnight and the month before. This disagreement is listed as a
  hazard at main.cpp:88. It needs a click at the stroke of midnight on New
  Year's Eve, and no run is spent on it.

**Mutants.**
- A year step without the unsigned wrap breaks TypeOK.
- An `on_month_click` that does not check "Month View" breaks
  ActionMatchesMode.
- `next` from December that keeps the year breaks the refinement.
- The second pledge moved before `GUI::Application::construct` gets the
  process killed when it connects to the window server: Sandboxed breaks.

**Fairness.** None: every step is a user's click, and nothing has to happen.

### Utf32View (`Utf32View.tla`, `MCUtf32View.tla`)

`Utf32View.tla` models `src/AK/Utf32View.h`: views over one buffer of `N`
code points and the iterators taken from them. A pointer is an address:
nullptr is 0, the buffer is at `1..N`, and the code point at address `a` is
`100 + a`.

**Variables.**
- `view[v]` is a view's `m_code_points` and `m_length`.
- `iter[i]` is an iterator's `m_ptr` and `m_length`. A default-constructed
  iterator has nullptr and -1.
- Ghost state: `ghost[v]` is the text view `v` stands for, and each iterator
  keeps the view it came from (`src`), that view's text and the number of
  steps it has taken (`k`).
- `faults` collects the VERIFYs that fail and the wrong answers.

**Actions.** `ViewOfBuffer` (the constructor), `Substring`
(`substring_view`, of any view, so substrings of substrings), `Begin`, `End`,
`Increment` (`++`), `Deref` (`*`), `Difference` (`operator-`) and
`IteratorOffset`. The program keeps the contract the VERIFYs state: it takes
substrings within the view, and it uses an iterator only while it differs
from its view's `end()`. Those conditions are the guards.

**Properties** (run `utf32_view`, `Utf32View.cfg`; N = 3, two views, two
iterators; 16,698 states):
- **TypeOK.**
- **NoVerifyFailure.** A program that keeps the contract never trips a
  VERIFY. This includes the empty substring at the view's end, which is
  legal only because of the early return for length 0.
- **IterationFaithful.** Every view reads the text it stands for. A loop from
  `begin()` to `end()` reads that text in order and never leaves the buffer.
  An iterator is `done()` exactly when it equals its view's `end()`. And
  `iterator_offset` and `operator-` count the code points passed.

**Mutants.**
- An `end()` that keeps `m_length` never compares equal to an iterator that
  reached it, so `++` runs past the end: TypeOK breaks.
- `substring_view` without its early return breaks NoVerifyFailure.
- A `++` that moves `m_ptr` but not `m_length` breaks IterationFaithful.

**Fairness.** None: the header has no loop of its own.

## Plan

The modules, most important behaviour first:

1. **Vector** and its refinement of VectorSeq. Done.
2. **InlineLinkedList** and its refinement of NodeSeq. Done.
   - Nodes are model values; each has `prev` and `next`, and the list holds
     `head` and `tail`.
   - Every member function is one action.
   - An abstract `NodeSeq` specification is implemented through a RECURSIVE
     walk from `head` along `next`.
   - Properties: prev/next symmetry and the head/tail conditions of spec §4.3.
   - Hazards: `append(other)` with `other == this`, re-insertion of a member,
     and stale links after `clear`.
3. **URL parser**. Done, with `to_string` and the round trip, `complete_url`
   and `create_with_url_or_path`; `basename` remains.
   - Input is a sequence over an abstract alphabet of character classes:
     lowercase letter, digit, `:`, `/`, `?`, `#`, `;`, `,`, and other.
   - The parse loop is one action per iteration, and the finalisation is one
     action.
   - Validity is checked against a reference definition of `compute_validity`.
   - The port is a number taken modulo 2^16.
4. **FlyString** with a StringImpl reference count. Done. The destruction hook comes
   from the spec, because StringImpl is not in this repository. The
   properties are interning uniqueness and no stale table entry.
5. **OwnPtr**: handles and heap objects. Done, with a refinement of `Ownership`. The property is that each object is
   deleted at most once and owned by at most one handle.
6. **RefPtr/RefCounted and IntrusiveList with reference counts**, from the spec
   and the tests (spec-modelled). They can be composed with InlineLinkedList.
7. **Calendar navigation**: `(view_month, view_year)` with unsigned
   arithmetic on the year. Done, with a refinement of `CalendarCursor`, and
   with `main`'s pledge/unveil prologue, the modal add-event dialog and quit.
8. **Utf32View**: views, substrings and iterators over one buffer. Done.

Item 6 is not done: the RefPtr, RefCounted and IntrusiveList headers are not
in this repository, so a model would rest on the spec and the tests alone.

## Not modelled, and why

- **Formatting and reads.** Character data, `basename` and the read-only
  accessors are left out, because no property depends on them. `to_string`
  is modelled over the abstract alphabet only: the double urldecode of a
  data payload with a `%25` escape is below that abstraction.
- **LexicalPath inside `complete_url` and `create_with_url_or_path`.**
  LexicalPath is not in this repository, so the paths they build keep only
  whether they are empty. The trailing-slash rules that TestURL checks
  (`complete_url("c/")` against a base path with and without a trailing `/`)
  are below that abstraction.
- **Result, Complex, Forward and the other header helpers.** `Result` is a
  pair of Optionals whose accessors abort when empty. Its only change of
  state is `release_value`/`release_error` (or a move) emptying one of them,
  after which `is_error()` is false and `value()` aborts. One call reaches
  that, so a unit test does too; there is no interleaving or sequence for a
  model checker to add. `TemporaryChange` restores one variable in its
  destructor. Complex is arithmetic on floating-point numbers, which TLC
  cannot represent. Forward.h only declares names.
- **Very large counts.** `remove(i, n)`'s size_t wrap-around needs counts
  near 2^64, and so does the overflow VERIFY of `Utf32View::substring_view`.
- **The GUI toolkit** called by Calendar (windows, menus, dialogs) is not in
  this repository.

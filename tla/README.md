# Formal models of descripten

descripten compiles ECMAScript 5 to native code. A program goes through the
lexer and parser, the analyzer and the IR compiler, a register allocator and one
of the code generators (C, C++ or IR text); the result is linked with a run-time
that holds objects, environments, contexts, the call stack and the standard
library. Everything runs on one thread. What makes it hard to test is not
concurrency but *sequences*: hidden classes shared by unrelated objects, inline
caches whose entries outlive what they were made for, storage that changes its
representation in mid-life, variables that a closure or `eval` still reaches when
their frame is gone, a stack of contexts that compiled code must leave exactly as
it found it on every way out of a statement, registers reused while a value is
still needed, operators that call back into the program in the middle.

Contents

1. [Inventory](#1-inventory)
2. [Modules](#2-modules)
3. [Runs, bounds and what they show](#3-runs-bounds-and-what-they-show)
4. [Proofs](#4-proofs)
5. [Findings](#5-findings)
6. [What is abstracted, and what is left out](#6-what-is-abstracted-and-what-is-left-out)
7. [Plan](#7-plan)

## 1. Inventory

| Component | State | Operations | Used by / interacts through | What is hard | What must hold |
| --- | --- | --- | --- | --- | --- |
| Shapes (`runtime/shape.*`) | a tree of immutable shapes; per shape counted transitions from a key to a child | `add`, `lookup`, `remove`, `remove_transition` | shared by all property maps; a shape's address is the id that inline caches compare | a removal re-adds the shapes below the removed one, landing on shapes of other objects; a transition may lead to a shape with another slot | equal ids mean equal layout; an edge in use is never erased |
| Property maps (`runtime/map.*`) | last shape, slot array, stack of free slots, hash table once deep | `add`, `lookup`, `remove`, `keys` | objects, the property and context caches | slots are reused after removals; two ways to look up; the hash table is made once and never dropped | slots partitioned, both lookups agree, each map is an ordered dictionary |
| Indexed storage (`runtime/property_array.*`, `property_storage.hh`) | a vector with holes and their count, or an ordered map | `set`, `get`, `remove`, `count`, iteration | array-like objects | the switch from the vector to the map in the middle of a `set` | the count is exact, growth is dense, the switch is invisible |
| Property cache (`runtime/operation.cc` 870-1040) | per cache id: the ids of the shapes passed, key, slot | `esa_prp_get`, `_put`, `_del` | compiled code passes the cache id; wraps around | stale entries; one id for many accesses; bounded hierarchy | a hit is what the full lookup would find |
| Context cache (`runtime/operation.cc` 240-460) | per cache id: one shape id, key, slot | `esa_ctx_get`, `_put`, `_del` | object environments: the global object and `with` objects | made for one object, used for another | a hit is what the full lookup would find |
| Objects (`runtime/object.*`, `property.hh`) | property map, indexed storage, prototype, class, extensible flag | `[[Get]]`, `[[Put]]`, `[[Delete]]`, `[[DefineOwnProperty]]` | everything | attributes, accessors that run code in the middle, array length, parameters mapped by arguments objects | ECMA-262 8.12.9; array length above all indices; mapped arguments follow their parameters |
| Execution contexts (`runtime/context.*`) | stack of contexts: environments, pending exception, strictness | push global / eval / call / `with` / `catch`, pop, unwind | compiled code through `esa_ctx_enter_*`, `esa_ctx_leave` and `esa_ex_*` | contexts left open or popped twice on `break`, `return` and exceptions; a pending exception handed down | depth balanced on every exit; the exception that is pending is the one that completes the statement |
| Environments (`runtime/environment.*`) | bindings, or a binding object; outer | create, get, set, delete, link | contexts, closures | bindings linked to stack cells and copied when the frame dies | a closure and its function see one variable |
| Call stack (`runtime/frame.*`) | vector of values, frames as pointers into it | push frame, push arguments, pop | calls, native functions | pointers into a growing vector; destructors that cut back | frames nest, no live frame dangles |
| Calls and functions (`runtime/operation.cc` 1042-1330, `object.cc`) | code, scope, `this`, arguments | call, construct, bind | contexts, call stack | errors half-way through a call | as above, per call |
| Property enumeration (`operation.cc` 49-81) | list of keys and a position | begin, next | `for`-`in` | the object changes during the loop | each key at most once, deleted keys not visited |
| IR compiler (`ir/compiler.*`, `ir/template.*`) | stack of scopes, epilogues, exception actions, current block, pool of temporaries | one `parse_*` per statement | emits IR that drives contexts and exceptions | `finally` blocks inflated at each exit from a `try` | compiled completions are ECMAScript's |
| Analyzer (`ir/analyzer.*`) | lexical scopes with their variables | visits the syntax tree | IR compiler: where a variable lives | a variable kept in a register while a closure or `eval` can reach it | every reader finds the one copy |
| Register allocator (`compiler/allocator.*`) | live intervals, free and used registers | `run` | code generators | intervals in the order of the text, control flow in another | values live at once have different registers |
| Code generators (`compiler/*generator*`) | text, counters of cache ids | one visit per IR instruction | the run-time's operations | blocks laid out, jumps left out, branches negated | one instruction, one statement |
| Lexer and parser (`parser/`) | buffer of the stream with its put-back limit; look-ahead; targets, labels, strictness | `next`, `push`; recursive descent | syntax tree for analyzer and eval | semicolon insertion, labels, regular expressions against division, characters put back across the front of the buffer | the tree of the grammar, or an error |
| Eval (`runtime/eval.*`) | the syntax tree and completions | evaluates a tree | contexts, environments | a second implementation of every statement and expression | agrees with compiled code |
| Strings and keys (`runtime/string*`, `property_key.*`, `unique.*`) | immutable texts; table of interned strings; ids from both ends of a range | search, compare, map case, trim; intern, look up | keys of maps and shapes, library | ends of the text; a text that is an index | each text is one key |
| Values and conversions (`runtime/value.*`, `conversion.cc`, `native.hh`, `common/conversion.cc`, `dtoa.c`) | tagged 64-bit words | conversions, comparisons, the operators `esa_u_*`, `esa_b_*`, `esa_c_*` | everything | objects are converted by calling their methods, which throw or return objects; the boundaries of words; not-a-number and both zeros | results, and calls in the order, of clauses 9 and 11 |
| Standard library (`runtime/standard.cc`, `algorithm.cc`, `json.cc`, `uri.cc`, `date.cc`) | `lastIndex` of regular expressions; else none | some 200 functions | objects, calls, conversions | elements moved in place, loops over what changes, order of conversions, byte offsets as places, codings at the boundaries of sequences | clause 15 |
| Common library (`common/`) | | containers, Unicode, reading numbers | everything | lengths of sequences, surrogates | the codings are inverse to one another |
| Collector patches, tools, tests | | | | | |

The complete list with sources is in `PROJECT.json` under "components"; the
behaviours that are hard to test, each at its line, are there under "hazards".

## 2. Modules

```
OrderedDict <- - - EsMap ------- PropertyCache -- ContextCache
 (abstract)   refines
IndexTable  <- - - PropertyArray
 (abstract)   refines
EsObjects   <- - - Properties -- ArrayFunctions -- Objects
 (ECMA-262)   refines

CallFrames ------+
ScopeAnalysis ---+-- Scopes

Statements  <- - - CompiledStatements ---+-- GeneratedCode
 (ECMA-262)  conforms          Contexts -+
            <- - - - - - - - - - - - - - +-- Evaluator
Expressions <- - - CompiledExpressions ----+-- GeneratedExpressions
 (ECMA-262)  conforms  EvaluatedExpressions +

Grammar     <- - - Lexer ---+-- Values -- TextCodings -- Library
 (ECMA-262)  agrees         +-- Parser
SourceStream
```

| Module | Models | State and code |
| --- | --- | --- |
| `EsMap` | `shape.cc`, `map.cc` | `shapes`, `transitions` are the shape tree (`EsShape::parent_`, `transitions_`), `last`, `props`, `free`, `hashed`, `slotOf` are the members of each `EsMap`. `Add` is `EsMap::add` with everything it calls; `RemoveBegin`, `RemoveClone`, `RemoveEnd` are `EsMap::remove` with one step for each round of the loop in `EsShape::remove`; `SetValue` is a write through the reference a lookup returned. |
| `OrderedDict` | what a map promises | a sequence of keys with values per object; no shapes or slots |
| `PropertyCache` | `EsObject::get_property`, `esa_prp_get`, `esa_prp_put`, `esa_prp_del` | `cache` is `property_cache`; a get or put is one action for a hit and one for each kind of miss; the chain of prototypes is fixed when an object is made |
| `ContextCache` | `esa_ctx_get`, `esa_ctx_put` and the `ctx_cached_*` helpers | `context_cache`; it works beside the property cache on the same maps; a scope is the list of binding objects a name is looked up in |
| `PropertyArray` | `property_array.cc`, `property_storage.hh` | `compact`, `cells`, `holes`, `sparse` are the members of the two storages; `set` is one action for each of its three ways |
| `IndexTable` | what an indexed storage promises | a function from indices to properties |
| `Statements` | ECMA-262 5.1, clause 12 | the syntax tree, and what executing it must do for a given sequence of outcomes of its expressions: the reference of the next three |
| `Contexts` | `context.cc`, the `esa_ctx_*` and `esa_ex_*` functions of `operation.cc` | a context is its kind, what it binds and its pending exception |
| `CompiledStatements` | `ir/compiler.cc` 175-293 and 2364-3146, `ir/template.cc` | `Compile` has one operator for each `parse_*_stmt`; the record `c` is the function under construction, `e` the stacks `scopes_`, `exception_actions_` and the flag `is_in_epilogue_`; `Unroll` is the three `unroll_for_*` with the template blocks they inflate |
| `GeneratedCode` | a call of the code made | one action for each kind of instruction; `ctxs` is `EsContextStack`, `result` the slot below the value pointer, `flags` and `saved` the temporaries |
| `Evaluator` | `runtime/eval.cc` | `Eval*` is one `parse_*_stmt` each and returns a `Completion` together with the stack of contexts; a step supplies the outcome of the next expression |
| `Properties` | `object.cc` 96-560 and 1083-1309, `property.hh` | an object is its class, prototype, extensible flag and properties with their attributes; `DefineOwn`, `UpdateOwn`, `Put`, `RemoveOwn`, with the array's own versions, each with all it calls |
| `EsObjects` | ECMA-262, 8.12 and 15.4.5 | the same operations as the standard's tables, what `Properties` is to implement |
| `ArrayFunctions` | `standard.cc` 530-1850, `algorithm.cc` 272-352 | each function is a fold over the `[[Get]]`, `[[Put]]` and `[[Delete]]` the code calls, stopping at the first that is refused |
| `Objects` | a program that uses them; `operation.cc` 49-81 | an action per operation, and loops: `for`-`in` over the keys listed at its start, `forEach` and the like over an index, the body being any operations in between |
| `CallFrames` | `frame.cc`, `frame.hh` | `stack`, `frames`: each frame its place, padding, locals, and what the guards still hold |
| `ScopeAnalysis` | `ir/analyzer.cc`, and `ir/compiler.cc` where it makes places of variables | `Analyze` visits the identifiers in the order of the program; `Compile` turns what it found into places, references, the array of captured variables and the declarations to make |
| `Scopes` | calls of compiled functions: `environment.cc`, `operation.cc`, `object.cc` 848-982, `eval.cc` where it declares | on the stack of `CallFrames`: environments with bindings that are values or links to places, arrays of captured variables, arguments objects with their map; beside it what the standard says each identifier has |
| `Expressions` | ECMA-262, clause 11 | the value of an expression for given outcomes of its calls, lookups and conversions, as the list of these |
| `CompiledExpressions` | `ir/compiler.cc` 295-2362, `ir/template.cc`, `ir/ir.cc` | one operator per `parse_*_expr`; handles of values with their allocators, temporaries, registers, blocks |
| `GeneratedExpressions` | `compiler/allocator.cc`, `compiler/c_generator.cc`, `ir/optimizer.cc` | the optimizer, the intervals and registers and the order of the blocks make a function of a compiled expression; its statements run one per step on registers and the frame |
| `EvaluatedExpressions` | `runtime/eval.cc`, expressions | a recursion over the tree that carries references; one to a property is made of a converted base and key |
| `Parser` | `parser/ast.hh`, `parser/parser.cc` | the nodes of the tree; the parser is the list of tokens that is left, the targets, the strictness; one operator per `parse_*` |
| `Lexer` | `parser/lexer.cc`, `parser/token.hh`, `common/lexical.*` | from characters to tokens with the line terminators before them |
| `Grammar` | ECMA-262, clauses 7 and 11 to 14 | phrases with their text and their tree, and the lexical grammar as sets of texts |
| `SourceStream` | `parser/stream.hh` | `buf`, `cur`, `end`, `limit`, `pos` of `BufferedUnicodeStream` over any text |
| `Values` | `value.*`, `conversion.cc`, `native.hh`, the operators of `operation.cc`, `algorithm.cc` 38-232, what `common/dtoa.c` returns | a value is a tagged record; an outcome is a value or the kind of an exception, with the methods called on the way |
| `TextCodings` | `unicode.cc`, `uri.cc`, `json.cc`, `algorithm.cc` 354-807 | UTF-8 and UTF-16, escapes of URIs, `JSON.parse` with its reviver, `JSON.stringify` |
| `Library` | `standard.cc`: global functions, `Boolean`, `Number`, `Math`, `String`, `RegExp` (3977-5140); `string.cc`, `EsRegExp` in `object.cc`, descriptors in `conversion.cc` | one operator per function; a regular expression is a list of alternatives that PCRE finds |
| `MCPrograms` | | the function bodies of the runs of statements: a jump nested in statements |
| `MCText` | ECMA-262, clauses 8, 9, 11 and 15 | the reference definitions of conversions, operators and the library, the inputs they are compared on, and the programs and texts for parser and lexer |
| `MC*` | | model values, prototype chains, symmetry and programs for TLC |
| `*Proofs` | | theorems, see section 4 |

An expression of a program is an event: it records its name and the `with` and
`catch` environments it can see, and has any outcome that its place allows (a
value, an exception, true or false for a test, null for the object of a
`for`-`in`). Compiled code and evaluator are both compared with `Statements` on
this record: which expressions are evaluated, in which order, in which
environments, and what the call returns or throws. The generated code is a state
machine, because its steps are instructions; the evaluator is a recursion over
the tree in the code and one in the model, and its machine only feeds it outcomes.

Inside an expression the events are its own calls, lookups, stores and
conversions, and what they return is symbolic: the n-th event has the n-th value.
So a value that is used twice, lost or overwritten shows as another event of the
reference, whatever the operators compute. What they compute is in `Values`.

`Lexer`, `Parser`, `Values` and the library are functions of their input. They
are compared with references written from the standard, in another way where that
is possible: a phrase of `Grammar` has its tree by construction and the parser has
to find it from the text; the longest token is found among all of the lexical
grammar; the places a text is found at are a set of numbers and not a loop. An
object among the operands is what its methods `toString` and `valueOf` do
(missing, throwing, returning a primitive or an object), and each call of one is
part of the outcome.

A shape is a number and `shapes[s]` holds the nodes from the root to `s`: this is
what every walk of the C++ code along `parent_` meets. Shapes are numbered in the
order of their allocation and never freed; in the program a shape's id is its
address, and the caches are static arrays that the collector scans
(a shape they name is not freed and its address is not given to another).
Slots and indices count from 1, so that 0 can be "none".

An operation of the program that cannot be interrupted is one action. The one
exception is the removal of a property, which is shown shape by shape, so that
the invariants also speak of the states inside the loop of `EsShape::remove`.
No other operation starts meanwhile, which the guard `removal = <<>>` says.

## 3. Runs, bounds and what they show

| Run | Question | Instance |
| --- | --- | --- |
| `map_sharing` | do slots stay partitioned, hash tables right and edges counted when two objects share shapes, and is each map an ordered dictionary of its own? | 2 objects, 3 keys, 2 values, 6 shapes; 745,572 states |
| `caches` | is each hit of the property cache, and each hit of the context cache for the global object's own names, what the full lookup would find? | a chain of 3 objects of which the middle one is global, 2 keys, 1 entry of each cache for all; 710,442 states |
| `ctx_cache` | is a hit of the context cache always an own property? (no, see section 5) | the same |
| `property_array` | are counts exact, growth dense and the switch invisible? | indices 1 to 6, 2 values |
| `generated_code` | does compiled code do what the standard says and leave the contexts balanced? | 45,426 functions: 8 jumps in up to 3 of 17 kinds of statements, 6 expressions per call |
| `generated_code_leak` | is a context left on every way out? (no, see section 5) | the smallest functions with a context around a `finally` |
| `evaluator` | does the evaluator do what the standard says? | codes of 2 levels of all 17 kinds, 3 of the 9 that touch contexts or jumps; 6 expressions |
| `scopes` | does every identifier have the value the standard gives it, wherever the compiler put the variable, do frames nest, and are variables apart? | 42 programs of 3 functions; 3 frames, 4 environments, 5 captured values, 1 argument; 268,796 states |
| `scopes_outlived` | the same for code given to `eval` when the frame is gone (no, see section 5) | one program |
| `objects` | do the operations on objects and arrays do what ECMAScript says, but for a `writable` that is not heard (section 5), and do loops end having visited what stayed? | 8 worlds of two objects, arrays to length 3; 168,862 states |
| `expressions` | are values, temporaries and registers right in compiled expressions, and does the evaluator agree? | 10,521 functions, each with every outcome of its events; 285,960 states |
| `text` | are lexer, parser and stream right, and conversions, operators and the library? | see below; 155,460 states, almost all of them inputs |

The inputs of `text`: 23,124 programs with their trees and 4,899 token sequences
that are no program; some 17,400 texts for the lexer; some 42,000 calls of
conversions, operators and functions on numbers; some 20,000 of the codings; some
41,400 of functions on texts and regular expressions; and a stream of 7 characters
with a buffer of 3, to be put back at any place. An input is a state, so that a
counterexample is one step long.

Why these bounds are enough to meet the cases that matter:

* `MaxNonMapped` (`MAX_NUM_NON_MAPPED`, 10 in the code) is 1: maps are hashed at
  their second property, shrink below the limit again and keep the table.
* `MaxShapes` bounds the shapes allocated in a behaviour, which is the only
  unbounded counter. It is 6 for the maps and 4 for the caches. Six shapes are
  enough for two objects to add the same keys in the same and in different orders,
  to remove a first, middle and last property, and to add a key again in another
  slot; the transition that leads to a shape with another slot and the unregistered
  shape of `EsShape::add` need 4. A model that has used its shapes up may stop, so
  the runs of `EsMap` and of the caches do not ask for the absence of deadlock; the
  one of `PropertyArray` does.
* Three keys give a removal something before and something behind it.
* The chain of three objects is one longer than the two shapes an entry has room
  for (8 in the code): an inherited property may be at the first, at the last and
  beyond the last place of the hierarchy. One entry for all keys and objects is the
  worst case of ids that wrap around.
* Three levels of nesting are what the hazards of the statements take: a jump, an
  inner statement whose epilogue it runs, an outer one whose epilogue follows, and
  one that catches or is the target. Each statement has a label of its own and
  labelled jumps go to the outermost, so that they cross loops and switches. An
  expression behind each level shows where control came out.
* `MaxEvents` (6) cuts loops after a few rounds; a call that is cut is compared as
  far as it went. A property of how a call ends is checked on the calls that end
  within six expressions, which the ways through three statements without
  repetition do but for the longest.
* `HoleLimit` and `HoleShare` (16 and a tenth in the code) are 2 and 2; with six
  indices either condition decides alone in some state.
* In `Scopes` the variable is in a frame, in the array of captured variables, in an
  arguments object or in an environment; the function inside is declared, an
  expression or made by `eval`, in no block, a `with` or a `catch`, and may outlive
  the call that made it. Three frames are the program, the outer and the inner
  function; `MaxHeap` and `MaxEnvs` allow a second call while a closure of the
  first lives. `Capacity` is above what three frames take.
* In `Objects` an array of length 3 has an element before and one behind the one
  that cannot be deleted. A length above `MaxLength` stands for those above: it is
  written as a value, but an array does not grow to it. The view of the states
  leaves out `call`, which each operation writes and none reads; action properties
  are checked on every transition. A deadlock would be a loop that cannot go on.
* The expressions are every kind on some 46 operands that need no, one or several
  instructions, returned, as a statement and as the last part of a `for`; every
  kind of pair of a few operands with all; and pairs of seven kinds of pairs of
  calls. These are the shapes on which the functions of the compiler decide. The
  view leaves out the text of the function, which the expression determines.
  Deadlock is checked: it means reading what was never written or running off the
  end of the code.
* The programs of `text` are every production of the grammar with every other as
  its operand or body, and statements three deep, each written with all its
  semicolons, without those before a brace, and without those at the end of a line.
  The sequences that are no program have one token or bracket too few, a jump that
  leads nowhere, or what strict code may not have.
* `WordBits` is 8 (32 in the code): numbers around 128, 256 and their multiples
  stand for those around 2^31 and 2^32. Numbers are halves of integers, with the
  infinities, not-a-number and both zeros, and decimals for what is printed.
* The codes of the codings are those on both sides of each boundary of a sequence's
  length and of the surrogates. The reference decodes by looking for the code whose
  encoding it is.
* Texts have up to four characters of two or three letters, texts searched for up
  to two, with places from below zero to beyond the end; regular expressions match
  nothing, one or two characters, with captures that take part or do not.

One property is about what must happen: `LoopEnds`, that a loop over an object
ends while its body adds, removes and redefines properties. It needs the fairness
`WF_vars(LoopNext)` of `Objects`: the body of each round ends and the loop goes on,
since the loops of `standard.cc` and the code of a `for`-`in` do nothing else
between two rounds. A body that itself never ends is the program's own matter.
No other component waits, retries or loops except over a finite list, or as often
as the program says. The run of `GeneratedCode` checks deadlock: it would mean code
that runs off the end of a block. That a removal ends follows from the length of
`todo`.

For every property of a passing run `PROJECT.json` names a mutant, an altered
definition (written in the module, just before the one it replaces) under which
TLC finds the property violated.

## 4. Proofs

All theorems hold for every value of the constants under the named assumptions of
the modules they are about (`BoundsAssumption`, `NoValueAssumption`,
`ProtoChainAssumption`, `CacheAssumption`, `GlobalAssumption`, `ArrayAssumption`,
`UndefinedAssumption`, `CapacityAssumption`, `StreamAssumption`, `KeysAssumption`,
`WorldsAssumption`, `NameOrderAssumption`, `ValuesAssumption` and the
`ProgramsAssumption` of `Scopes`): sizes are naturals, "none" values are not values, every object
is the first of its own chain, the global object is an object, the call stack has
room for a frame, undefined is a value and no function, the end of the input is no character of it,
the key of `length` is no array index, and a world starts with objects (each property of one
kind with its flags, an array with a length above its elements, a prototype that
is there) and offers descriptors that the code can be handed: of one kind, and with
a whole number for a length; the names of programs are in an order without
repetition, a program is a list of literals each nested in an earlier one, and the
values include the numbers, arguments objects and functions that programs make.
None bounds the number of objects, keys, operations,
frames, worlds, programs, literals or characters. (The `ProgramsAssumption` of
`GeneratedCode` and `Evaluator`, `MaxEventsAssumption`,
`FunctionsAssumption` and `WordAssumption` are of modules without theorems; TLC
checks them like the others.)

* `EsMapProofs`: `TypeCorrect`, `SlotsPartitioned`, `HashIsWalk` and
  `EdgesAreCounted`. None of the first three is inductive alone. That adding a key takes a slot that no property uses
  needs the partition; that the partition is kept by a removal needs the shapes
  re-added to carry the slots of the old ones, so the invariant `IInv` also says
  what a removal in progress has done: the chain of the shape reached, followed by
  what is to do, is the old chain without the removed node. Transitions need that
  the shape they lead to extends the shape they come from by one node with that
  key, and chains that a node's `parent` is the shape the rest of the chain
  belongs to. The hash table needs that a chain names a key once.
  `EdgesAreCounted` adds to `IInv` that the objects on an edge are finitely many
  (there may be any number of objects) and at most its count: a step moves one
  object; the one whose key goes away leaves the edge that is discounted, and is
  counted wherever a round of the removal takes it.
  `MapsAreDictionaries` follows from `IInv`: the mapping lists the keys of the
  last shape with the values in their slots; `Add` maps to an insertion at the
  end, `SetValue` to an update, the steps within a removal to stutters and
  `RemoveEnd` to the removal.
* `CacheProofs`: `CacheTypeCorrect`, `GetsAreSound`, `PutsAreSound`,
  `CacheIsTransparent` (what a program does to the maps with the cache, it
  could do without: `PutCached` is `SetValue`) and, from it,
  `CachedMapsAreDictionaries`. The invariant `CInv` says of an entry that the
  shape it ends in names its key in its slot and that the shapes before do not
  name it. Shapes are immutable, so that no step of any map can falsify it; this
  is why a cache that is never invalidated is right. `GlobalHitsAreSound` and
  `CachesAreSound` are about both caches at work on the same maps: an entry of the
  context cache names a shape of the global object that has the key in its slot,
  or that does not have the key at all (the entry of an inherited name, the first
  finding below), so that the slot is right whenever the global object owns the
  name; and what the context cache does to the maps is what a program does to them.
* `PropertyArrayProofs`: `ArrayTypeCorrect`, `CountsAreExact`, `GrowthIsDense`
  and `ArrayIsTable`; `TypeOK /\ CountIsExact` is inductive.
* `ScopesProofs`, the call stack: `CallsInvariant`, `CallsNest` and `CallsReachParams`. That a
  parameter of the running function is in its frame, when fewer arguments are
  passed than it has parameters, needs the padding; that frames nest when a frame
  goes needs that the arguments its guard frees lie directly below it, which is the
  inductive part of `CallsInvariant`.
* `ScopesProofs`, running programs: `ScopesInvariant`, `ScopesRunCalls`,
  `ScopesNest`, `ScopesReachParams`, `VariablesStayApart` and `PlacesAreSound`. The
  invariant
  `ScopesInv` adds to the one of the call stack that the program is one of those
  given and the code what `Compile` makes of it; that every value in memory is one
  the program can have (a function names a literal and an environment that exist);
  that each call has a later environment than the calls below it, and a frame with
  as many parameters and locals as its code has places for; and that the arrays of
  captured variables lie on the heap in the order of their environments. Each step
  of `Scopes` is a step of `CallFrames` or leaves the call stack alone, so that its
  theorems hold of running programs too (`ScopesRunCalls`). Of one call, two
  variables are apart because their places are (`PlacesAreApart`, below) and the
  parameters, the callee and the locals are different parts of a frame; of two
  calls, because their frames do not overlap and the array of the earlier one ends
  before that of the later one. `VariablesStayApart` is about the programs that have
  `ParamsAreKept`: the array made for an arguments object has room for its parameters. The code does not
  see to that (`ParamOutsideArray`, section 5), and without it places overlap; the
  programs of `scopes` have it, those among them with arguments objects too.
  `PlacesAreSound` needs besides that no variable is passed over
  (`NonePassedOver`; `VariablePassedOver` in section 5 is the program that has one).
* `ClosuresProofs`: `ClosuresReadRight`, that whatever calls, closures, `with` and
  `catch` blocks and assignments came before, every identifier the running function
  may read next has the value ECMAScript gives it. It is about the programs that
  have `NonePassedOver` and are `Followed`; the definition of `Followed` in `Scopes`
  says what those are. Four of its five conditions exclude what the code gets wrong
  (section 5): `NoCatchCrossed` (`MadeInCatch`), `CalleesKept` (`CalleeByName`),
  `CatchNameFree` and `ParamsNotHidden` (named below that table). The fifth,
  `NothingHidden`, leaves programs with arguments objects or `eval` to TLC. The
  conditions are a little wider than the faults: `CatchNameFree` also excludes a
  placed variable with the name of a `catch` parameter that no such block is around.
  Of the 42 programs of `scopes`, 22 are followed; `FollowedAssumption` of
  `MCScopes` has TLC find one whose closure outlives the call it reads from.

  The invariant is `TextInv`: there is an assignment of every environment to a place
  in the text, a literal and the blocks of it around the place. The environment of a
  call is outside of all blocks and its outer one is where the literal stands; that
  of a block is where its outer one is, one block further in; a function value was
  made where its literal stands; the contexts of a call are those of the blocks it
  is in. And: each variable of an environment has one cell, on the heap or in a
  frame, no two have the same, and it holds the value ECMAScript has for that
  variable (`HeapAgrees`, `HeapApart`, `StackAgrees`). It is not true of a state
  alone that a value read by hops is the right one: that needs that as many
  environments are crossed at run time as literals in the text, which is what the
  assignment is for. `InStepReads` derives from it that a read agrees, from
  `RegularReference` (what an identifier is compiled to, by the analysis' theorems
  below) and `HolderIs` (both searches by name follow the same links). `StepKeeps`
  has one lemma for each action, of which a call is the longest (`CallKeeps`): its
  variables start with the values ECMAScript gives them, whichever pass of the
  compiler placed them, and its cells are new ones.
* `ScopeAnalysisProofs`: for every program, the analysis keeps each variable's kind
  and gives it one of the storages (`AnalyzeType`); the place of a variable is
  within the locals or the array of its function (`PlacesAreInside`), and no two
  variables of a function have the same (`PlacesAreApart`), though the compiler
  numbers parameters, callee, functions and other variables in passes of their own.
  This rests on the rank of a name in a finite set being one to one and below the
  set's size. Every identifier is settled when the walk is over (`AnalysisSettles`):
  the first function around it that has a variable of its name keeps the variable
  in the context when an object environment is on the way, and else, for an
  identifier of another function, in an array that this function fetches or in the
  context. That a visit settles its identifier and none after it unsettles it rests
  on the order in which storages change (`Advances`: none, local, extra, context);
  that the analyzer's environments and the compiler's scopes lead to the same
  function, as many functions out unless a `with` is crossed, is an induction over
  the nesting of literals (`EnvsFollowFunctions`). `get_local` then finds that
  function and no other (`LocalIs`), if it has a place there. What the analysis
  recurs over (blocks, literals, identifiers) is shown
  by induction over a set of numbers, since the library's theorems of induction
  cannot be used.
* `SourceStreamProofs`: `StreamTypeOK`, `StreamBufferAhead` and `StreamInOrder`.
  The invariant says that what is held between `cur` and the end, and from the
  front of the buffer on when characters were put behind the limit, is the text
  that comes next; `push` and `next` across the front keep it only if the limit
  has moved with the characters put over others.

* `ObjectsProofs`, the invariants: `ObjectsInvariant`, `ArraysAreLongEnough`, `IntegrityHolds` and
  `LoopsAreComplete`. The invariant `IInv` is `ObjectsOK` (every object is one:
  each property of one kind with its flags, an array with a length that is a data
  property, not configurable, and above its elements) with `LoopOK` (what the loop
  owes is there, was there when it began, and is still ahead of it). The length is
  above the elements after a shrinking only because the code goes down from the
  last element and stops at the first it cannot remove: that is shown by downward
  induction over the elements between the new length and the old. A property that
  must be kept needs that a redefinition which was not refused changes nothing that
  is fixed, for each of the ways an object is changed. That a `for`-`in` over keys
  listed in any order owes nothing at its end needs that the list is a permutation
  of the keys, and of an array loop that an index that is left is below the length
  read at its start.
* `ObjectsProofs`, the refinement: `ObjectsAreEcmaScript`, that `Objects` implements
  `EsObjects`. The code stores properties whose attributes may be missing, and asks
  in the order of its early returns; the standard has properties with all of their
  attributes and one table. Under the mapping (`Completed`, of every property) the
  tests of the code refuse what 8.12.9 refuses (`AllowedSame`); what they let
  through is the property the standard makes (`RedefinedSame`, `CreatedSame`); the
  place where the shrinking of an array stops is one above the last element that is
  fixed (`EndsAboveFixed`), so that the loop over the elements leaves what 15.4.5.1
  says at once (`DefineLengthSame`); and the short ways that `[[Put]]` takes through
  `update` come to a definition of the value alone (`UpdateOwnIsDefine`). With these
  each operation has the standard's outcome and leaves the standard's object, and
  `StepSame` takes each step to one. One kind of definition is not what the standard
  makes of it: the code compares whether a descriptor has a `writable` and not what
  it is (`DescribedBy`, `property.cc:40`), and does not hear it when all else is as
  the property has it, nor when it comes with a length that no element stops.
  `Unheard` says exactly when; of those the theorem says that the code does what the
  standard says of the descriptor without its `writable` (`Heard`), for any others
  that it does what the standard says.

Only checked by TLC: all properties of statements, expressions, lexer,
parser and library; of scopes, `EvalReadsAgree`, and `ReadsAgree` of programs with
arguments objects or `eval`, which hold of the programs of `MCScopes` and not of
those of the table in section 5; and `ArrayFunctionsAgree`, which compares folds
over the indices of an array. Outside of what the prover can do and left to TLC: liveness
(`LoopEnds`), `ENABLED` and what recursive operators compute. The compiler, the evaluator, the parser and the codings recur
over trees and texts, so that `CompiledStatements`, `GeneratedCode`, `Evaluator`,
`CompiledExpressions`, `Parser`, `Values` and what builds on them hold no theorems.

## 5. Findings

* **An inherited global name reads the wrong slot from its second access on**
  (`ctx_cache`, `src/runtime/operation.cc:290`). `ctx_cached_getT` looks the name
  up along the prototypes of the global object, but records the slot under the
  shape id of the global object itself. The counterexample: `Object.prototype` has
  a property, the global object has none; a get of the name records the slot of
  `Object.prototype`; the next access hits and takes that slot of the global
  object's own array. For names that the global object owns the cache is right
  (`CtxHitOwnSound` in `caches`).
* **A context is left behind when a jump runs a `finally` block first**
  (`generated_code_leak`, `src/ir/compiler.cc:287`). After
  `with (o) { try { return x; } finally { f(); } }` the `with` context stays on
  the stack: the instruction that leaves it is appended to the block that the
  jump began with, which the code of the `finally` block has ended by then.
* **A name looked up by `eval` reads a frame that is gone** (`scopes_outlived`,
  `src/ir/analyzer.cc:417`). In
  `function f() { var x; x = 1; r = function () { return eval("x"); }; }` the
  variable is on the call stack and its binding is a link to that place; when the
  function in `r` is called after `f` has returned, the lookup reads what another
  frame has put there.

A smaller divergence: the comment at `property_array.cc:53-54` excludes arrays with
fewer than 16 elements from the switch to sparse storage, where the code, and the
test at `property_array.hh:265-271`, compare the number of holes.

Where else the code is known not to follow the standard. Each is a condition in an
`MC` module; the passing runs leave these inputs out, and TLC finds the property
violated by each of them when it is let in.

**Statements** (`MCGeneratedCode`, `MCEvaluator`)

| Condition | In | What happens |
| --- | --- | --- |
| `LeaveAfterFinally` | compiler | the second finding above |
| `JumpFromFinally` | compiler | a jump out of a `finally` block runs the block again and skips the epilogues around it (`compiler.cc:3125`, `275`) |
| `BreakToTry` | compiler | a break to the label of a `try` skips its own `finally` (`compiler.cc:239`) |
| `ReturnUndone` | compiler | a `finally` on the way of `return x` throws, the exception is caught further out, the function ends: it returns `x` and not undefined (`compiler.cc:2820`) |
| `EarlyDefault` | both | when no case matches, a default clause that is not the last does not fall through to the cases after it |
| `BreakToLabel` | evaluator | labels of blocks and of `try` are not looked at: a break to one ends all statements around it (`eval.cc:1040`, `1490`) |
| `LostException` | evaluator | in `try { throw 1 } catch (e) { throw 2 } finally { try { throw 3 } catch (e) {} }` the inner `catch` clears the pending exception of the outer one, and the assertion at `eval.cc:1694` fails (`eval.cc:1509`) |
| `SwitchValue` | evaluator | a `switch` left by a break has no value: `eval("switch (1) { case 1: 2; break; }")` (`eval.cc:1435`) |

**Expressions** (`MCExpressions`; of the programs built, 1,252 are left out)

| Condition | What happens |
| --- | --- |
| `TargetWrittenEarly` | the right side of an assignment to a local variable is evaluated into the variable: `x = a \|\| x`, `x = {next: x}`, `x = f()[x]` (`compiler.cc:1650-1667`) |
| `SharedPlace` | key and object of a property are given one register: `return f()[g()]` (`compiler.cc:1884-1899`, with a FIXME) |
| `OperandReadLate` | an operand that is a local variable is read when the operation is made: `x + (x = 2)`, `x + x++` |
| `NextLost` | the last part of a `for`: an assignment `x = y` is dropped, a name not read, a property fails an assertion (`compiler.cc:2726`) |
| `OpAssignValue` | the value of `o.p += 1` or `g += 1` is in a temporary already given back: `(o.p += 1) + f()` |
| `AssignedArgument` | `f(x = y)` gives a value back through an allocator that is gone, undefined behaviour |
| `KeyedCall` | `o[k]()` branches on a value that was not made (`compiler.cc:1993`) |
| `ArrayShared` | array literals of one length in one another share a register (`allocator.cc:67-87`) |
| `EvaluatedLate` | evaluator: the key of a property and the callee of `new` are read after what follows them, a conditional expression is taken for a value |

| `ConvertedEarly` | evaluator: the base and key of a property are converted when the reference to it is made and not when it is used (`eval.cc:745-749`), which differs when something is in between: `undefined.x = g()` throws before `g` is called, `o[k] += v` and `o[k]++` convert once and not twice, `typeof undefined.x` throws. When every base and key can be converted, both agree on the rest |

`ConversionsDiffer` of `MCExpressions` has TLC find that each of these examples
differs.

The reference `Expressions` already takes these from the code, in both
implementations: the callee after the arguments, the key before the object, the
target of a compound assignment after its right side, `delete` of what is no
reference evaluates nothing, `typeof` clears what reading its operand throws.

**Scopes** (`MCScopes`)

| Condition | What happens |
| --- | --- |
| `ParamOutsideArray` | an arguments object, with a parameter that is declared again, doubled or looked up by name: the array made for the arguments is smaller than their number |
| `MadeInCatch` | a function made in a `catch` block counts the hops to an outer variable without the environment of the block |
| `VariablePassedOver` | a variable that is looked up by name and has the name of a variable further out: in `function f() { var x; function g() { var x; function a() { x } function b() { with (o) { x } } x } x }` the `with` moves the `x` of `g` to the context, `get_local` finds no place for it in `g` and takes that of `f` (`compiler.cc:138-166`) |
| `CalleeByName` | the name of a function expression that is looked up by name is not declared |
| `EvalInCatch` | a `var` of code given to `eval` in a `catch` block is declared in the block |
| `ParamUnlinked` | a captured parameter of a function that `eval` sees has no binding |
| `LinkOutlived` | the third finding above |

Besides: a `var` that repeats a parameter loses the argument, and so does a
parameter with the name of its function expression; an assignment to the name of a
function expression overwrites the function called in its frame, where the standard
ignores it; the parameter of a `catch` block with the name of a local variable reads
and writes that variable, since neither the analyzer nor `get_local` sees it
(`analyzer.cc:630`, `compiler.cc:138-166`); `arguments[i]` is
linked beyond the arguments passed, and in strict code; code given to `eval` does
not see `arguments` unless the text of the function names it, and with
`var arguments` there are two copies; a variable that `eval` declares between a
closure and an outer variable is passed over; an argument that throws leaves the
arguments before it on the stack (FIXME at `compiler.cc:1942-1948`).

**Objects**: a definition does not change `writable` when the property has all else
that the descriptor asks for (`Unheard` in `Objects`). The comment at
`property.cc:34-35` says "We now know that all fields in the descriptor is present in
this property so compare the contents", but line 40 compares two `Maybe<bool>`,
which says whether both are present. So `{writable: false}` alone returns true and
the property stays writable; `{writable: true}` of a property that is neither
writable nor configurable is accepted and does nothing, where 8.12.9 refuses it; and
the length of an array stays writable after `{writable: false}`, alone or with a
shorter length that every element makes way for (`object.cc:547`, `1093`,
`1177-1185`). With another value in the same descriptor the `writable` is heard.
Further: an element at index 2^32-1 leaves a pending exception though true is
returned (`object.cc:1224`); the length of an array is read before the new one is
converted, which may change it (`object.cc:1086-1105`); a definition without
`writable` unmaps a parameter of an arguments object; a `for`-`in` visits a name
again that a hidden property shadows; `Object.defineProperties` defines one by one
and asks for the end of its list anew in each round (`standard.cc:3727-3770`), and
`Object.create` ignores its failure; `indexOf` from further before the start than
the length returns -1 (`standard.cc:1331`); `sort` with a function that changes the
array gives `std::sort` an inconsistent order. These inputs are beyond the bounds
of `MCObjects` or left out there.

**Lexer and parser** (not among the programs of `MCText`): `l: if (x) break l; else f();`
and a `do` statement without its semicolon before `else` or `while` are rejected
(`parser.cc:672`, `497`); both branches of an `if` share their labels (`486`);
`continue l` may name a block and an unlabelled `break` or `continue` is taken
inside any block, `try` or `switch` (`118`); `return` directly before `}` is
rejected (`742`, condition `ReturnAtBrace`); `for (var x = i in o)` drops `i`
(`585`) and `for (var x = 1, y in o)` is taken; in a prologue of directives
`"use strict" + 1` is rejected and `"a" "use strict"` taken; a comma may end
arguments and parameters; parameters of accessors are not counted; a call as the
target of an assignment is an early error. A name may start with an escaped digit;
other space characters than those of 7.2 are white space; `08` is a number;
UTF-16 of big endian is read as little endian (FIXME in `stream.cc`).

**Numbers** (`Departs` in `MCText`): `Number` and `parseFloat` take a second
sign and blanks behind one; `Number("0x")` and a single NUL are 0; an index of more
than 32 bits may wrap around to another one (`common/conversion.cc:42`, which looks
for a decrease only); `Math.round` between -0.5 and 0; `max` and `min` convert
nothing after a NaN, and take either of two zeros; `Math.min(Infinity)` is the
largest number; `parseInt` of a blank text does not convert the radix; a radix of
`toString` goes through 32 bits; `toFixed` appends digits to numbers below -1e21
and yields no text for what rounds to nothing, and of two numbers that are equally
near it takes the one with an even last digit and not the larger one
(`dtoa.c:4304-4309`, `4167-4172`; `TiesToEven`): `(-2.5).toFixed(0)` is "-2"
where 15.7.4.5 has "-3"; `toPrecision` counts the digits
behind the point.

**Codings** (`JsonDeparts`, `DropsMember`, and the codes chosen in `MCText`):
`decodeURI` takes overlong sequences, surrogates and codes above 0x10FFFF;
`JSON.parse` takes a comma behind the last item, leading zeros and numbers without
digits, but rejects blanks in an empty array and behind a number, string or word;
`JSON.stringify` does not indent the first and last line of brackets, and takes an
empty list of names for none; a reviver that drops a member makes the loop run past
its list of names (`algorithm.cc:388`, the assertion at `object.hh:132`).

**Texts** (`TextDeparts` in `MCText`): an empty text is found nowhere; a search
may compare the NUL behind the text; `lastIndexOf` with a position searches
forward from it; `localeCompare` compares what both have in common; `substr`
converts the length first; only letters of ASCII have a case; offsets of matches
are counted in bytes of UTF-8 and used as places in the text (`object.cc:2173`), so
that `split` can run past the end of the text; `lastIndex` is set behind captures
of what looks ahead; a capture that did not take part is an empty text for
`split` and for a function given to `replace`; `replace` converts the replacement
once per match, and drops the `$` before what is no reference; the result of
`exec` has one item too many; `exec`, `test` and `replace` set `lastIndex` of
expressions that are not global.

## 6. What is abstracted, and what is left out

* A key is a model value: hashing and interning of strings are not modelled, nor
  is the order of entries in a hash table, which no operation depends on.
* Property values are opaque in the maps and caches, which record only references
  to slots (`property_reference.hh:107-110`); a property that is not a plain slot
  takes the path of a miss. Attributes and accessors are in `Properties`, where an
  accessor is called but does not change the object it is called on.
* Indexed keys do not go through maps or caches and are in `PropertyArray`.
* The floating-point comparison `approx_holes / count > 0.1f` is modelled as
  `ApproxHoles(i) * HoleShare > CompactCount` on integers. The two agree below
  some 60 million elements, where the rounding of `0.1f` begins to matter.
* A wrong slot written by `CtxPutCached` past the end of the array is undefined
  behaviour in the program; the model leaves the array as it is, and the property
  is about the hit that precedes the write.
* Declarative environments neither read nor write the context cache.
* In statements an expression is one event (section 2), and one that throws is
  taken not to have written its destination. Function expressions are
  expressions: that one in a `finally` block is compiled with the flag
  `is_in_epilogue_` still set is not modelled, nor is `debugger`. A `for`-`in` has
  any number of keys.
* A `with` object that cannot be converted to an object is the `throw` outcome of
  its expression; so are failures of strict equality in a `switch`.
* In expressions the conversions of a base to an object and of a key to a text are
  one event before the access, though they come in another order in the evaluator
  (`eval.cc:745`) than in compiled code (`operation.cc:842-875`). Those of `delete` and
  of the callee of a call are part of the operation. Temporaries whose destruction is ordered by a `std::set` of pointers
  are given back in ascending order. Regular expressions are not among them.
* Labels of statements are one per statement in `Statements`, where the code has
  sets; the parser has the sets.
* In `Scopes` strict code and immutable bindings are left out; identifiers are in
  the order of the program, without the expressions around them.
* Numbers are exact (`WordBits`, above): `_strtod` returns what the text says, `dtoa`
  rounds ties to even. Texts of decimals that are half-way between two numbers to
  print but that no double is are not among the inputs: what is printed of them
  depends on the double next to them. `operator==` of `EsValue` (`value.cc:284-317`),
  which compares the addresses of texts, is called nowhere and left out. Values are tagged, not boxed in 64 bits.
* What a regular expression matches is external (PCRE): an expression is a list of
  alternatives. `lastIndex` is always writable and `exec` the built-in one.
* Dates, `Function.prototype`, errors and their messages, `Object.keys` and the
  like are left out: the dates are arithmetic on the C library's clock, the others
  are conversions and calls already modelled. The trigonometric functions are
  modelled at their special cases only.
* The C++ and IR generators, resources and types of the IR, the printer of trees
  and locations write or carry what is modelled without deciding anything.
* Counters compiled in for profiling, and capacity reserved in advance, do not
  change what an operation does.
* Shapes are never freed (see section 2). The collector's patches and the tools
  are not modelled: the first is third-party code whose marking no model here can
  observe, the second drive the program and keep no state.

## 7. Plan

Done: shapes and maps, caches, indexed storage, statements and expressions of the
compiler and of the evaluator, register allocation, call frames, scopes, objects,
array functions, loops, source text, values, and the library but for what section 6
names. Left, the most consequential first:

1. **Proofs** for `Scopes` that programs with arguments objects and code given to
   `eval` read the right values too (`ClosuresReadRight` is about the others), and
   laws of the stack of contexts as lemmas of `Contexts`.
2. **Interning**: ids handed out from both ends of the range to compiler and
   run-time (`unique.*`, `property_key.*`).
3. **Accessors that change the object** they are called on, in the array functions
   and in `[[Put]]`.
4. **Strict mode** in `Scopes` and `Contexts`; `unwind_to` and contexts of `eval`.
5. **Dates** against the calendar of 15.9.1.

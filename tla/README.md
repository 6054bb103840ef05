# Formal verification of the Java generator for IDLC

The repository is a plugin for the IDL compiler of Eclipse CycloneDDS. The
compiler parses an IDL file, loads the plugin and calls `generate()`; the plugin
walks over the syntax tree and writes one Java class per struct, enum, typedef,
union and bitmask. It is C, about 1800 lines, in one thread.

There are two programs to verify. One is the plugin itself: the walk, the text
buffer, the names of packages, the files. The other is the Java code it writes,
above all the CDR encoder and decoder of a struct. This development covers the
first, and of the second what structs and unions do with their bytes.

## Inventory

| Part | State it keeps | Operations | Hard behaviour | What makes it correct |
|---|---|---|---|---|
| Tree walk, `src/src/generator.c:55-262` | `generator_state_t` (`in_module`, counters, `errors`), the C stack | `generate`, `generate_types`, `process_node` | one flag shared by all levels of the recursion decides whether a node's next sibling is visited by the call or by the loop of the enclosing module | every definition is generated, the walk ends, the result tells the truth |
| String builder, `src/src/string_builder.c` | heap block, `length`, `capacity` | `sb_create`, `sb_append`, `sb_appendf`, `sb_string`, `sb_destroy` | terminator, doubling in `size_t`, refused `realloc`, texts as long as the local array | no write beyond the block; the text is the concatenation of what was accepted |
| Package resolver, `src/src/package_resolver.c` | local array of 20 names, two heap blocks | `resolve_package` | two loops have to agree on a size; full array | block filled exactly; the package is the path of modules |
| File emission, `src/src/java_record.c:489-957` | blocks, builder, stream, file | five `generate_java_*` calls | unchecked results of appends, writes and allocations; five copies of the way out | no leak or second free; the file is replaced once or not at all; only holes in the text |
| Output paths, `src/src/generator.c:249`, `src/src/java_record.c:514-543` and its four copies | `package_path[512]`, the file system | `mkdir` at every dot, `mkdir`, `fopen` | unchecked `mkdir`, cut paths, dots of the output directory | files land in the directory of their package, below the output directory |
| Generated struct class, `src/src/java_record.c:69-487` | a Java object, a byte buffer | `serialize`, `deserialize`, `describeType` | fixed buffer of 256 bytes, members skipped, empty and null values | decode after encode gives the object back |
| Generated enum, typedef, union, bitmask, `src/src/java_record.c:562-922` | a Java object | setters, flags, `serialize` and `deserialize` of a union | discriminator and cases may disagree | as above |
| Java type names, `src/src/java_type.c` | none | `java_type_name` | recursion over sequences | encoder, decoder and field agree on a type |
| Options, `src/src/generator.c:186-223` | three static variables | `generator_options` | an option nobody reads | |
| Annotations, module helpers, `src/src/annotation.c`, `src/src/java_generator.c` | none | none that the plugin calls | | |

**Interaction.** `generate()` makes the output directory and calls `process_node()`
on the root. For every definition `process_node()` calls one `generate_java_*()`,
which calls `resolve_package()`, puts the class together in a string builder
(asking `java_type_name()` for types), makes the directories and writes the
file. A result other than 0 is counted in `errors`, which becomes the result of
`generate()`. All calls are synchronous; nothing is shared but the
`generator_state_t` and the file system. What can interfere is failure: memory,
`mkdir`, `fopen`, a full disk, a killed process, and earlier calls of the same run
or earlier runs that left directories or files behind.

`PROJECT.json` lists, under `hazards`, every place that is hard to test, with
the properties that watch over it.

## Modules

| Module | Models |
|---|---|
| `IdlTree` | the syntax tree: what the plugin relies on in the links the parser sets (external) |
| `AstWalk` | `generate`, `generate_types`, `process_node` |
| `GenerateContract` | abstract: what the plugin promises the compiler, whatever the order of the walk |
| `StringBuilder` | the string builder, byte by byte |
| `TextBuffer` | abstract: a text to which strings are added whole or not at all |
| `ModulePath` | which modules make up the package of a node |
| `PackageResolver` | `resolve_package`, loop by loop |
| `FileEmitter` | one `generate_java_*` call of any of the five kinds |
| `FileUpdate` | abstract: how a call may change the file of its definition |
| `OutputPath` | where the files of several calls go |
| `JavaTypes` | `java_type_name`, and where its types agree with the methods of `ByteBuffer` |
| `CdrCodec` | `serialize` and `deserialize` of a generated struct or union class, at run time |
| `Generator` | composition: runs of the walk of `AstWalk`, with the packages of `ModulePath` and the files on disk, one after the other |
| `ClassFiles` | abstract: what a user of the output directory may rely on |
| `SetInduction` | no part of the code: induction over numbers with a set for the predicate, for the proofs |
| `IdlTrees` | for TLC: every tree of a given number of nodes |
| `MC...` | instances for TLC |
| `..._proofs` | theorems and their proofs |

`AstWalk`, `StringBuilder`, `FileEmitter` and `Generator` are shown to implement
`GenerateContract`, `TextBuffer`, `FileUpdate` and `ClassFiles`, each by an
`INSTANCE ... WITH` at the end of the module.

### AstWalk

The C stack is the variable `stack`. A frame is one active call of
`process_node`: its node, its place in the function and the loop variable `def`.

| Action | Code in `generator.c` |
|---|---|
| `GenerateNothing`, `GenerateTypes` | 226-229, 236-253 and 173-179 |
| `EmitDefinition(result)` | 60-141: counters, the `generate_java_*` call with either result, `errors` |
| `EnterModule` | 142-158 |
| `VisitDefinition`, `LeaveModule` | 159-164 |
| `VisitNextSibling` | 168-169 |
| `Return` | the end of a call and `def = def->next` in the caller |
| `Report` | 181-183, 253-261 |

A generator call is one step with a free result; `FileEmitter` looks inside. The
history variables `entered`, `attempts` and `written` serve the properties only.
The code has no variable that says who visits a sibling; the properties follow
from how `in_module` and the stack fit together:

* `NoDefinitionLost`: leaving a nested module clears the flag of the enclosing
  one. This never loses a sibling.
* `ReplaysExact`: it does make the siblings after a nested module be visited
  more than once, and this property says exactly how often: in each turn of the
  enclosing loop that starts at the node or, after a sibling with definitions, before it
  (`Turns`), as often as the walk comes to the enclosing module (`Passes`). Everywhere
  else a definition is generated once.
* `ContractKept` (refinement of `GenerateContract`) and `Termination`.
* `DepthBounded`: the recursion is no deeper than the tree has nodes.

`SummaryCountsDefinitions` is what the summary line claims and is violated.

### StringBuilder

The heap block is a sequence of cells as long as the block. `AppendString` and
`AppendFormatted` start a call; `Grow`, `Double`, `Reallocate`, `ReallocateFails` and
`Copy` are the steps of `sb_append` (42-57). `size_t` counts modulo `SizeMod`.
Unchecked `malloc` results are a step to `crashed`. `TextKept` is the refinement of
`TextBuffer` with `text` mapped to what a reader of the block finds before the first
terminator: a lost byte, a cut text or a missing terminator breaks it.

### PackageResolver

One action per loop turn of `resolve_package`. Names are lengths and identities;
length 0 stands for a module without an identifier. `measured` records how the
size grows, so that the invariant can compare it with how the second loop uses
it up. `PackageIsPath` says what the package is: below more modules than
`module_names` has room for, 20 in the code, only the innermost are in it.
That this is not always the full path, which the comment at
`src/src/package_resolver.c:80` speaks of, is shown by `ClassesInPlace` of `Generator`.

### FileEmitter

A class's text is a sequence of pieces, each a run of appends; for every kind of
definition one operator (`RecordText`, ...) gives the pieces in the order of the code.
`Owned` are the blocks freed on the way out, `Scratch` those a piece needs for a while:
the names of types, which for a struct depend on the types of its members (`TypeNames`,
`types`), and the copy of a case's name for its setter. Every piece may be appended or
lost. Every allocation may fail: one that is checked ends the call with -1, a name from
`strdup` is passed on as a null pointer (`null`, printed as "(null)"), a block that is
written through ends the process (`crashed`). `fopen` may fail and the disk may take any
prefix of the text. `FreedOnce` compares the blocks with what is to be freed on every
path; `HolesOnly` compares the file with the text; `UpdateKept` is the refinement of
`FileUpdate`, which demands 0 only of a call that replaced the file or had nothing to
write, and -1 never of one whose file is whole. It leaves open whether a call reports a
cut file: the code does not, and no document says that it does.

### OutputPath

Paths are sequences of characters, since the code works on characters: it cuts them at
511 and turns dots into slashes. The file system is a set of directories, each with
those it is in, with the rules of `mkdir(2)` and of path resolution (external): `Walk`
reads a path character by character and enters a directory at every slash. A `mkdir` may
be refused even where it could succeed. Calls follow one another, so that what a refused
`mkdir` left undone meets the next call. `Plain` names the output directories without a
dot: for them files never leave the directory (`StaysInside`), a call that returns 0 put
its file into the directory of its package (`FileInPackage`), and a call whose own
`mkdir` calls were not refused comes to `fopen` with that directory in place if the
output directory is there and can be written to (`DirectoryMade`; `-o /` without the
right to write there is the case that is excluded). Whether `fopen` then succeeds is
another matter: `OpenFails` may happen always, as the file may be write-protected or the
table of open files full. An empty output directory cannot occur
(`generator.c:232-234`); a prefix that is no Java package name, beginning with a dot or
with a slash in it, is left out. For output directories with a dot `OutputBelowDir` is
violated.

### JavaTypes and CdrCodec

The C code of `generate_serialize_method`, `generate_deserialize_method` and
`generate_java_union` is switches and loops over members and cases that print Java
text. `CdrCodec` models what that text does when a program runs it: one operator per
`case`, `PutMember`, `PutElement`, `GetMember` and `GetElement` being the four
switches. A struct has the sequence of its members' types, a union those of its
discriminator and its cases (`Fields`), an object the sequence of their values; a byte
knows which byte of which number it is, so that bytes read in the wrong place are told
apart (`GARBAGE`) without arithmetic on them. The buffer carries the first exception,
as nothing in the method runs after it. `Send` serializes an object into an array or
is refused; `Receive` deserializes the array, or a beginning of it, into an object that
is used for all messages, since `deserialize` is a method of an existing object;
`ReceiveIntoSent` makes that object one whose fields a program has set.

A union writes its discriminator and every case that is not null (`PutMembers`), and
reads the discriminator and a new object of its first case (`FieldsRead`): the
discriminator chooses nothing.

The types are a constant, `Types`, with their parts: a set of records that name their
members' and elements' types, and `Depth` says how deep each is nested
(`TypesAssumption`). A class that has a list of itself, which IDL allows, is therefore
left out. Values are records with a number, a text or items (`OfType`); `Values` has for
each type what programs send of it, `Held` everything a field may hold once a broken
message was read into it. What an operation does with a part of a value is its
parameter (`serialize`, `deserialize`, `sizes`, ...), and a recursive function ties the
knot: `Serialize`, `Deserialize`, `SizeOf`, `NullAsked`, `Arrives`.

Most of what is known of the codec depends on the shape of the class. `Framed` says
for which shapes the decoder can find the end of every member: no list of objects,
of strings or of lists, and a nested struct or union only as the last member. For
these `RoundTrip` says what arrives, whatever an earlier and perhaps broken message
left in the object: an empty text becomes null, a null list an empty one, and the
receiver keeps what it had in the members the switch does not name (typedef, bitmask,
wide string) and in all but the first case of a union. `CutIsNoticed` says that no
prefix of a message passes for a whole one; `FailureSplits` what a call that threw
leaves behind. `RefusesExactly` holds for every shape: `serialize` throws exactly if
the object needs more than the buffer has or a list of numbers holds a null.

A class whose types do not agree (`Agrees`) does not compile, nor does that of a struct
without members, because of its `toString()`: the action `Compile` rejects it, and nothing
is ever sent. `TypesAgree` says that this does not happen and is violated.

`RoundTrip` states what the code does, on the shapes it can decode and with the members
and cases it skips. `ComesBack` states what is written of it: every object comes back as
it was sent. It is violated.

### Generator

`Generator` extends `AstWalk` by what the walk does to the disk. `files` says which
class each path holds and whether all of its text is there; `name` and `path` give
the definitions their identifiers and, from `ModulePath`, their packages. A
`generate_java_*` call is one step, as `FileUpdate` allows it. `path` has no entry for a
typedef without a name.

| Action | Code |
|---|---|
| `WriteClass(whole)` | a `generate_java_*` call that returns 0 and has written a file, with or without all of its text |
| `NothingWritten` | one that returns 0 without a file, for a typedef without a name (641-643) |
| `ClassFails` | one that returns -1 |
| `WalkOn` | every other step of `AstWalk` |
| `Kill` | the process dies anywhere, also between `fopen` and `fclose` |
| `Rerun` | another process calls `generate()` on the same directory |

Paths collide: definitions outside of modules and those of a module `generated` go to
one package, and so do those below more than `MaxModules` modules with the same
innermost ones. The walk also comes back to definitions that are written already.
`LastOneStays` says what is left of that: after a run that returned 0 and lost no
text, every file is whole and holds the last definition of the source that has its
path. A replay never brings back an earlier one, and nothing of an earlier run shows.
`FilesKept` is the refinement of `ClassFiles`: a file changes only to a class that
belongs there, a failed call changes none, success is reported only when this run has
written every file, a killed run has spoilt one at most.

`ClassesInPlace` says that every class lies in the package of its full module path and
that later classes find it by the name they use for it, and is violated.

## Runs

| Run | Instance | Shows |
|---|---|---|
| `AstWalk` | all trees of 6 nodes, structs and other nodes, and all trees of 1 to 3 nodes with all 7 kinds of node; all results | `TypeOK`, `NoDefinitionLost`, `DepthBounded`, `ReplaysExact`, `ContractKept`, `Termination` |
| `AstWalkSummary` | trees of 4 nodes, structs and modules | violation of `SummaryCountsDefinitions` |
| `StringBuilder` | strings of 0 to 7 bytes; first capacity 2, `tmp` of 3, memory for 9 bytes, `size_t` modulo 32 | `TypeOK`, `CopyInBounds`, `CapacityBounded`, `TextKept`, `AppendReturns` |
| `PackagePath` | all trees of 5 nodes, room for 3 modules, names of 0, 1 and 3 bytes, with and without prefix | `TypeOK`, `FillsBlock`, `PackageIsPath` |
| `OutputPath` | 10 output directories, 3 packages, 4 file systems, 2 calls, 1 refused `mkdir`, paths of 8 | `TypeOK`, `FileInPackage`, `DirectoryMade`, `StaysInside` |
| `OutputDotted` | the same with the dotted output directories | violation of `OutputBelowDir` |
| `FileEmitter` | 5 kinds, 0 to 2 items, of a struct with every pair of 6 kinds of type, 2 lost pieces | `TypeOK`, `FreedOnce`, `HolesOnly`, `UpdateKept` |
| `CdrCodec` | 20 structs of 1 to 3 members, 3 unions, and 10 classes that do not compile, 2 numbers, texts of 0 to 2 bytes, lists of 0 to 2, a buffer of 14, 2 messages | `TypeOK`, `RoundTrip`, `CutIsNoticed`, `FailureSplits`, `RefusesExactly` |
| `CdrComesBack` | a struct of a bitmask, a typedef, a nested struct with a union in it and an octet | violation of `ComesBack` |
| `CdrTypes` | a struct with a boolean | violation of `TypesAgree` |
| `Generator` | all trees of 5 nodes with a module and two structs or more, of structs, typedefs with and without a name, modules and other nodes, 2 names, packages of 1 module, 2 runs | `FilesTypeOK`, `LastOneStays`, `FilesKept` |
| `CrossModule` | a struct outside of modules and, after it, one in a module of a module; packages of 1 module, 1 run | violation of `ClassesInPlace` |

**Why the bounds are enough.** Six nodes are three levels of modules with siblings
after the nested ones, the case the flag goes wrong in; the replays of replays
appear with five. The string lengths lie on both sides of the capacity, of its
double and of `TmpSize`, one below and one above, and 7 needs several doublings at
once. `PackagePath` has definitions below fewer modules than there is room for,
as many and one more. `PathSize` 8 lets one package fit and cuts another in the
middle of a name. Two items are enough for a first item, a next one and none, and every
pair of types puts the names of each after those of each other; two
lost pieces can be adjacent or apart. A buffer of 14 is filled exactly by some
objects, overrun by one byte by others, in the outer call and in that of a nested
struct; the classes have every kind of member and element that compiles, and a
union as class, as member, as element and in a union; two messages are what it takes
for one to meet what the other left. In `Generator` a package keeps one module, so that
trees of 5 nodes have modules that are dropped, replays after nested modules, and paths
shared by two definitions, one of them replayed; a second run meets every way the
first can end. Where a theorem is proved it holds for every
value of these constants, and the run is the check that its statement says what
it should.

Deadlock is not checked: every run ends with its call, except the builder, which ends
when the process crashes or when no string fits any more.

**Fairness.** `AstWalk` has weak fairness of `Next`: one thread runs the plugin and no
call waits for anything. `StringBuilder` has weak fairness of the steps of a call that was
made, and none for making one. `PackageResolver`, `OutputPath`, `FileEmitter`, `CdrCodec`
and `Generator`, in which a run may be killed at any time, are checked for safety only.

For each property of a run that passes there is a variant of a definition, named
`X_Bug`, that breaks it; the variants stand beside the definitions they vary and
no specification uses them.

## What the runs found

1. `AstWalkSummary`, `src/src/generator.c:164`: a nested module clears `in_module`, so the
   siblings after it are generated again and the counts of the summary line (181) are
   too high. The run shows a struct after a nested module, counted twice.
2. `OutputDotted`, `src/src/java_record.c:522`: the dots of the output directory become
   slashes as well, against "`-o <dir>` | Output directory" (`src/BUILD.md:75`).
3. `CdrComesBack` shows, in one object that is sent and received whole:
   * `src/src/java_record.c:426`: a nested struct takes all the bytes that are left, so a
     struct with a member after it (`Circle`, `Rectangle` in the examples) cannot read what
     it wrote, against "Built-in CDR serialization/deserialization" (`src/README.md:8`);
   * `src/src/java_record.c:262`: a bitmask member is not sent, against "Full Type Support -
     Structs, enums, unions, bitmasks, sequences" (`src/README.md:17`), nor is a member
     whose type is a typedef, against "Resolve typedef to get the underlying type" (136,
     287);
   * `src/src/java_record.c:812`: of a union the first case is read whichever was sent,
     against "Try to deserialize into each case field" (803).
4. `CdrTypes`, `src/src/java_record.c:143`: the class of a struct with a boolean does not
   compile, against "Type-Safe" (`src/README.md:9`). `JavaTypes` rejects for the like
   reasons an unsigned short (which `src/BUILD.md:148` notes itself), an enum, a list of
   these or of strings, a union with a case that is no struct or union (785-799) and a
   struct without members (467, 484). For the list of strings this is the two formats
   without their argument (363, 365), whose output is left to chance.
5. `CrossModule` shows, with a struct in a module of a module and one before it outside:
   * `src/src/java_type.c:96`: a class names a definition of another module by its bare
     identifier and imports nothing, so Java looks for it in the wrong package, against
     "References to types in other modules work seamlessly" (`src/README.md:19`);
   * `src/src/package_resolver.c:85`: below more modules than `module_names` has room for,
     20 in the code and one in the run, the package lacks the outermost, against "Build
     full module path" (80).

## Proofs

All proofs are for every value of the constants, from the assumptions named in the
modules: trees are well-formed (`TreesAssumption`), `NUL` and `JUNK` are no bytes of a
string (`BytesAssumption`), a text and a terminator fit into memory twice before
`size_t` wraps (`SizesAssumption`), sizes are positive naturals, the kinds of a
definition are the five the code has (`KindsAssumption`), those of its members' types
the six that `FileEmitter` tells apart (`ItemTypesAssumption`), output directories are not
empty (`OutputDirsAssumption`), packages neither begin with a dot nor contain a slash
(`PackagesAssumption`), every directory is in a directory
(`FileSystemsAssumption`), the parts of a type are types and less deep
(`TypesAssumption`), what a program sends has its type, and no field with a primitive
type is null (`ValuesAssumption`), and the sign for null is no value, that for a garbled
number no number (`NullAssumption`, `GarbageAssumption`).

| Theorem | Property | Argument |
|---|---|---|
| `WalkTypeOK`, `WalkDepthBounded`, `WalkCoverage` | `TypeOK`, `DepthBounded`, `NoDefinitionLost` | from `WalkInvariant` |
| `WalkKeepsContract` | `ContractKept` | from `WalkInvariant` and `RInv` |
| `WalkReplaysExact` | `ReplaysExact` | from `WalkAddsUp` |
| `BufferTypeOK`, `BufferCopyInBounds`, `BufferCapacityBounded` | same names | from `BufferInvariant` |
| `BufferKeepsText` | `TextKept` | from `BufferInvariant` |
| `PackageTypeOK`, `PackageFillsBlock` | `TypeOK`, `FillsBlock` | from `PackageInvariant` |
| `PackagePath` | `PackageIsPath` | from `PackageInvariant` and `PathInv` |
| `PathsTypeOK`, `PathsStayInside`, `PathsFileInPackage`, `PathsDirectoryMade` | `TypeOK`, `StaysInside`, `FileInPackage`, `DirectoryMade` | the last two from `PathsInvariant` |
| `EmitterTypeOK`, `EmitterFreedOnce`, `EmitterHolesOnly` | same names | from `EmitterInvariant` |
| `EmitterKeepsUpdate` | `UpdateKept` | from `EmitterInvariant` |
| `CdrTypeOK`, `CdrRefusesExactly` | `TypeOK`, `RefusesExactly` | from `CdrInvariant` |
| `CdrRoundTrip`, `CdrCutIsNoticed`, `CdrFailureSplits` | `RoundTrip`, `CutIsNoticed`, `FailureSplits` | from `CdrInvariant` and `CdrMessages` |
| `RunsTypeOK`, `RunsLastOneStays` | `FilesTypeOK`, `LastOneStays` | from `RunsInvariant` |
| `RunsKeepFiles` | `FilesKept` | from `RunsInvariant` |

**The walk.** `NoDefinitionLost` speaks of the end only. The invariant `IInv` says in
every state who is responsible for a node not yet visited (`Accounted`): a node
that was entered has its first definition and its next sibling entered, or some
frame is due to enter it. A sibling may be left to an enclosing loop only if
there is one, hence `FlagMeansLoop`: `in_module` set means that the loop of the caller
stands at this node. It is preserved because leaving a module can only clear the
flag, and then the call itself visits the sibling, perhaps once too often. At the
end no frame is left, so the entered nodes are closed under `next` and `defs` and
contain all that can be reached from the root. Node numbers grow along the stack
(`NodesDeepen`, from `CallersWait` and `LoopsForward`), so its length is bounded.

**The replays.** `ReplaysExact` speaks of the end too. `PassesAddUp` says in every state
that what was generated so far and what is still to come make up the number that the
tree prescribes. What is to come to a node directly (`Coming`) are the turns that
loops which have begun still have to take for it (`TurnsLeft`), and one more if a call
on it, or one that will hand over from sibling to sibling up to it, is active
(`UnderWay`); what comes through the modules around it is counted by the same `Passes`
as the result. A step that enters a node takes one pass off it and begins all the turns
below it, which leaves every sum as it was; a loop that calls only exchanges a turn left
for a call under way. Which of the two looks after the next sibling depends on
`in_module`, and `FlagExact` says what the flag is worth: inside of a module it is set
until the first sibling that has definitions is left, and never again. `HandOversBreak`
and `StackDescends` keep the calls apart that could be counted twice. `Passes` is a
recursive function over the nodes, and so are the proofs about it, by `SetInduction`.

**The builder.** `BInv` ties the block to the text (`TextInBlock`), the work to what was
asked (`AskedFor`) and the new capacity to less than twice the need
(`GrowthBounded`), which with the assumption on `SizeMod` keeps every `%` an identity.

**The package.** `Sums` says what `measured` holds after each turn and `Phases` that the
text of the second loop, plus one byte, is what the first loop had after as many
turns; no sum over a sequence is needed. `PathInv` adds what the package is: the
modules found so far, followed by those around the node the walk has come to, are the
path (`OnThePath`), and the text has them from the outermost one on (`Written`).

**The paths.** `Shape` says that `package_path` is always the text the call began
with, its first dots turned into slashes: the loop goes from left to right, and no dot
turns up behind it. Up to the length of the output directory the walk over it is the
walk to `Home`; what lies beyond has no dot in it any more when it is handed to `mkdir` or
`fopen`, so no step of the walk goes up again, and as a package does not begin with a
dot there is at least one character of a name, so that the walk ends below `Home`. This is
`StaysInside`, for cut texts as well. `MadeSoFar` says that where nothing was
refused, the directory before every slash is there: the first one because `Home` is,
every further one because the call has just made it in the one before. What the walk
does up to a place depends only on the text up to there, by induction over the places.

**The emission.** `Blocks` names the blocks held at each place, a piece's own ones only
while it is appended, `Pieces` says that the
builder holds the pieces before `next` except the lost ones in their order, `Outcome`
what the file and the result can be.

**The codec.** Nothing about the codec needs a strong invariant, since a message is one
step; what takes the work is what that step does with a type of any depth. The lemmas
show first that the recursive functions are what their definitions say (`SerializeDef`,
...), which holds because each asks only for less deep types (`PutMembersRelies`, ...)
and `TypeInduction` goes up the depth. `Adds` is the contract of every put operation: of
n bytes, and a null that is asked for or not, all of them are in the buffer
afterwards, or there is an exception because of the null or for want of room. It holds of
nothing (`AddsNothing`), of two operations one after the other if it holds of each
(`AddsTogether`), so of the loops over elements and members, and so, by induction, of
`serialize()`, which is `RefusesExactly`. For `TypeOK` the same road is taken with
`Results`: every get operation, on any bytes at any position, leaves a value that the
field may hold.

**What arrives.** `CdrMessages` adds to the invariant that the wire has what
`serialize()` made of the object and the receiver what `deserialize()` made of the part
that arrived (`Message`), which makes the other three properties statements about the two
functions. `Extends` says what the buffer owes to a later operation: bytes stay where they
were put, and no exception at the end means none on the way. The data and the bytes that
were written are related by `Matches`, equal as far as both go, so that a message and all
its cuts are one case. Each get operation, at the position where the put operation of the
same type began, returns the value that was put and goes on where that operation ended,
or throws because the data end before (`Comes`); a list does so element by element. The
fields then arrive one after the other, the first ones new and the others as they were
(`UpTo`), and where one throws its own value may be anything (`Mixed`). A nested object
gets all that is left of the data (`NestedComes`), which is why it has to be the last field
(`FieldsLast`); of a union nothing is written after the first case if only that one is set
(`OneCaseEnds`). `AllDecode` puts this together by `TypeInduction`.

**The runs.** `LastOneStays` speaks of the end of a run, when it is too late to see why a
replay did no harm. `Survivors` says it in every state: of a file the run has written,
each later definition with the same path is still ahead of the walk, until it is
written itself. "Ahead" is exact: `Ahead` are the nodes some frame is still to look
at, `Pending` all that can be reached from them. A replay is harmless because the walk
that comes back to a definition also comes back to everything after it: `Enclosed` says
that below a node of a module there is the loop of that module, which goes on to the
module's siblings, so what follows a definition in the source is pending when it is
written. `Onwards` and `SelfAndAround` are least closed sets and not recursive
functions, which lets the proof do without induction. At the end no frame is left, hence
nothing is pending. Of definitions without a file `Survivors` has nothing to say. `RInv`
of `AstWalk` says that a run without errors wrote every definition; the rest of
`RunsKeepFiles` maps each step to one of `ClassFiles`.

**Only model-checked.** Liveness (`Termination`, `AppendReturns`), which
needs fairness and `ENABLED`. Every invariant and refinement that a run checks is also a
theorem. The violations are runs of TLC.

## Not modelled

* Of the generated Java: the setters of a union, the constants and accessors of
  bitmasks and enums and the wrapper of a typedef, each one assignment or operation of
  Java; `describeType`, `getFieldOrder` and `toString`; inherited members, second
  declarators and array declarators, which the code does not look at; names of members
  that clash with the locals of the methods. In `FileEmitter` a class's text is a
  sequence of named pieces.
* `generator_options()`, since it only hands out addresses; its values are inputs.
* `annotation.c`, `java_generator.c`, `get_struct_name()`, `get_module_name()`,
  `resolve_simple_name()`, `resolve_qualified_name()`, `java_default_value()`,
  `sb_length()`: nothing the plugin runs calls them. The variable
  `current_module_name` is modelled and read by nobody, as in the code.
* Null arguments of the `generate_java_*` calls, which `process_node` never passes.
* What the console shows, except the numbers of the summary line.

## Plan

Done: the plugin's own steps, one module per component, with the invariants and
refinements proved; the codec of structs and unions, with what it refuses, what arrives
and what a cut message leaves proved for classes of every depth; the composition of walk,
packages and files over several runs, with its invariant and refinement proved.

What is left, by what it would add:

1. `FileEmitter` in place of the one-step calls of `Generator`: a refinement through
   `FileUpdate`, which today is argued and not checked.
2. Annotations and the bits and constants that depend on them, if the plugin comes to
   call `process_annotations()`.

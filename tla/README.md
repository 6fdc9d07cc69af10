# CMyReflection in TLA+

A model of CMyReflection: the reflection runtime (`cmyreflection.h`), the
generator that writes the tables and functions it uses (`cmy_reflector.py`), and
the JSON and format plugins (`plugins/json.py`, `plugins/format.py`).  TLC checks
every module on small instances; for the accessors, the path lookup, the two
together, the plugin sort, plugin loading, the type table and the reader that
fills it, the way of tags into the header, the format plugin at run time, and
the JSON traversal with its buffer, TLAPS proves safety properties for all values
of the constants, and that the walk of a path implements the lookup it stands for.

## The system

| Component | State | Operations | Talks to |
|---|---|---|---|
| Metadata tables, registry (`cmyreflection.h`, generated code) | constant tables; the program's memory | `find_field`, `get_struct_metadata` | read by everything at run time |
| Field accessors (`cmyreflection.h:470-739, 960-1197`, generated macros, `safe_set_field`) | the memory | typed and untyped set and get, array elements, dynamic arrays and their lengths | tables; called by programs and by the JSON plugin |
| Path lookup (`cmyreflection.h:762-932`) | locals of the walk; the caller's `out_leaf_field`, `out_array_index`, pointer | `resolve_field_path(_ext)`, `resolve_field_metadata`, `reflect_query` | tables; its results go to the accessors |
| Plugin ordering (`cmy_reflector.py:521-556`) | counts of unmet dependencies, the list of free plugins | `sort_plugins` | first step of loading |
| Plugin loading (`cmy_reflector.py:913-984`) | claims on tags, plugin data, errors | `load_plugins`, `get_plugin_data`, plugins' setup hooks (callbacks) | sort; hooks; the tags `validate_tags` accepts |
| Source reader and type table (`cmy_reflector.py:563-724, 779-871, 1064-1142, 2064-2245`) | `type_map`, the structs and enums kept | `generate_reflection` per file, `resolve`, `validate_tags` | gives the tables |
| Code emission (`cmy_reflector.py:1011-1062, 1161-1846`) | plugin data, prototypes, extension data of fields and members | `str(reflector)`: plugin code, type mappers, tag handlers, the sections of the header | type table, plugins (callbacks) |
| JSON traversal (`plugins/json.py:321-581, 651-672`) | a copy of `_cmy_json_state` per nested struct and array | `to_json_stream`, `json_serialize_value`, the visitor callback | `visit_struct_fields`, accessors, the write callback |
| JSON output (`plugins/json.py:450-468, 592-641, 682-697`) | the fixed buffer and its offset | `to_json`, the write callbacks | fed by the traversal |
| Format plugin (`plugins/format.py`) | the caller's text buffer | `get_field_as_str`, `set_field_from_str`, `print_field`; mappers that generate them | accessors, type table, enum tables |
| Plugin template (`tools/create_plugin.py:76-233`) | none | the plugin an author starts from: tags, a mapper, a function | code emission |

The program is single-threaded: there are no locks, no messages and nothing is
persisted.  What is hard here is of another kind: sequences of legal calls
(out-variables that survive a failed lookup, instances copied over each other,
lengths changed behind an array), callbacks that share a state with the loop
that calls them, orders nobody chose (registration of plugins, files, blocks
and fields), limits (255 characters of path, 127 of a formatted piece, the last
byte of a buffer, an index equal to a count), and steps of which one fails
halfway.  `PROJECT.json` lists each of these hazards at its line with the
properties that watch over it.

What makes each component correct:

- accessors: they write and disclose only what the flags, sizes and lengths
  allow; everything else keeps its value; validated enums stay valid;
- lookup: the pair handed out is a member of an instance, the one the path
  names, whatever was looked up before; an access made with it hits that
  member or nothing;
- plugins: dependencies come first, the order does not depend on the order of
  registration, cycles and only cycles fail; a load that ends well is complete
  and one that fails says everything that is wrong;
- reader and type table: what is marked is kept, with its own tags; the table is
  the closure of the declared types, whatever the order of the input, and the
  functions generated from it agree with each other;
- emission: what a piece of the header uses has been declared before it, nothing
  is defined twice, tags reach the tables, and a sound input is never refused;
- format: a field takes exactly the texts of its type and shows what it took;
- JSON: the output is the document of the value, only readable memory is read,
  the fixed buffer holds the longest beginning that fits.

## Modules and the code

Arrows are EXTENDS or INSTANCE.

    Registry <- FieldAccess <-----------+-- ReflectClient
         |           ^----- Format      |
         ^----- PathResolve <-----------+
         ^----- PathLookup <- PathResolve (refinement), ReflectClient (Promise)
         ^----- JsonWalk (calls FieldAccess) <- ToJson <- JsonDocument
                JsonBuffer                   <---^
    PluginSort <- PluginLoad
    TypeTable <- Plugins <- Emit

- `Registry`: tables and memory.  A cell of memory stands for a byte; a pointer
  takes one cell.  `Fields[t]` is `t_Metadata`, `FindField` is `find_field`,
  `DOMAIN StructOf` the cases of `get_struct_metadata`.  Its named assumptions say
  what the generator and C guarantee: names of members differ, `size` is a
  multiple of `count`, instances nested in instances are instances, heap blocks
  lie apart.
- `FieldAccess`: each C function is an operator from memory and arguments to an
  outcome (result, cells disclosed, cells written, new memory) with the
  code's checks in the code's order; functions that call others use their
  operators.  The actions are the calls a program can make with any entry of the
  right table, NULL included.  `HonestLengths` in the writing actions is the
  one thing asked of a program: that it does not store a length that its block
  does not have.  `CarefulReaders` says whether callers of `get_dynamic_*` mind
  the length themselves, as nothing else does.
- `PathLookup`: what a lookup promises, said without a walk: a chain of
  instances, each an element of the one before.
- `PathResolve`: `resolve_path_internal` one token per step.  A path is a
  sequence of segments `name` or `name[i]`; `Cut` and `Buffer` are the `strncpy` into
  256 bytes.  Refines `PathLookup` for the path as the buffer holds it.
- `ReflectClient`: `FieldAccess` and `PathResolve` on one memory, used without
  testing what a lookup returned.
- `PluginSort`: `sort_plugins`, a step per `pop`; plugins are known by their
  place in the list, names are numbers in alphabetical order.
- `PluginLoad`: `load_plugins`; runs `PluginSort` first and then sets up each plugin,
  takes its claims and its data, and resolves the claims.  The four kinds of
  tags are one set.
- `TypeTable`: an input is a sequence of texts, blocks and ends of files, a
  block a sequence of lines, as the regular expressions cut them.  Blocks are read
  line by line, then every field of every kept struct is resolved, then tags are
  validated.  `struct_metadata` and `base_type` are the cases of the generated
  switches, so that an ambiguous or missing case shows.
- `Plugins`: what the format and JSON plugins and the template contribute, as
  data: tag handlers, extension keys, functions, and each mapper as an operator
  from a type to the function and the case it yields.  Generated code is made
  of pieces, each with the names it declares, defines and uses.
- `Emit`: `generate_plugin_extensions`, a step per emitter group, mapper and round
  of tag handlers, with the Python variable `router` that outlives its turn; then
  `__str__`, which puts the parts together.  A part is a sequence of sections; in a
  section stand pieces whose order does not matter, one per type, struct or enum,
  so that no order of a dictionary has to be chosen.
- `JsonWalk`: the mutual recursion of value and visitor, with the C stack as a
  sequence of frames; output is a sequence of tokens.
- `JsonBuffer`: pieces of text into a buffer, with `size_t` arithmetic modulo
  `SizeMod`.
- `ToJson`: `to_json` whole: each step of `JsonWalk` leaves the tokens it passes to
  the callback, and `JsonBuffer` takes their text one piece at a time before the
  walk goes on.  A string is written a character per step, as
  `json_write_string_escaped` does; `chr` is its pointer `p`.
- `JsonDocument`: `ToJson` and what it is measured by: the document, defined by
  recursion on types and data (a recursive function over the values that can be
  met), and its text, with that of whole strings.
- `Format`: texts are sequences of character codes, as the cells of a char array
  hold them.  `set_field_from_str` and `get_field_as_str` are operators to outcomes
  like those of `FieldAccess`, whose setters and getters they call; the actions are
  the calls a program makes, with struct copies in between.
- `MC*`: the instances for TLC.  `*_proofs`: the theorems.

Operators marked "Wrong on purpose" stand beside the definition they alter and
are used by nothing: each is a plausible mistake that one of the properties
has to notice when it replaces the right definition.

## What the runs check

| Run | Question | Instance and why it is enough |
|---|---|---|
| `FieldAccess_all` | Does any sequence of calls, typed or not, write, disclose or change what it may not, or make a validated enum invalid by a typed call? | A struct with a length, a dynamic array, a nested struct with a checked enum and a read-only member, a write-only array; a second instance to copy from; neighbour cells on every side.  `MaxCopy` 3 exceeds every member, so every size and count occurs below, at and above its limit. |
| `FieldAccess_overread` | Is `get_dynamic_*` safe by itself? | Violated, see below. |
| `FieldAccess_null` | Is a NULL argument an error for `safe_set_field`? | Violated, see below. |
| `PathResolve_lookup` | Does the walk implement `PathLookup`, over any sequence of lookups that share their out-variables?  Does it stay inside the instances, and does it return? | Three levels of structs, arrays of structs, a pointer member, missing names, indexes below, at and above the count and negative; from two roots.  `BufLen` 15 lets every three-level path through but the long ones, which are cut inside a name, behind it, at a dot and in an index. |
| `PathResolve_toolong` | Does a long path resolve whole or not at all? | Violated, see below. |
| `ReflectClient` | Does an access after a lookup touch the member asked for, or nothing, when the program tests neither pointer nor leaf? | Eleven paths, good and bad, every accessor on every state they leave. |
| `PluginLoad` | Is the order the least topological one, and a failure of the sort exactly a cycle?  Do hooks find what they depend on, is a successful load complete, is the error list complete, do compatible plugins always load? | All graphs on three plugins with a fourth, absent name; lists of up to four out of five plugins in every order, with a contested tag, a contested data key, missing, repeated and forgotten dependencies, one plugin waiting for two, and a plugin loaded twice.  Cycles of length 1 to 3 and plugins behind a cycle occur. |
| `Emit` | From files to header: is what is marked kept with its own tags, is the table the closure of the types, do the generated functions agree, are names declared before use and defined once, do tags reach the tables, is a sound input always written? | Reading: all sequences of up to four of eight items (marks with and without an enumerator of their own, plain text, ends of files, redeclared structs with private members, comments, malformed lines and tags, an enum).  Emission: all sequences of up to two of seven marked blocks under nine lists of plugins, the real ones, the template, and small ones whose emitters ask too early, whose mapper maps nothing, or whose handler sets an undefined key. |
| `Emit_enumrefs` | Do the enum tables that generated code names exist? | Violated, see below. |
| `Format` | Does a field take exactly the texts of its type, show what it took, take back what it shows; do strings keep their end; does `print_field` show all? | A struct with a checked and an unchecked enum (with an alias and a display text), signed and unsigned bytes, a read-only and a write-only member, a bool, a char array longer than `MAX_BUF_LEN` and one inside a nested struct that is copied between instances.  Texts: empty, numbers in and out of range, negative, with trailing text and on a first line, names, and words one below, at and above the arrays' lengths. |
| `JsonBuffer_scratch` | Does a piece arrive whole? | Violated, see below. |
| `ToJson` | Does the caller's buffer end with the document defined by recursion, or its longest beginning that fits, NUL-terminated and with nothing behind it?  Is only readable memory read, does it end? | Arrays of structs inside structs, dynamic arrays of structs that hold dynamic arrays, NULL arrays, write-only members first, last and in the middle, strings with an escape, a custom serializer, renamed keys, no instance at all; buffers of 0, 21 and 110 bytes, so that documents are refused, cut and whole. |

`CHECK_DEADLOCK FALSE` is said only where a run of the program ends: loading, the
generator and `to_json`.

Bounds: `MaxCopy` (largest size a caller passes), `Values` (data written: one
value, which is no member of the checked enum, so that valid values travel by
copies), `Top` (memory), `BufLen` (255 in the code), `Scratch` (128), `SizeMod`
(2^64), `MaxText` (characters per document of `JsonBuffer` alone), `MAX_BUF_LEN` (256),
`Texts`, `Calls` and `Buffers` (what callers of the format functions pass).  `PluginSort`,
`PluginLoad`, `TypeTable` and `Emit` need no bound: each run of the program ends.

Fairness.  `WF_vars(Step)` in `PathResolve` and weak fairness of the next step in
the sort, loading, type table, emission and `to_json`: each is straight-line code of one thread
that, once called, runs on; nothing in it waits.  `PathResolve` asks for no
fairness of the caller.  The other modules need none.

### Where the code and its docs differ

- `get_dynamic_array_data` and `get_dynamic_*` copy as many elements as
  the caller says (`cmyreflection.h:551-565, 1169-1197`); the header calls it
  "Safely reads data from a dynamically allocated array" (`:537`).
- The generated `safe_set_field` returns `false`, which is `REFLECT_OK`, for a NULL
  argument (`cmy_reflector.py:1430`); the header promises an error code
  (`cmyreflection.h:250`).
- A path of more than 255 characters is cut and may name another member
  (`cmyreflection.h:776`); the header promises NULL when nothing is found (`:302`).
- A formatted piece of 128 characters or more loses its end, quotes included
  (`plugins/json.py:464`); the plugin's README promises valid JSON (`:58`).
- For an array of enums, or a pointer to one, the format plugin
  sees an enum (`is_enum`), and the generated getter names a table
  `Color_arr_Members` that does not exist (`plugins/format.py:167`): the header does
  not compile.  `cmyreflection.h:146` states the requirement.

Seen while modelling, without a run of their own:

- `no_print` is accepted and does nothing (`plugins/format.py:105-106`);
  `plugins/README.md:67` says that it prevents `get_field_as_str` for the enum.
- A plugin file loaded twice under one name ends in the message about circular
  dependencies (`cmy_reflector.py:550`), which is why the properties of the sort
  speak of lists of different names.
- `to_json` of a plain type such as `TYPE_INT` writes the bare enumerator name
  (`plugins/json.py:439`), which `JsonDocument` reproduces.
- A number that does not fit its member is narrowed without an error
  (`plugins/format.py:384`), and a `char` is shown as a character but read as a number.
- The plugin template writes `T* val` for an array member and passes it to the
  getter uninitialized (`tools/create_plugin.py:177`).

## What is proved

All theorems hold for every value of the constants that satisfies the named
assumptions, which the runs evaluate on their instances.

- `FieldAccess_proofs`: `TypeCorrect`, `WritesStayInside`, `ReadsStayInside`,
  `FrozenStays`, for callers that mind the length they read
  (`CarefulReaders`).  None of the properties is inductive by itself: where the
  live cells of an array are depends on memory that writes may change.  The
  invariant `IInv` adds `HonestLengths`.  Each accessor is proved to be one of
  five kinds of outcome (writes a field, writes live cells, reads a field, reads
  live cells, reads a length), and `StepIInv` shows once per kind that `IInv`
  survives.  The decisive case is a write through a dynamic array: it stays
  in a heap block, heap blocks touch no instance, so no length and no pointer changes.
  `EnumsStayValid` is the action property `EnumsValid`: a typed call keeps every
  checked enum valid.  A setter copies a value of the member's own type, a whole
  instance over another of its type, or cells that hold no enum.  Its hypothesis
  `EnumLayout`, which `MCFieldAccess` has TLC evaluate, is what the theorem takes
  of C: instances of a type have their enums at the same places, and no union and no
  array of structs lies over a checked enum.  For those the property is false, as
  an array setter validates nothing (`cmyreflection.h:686-703`).
- `PathResolve_proofs`: `TypeCorrect`, `WalkStaysInside`, `PairIsAView`,
  `IndexInBounds`, for every table, set of paths and buffer length.  The
  invariant adds `Walking`: what the locals are between two tokens.
  `WalkImplementsLookup` is the refinement: to the caller a lookup is the one step of
  `PathLookup`, whose result is a chain of members that follows the path.  Its
  invariant (`WalkInvariance`) is that the tokens taken so far lead from the
  root to the struct at hand and nowhere else; the steps of the walk stutter and
  the step that returns is the step of the abstract lookup.
- `ReflectClient_proofs`: `Invariance`, `AccessesHitTheAsked` and
  `ElementsAreTheAsked`, for a caller that looks up and then accesses.  The
  composition uses an instance of the walk's theorems: what is proved of the walk
  is used, not proved again.  The invariant ties the pair the caller holds
  to the path of its last lookup that succeeded.  The hypothesis `PathsFit`, that no
  path is longer than the buffer, is needed: `PathResolve_toolong` is the run that shows what
  happens without it.
- `PluginLoad_proofs`, its first half about the sort: `TypeCorrect`,
  `DependenciesFirst`, `NoneTwice`, `FailsExactlyOnCycles`, for every list of plugins.  The invariant says that
  `count` is the number of unmet dependencies (`Counting`), that the free
  plugins and those taken are the ones without any (`Free`, `Apart`), and that
  no plugin is taken twice.  That a failure means a cycle follows because the
  plugins left all wait for one of them.
  `LeastOfTheOrders` says more: no other order that puts dependencies first is
  smaller, registration number by registration number.  Its invariant
  (`Leading`) is that the list so far begins like the least order, because the
  free plugin taken has the smallest number of all that any order could put next.
- `Registry_proofs`: the facts about tables, entries and views the others cite,
  the least number principle, and `Recursion`: a function that is to be built
  from its values at smaller arguments exists.
- `PluginLoad_proofs`, its second half: `LoadTypes`, `HooksFindTheirDependencies`,
  `NothingIsLeftOut`, `NoErrorIsHidden`, for every list of plugins and whatever
  they ask for, claim and export.  The invariant `LoadInv` is that of the sort
  together with `Gathered`: the data, the claims, the mappers and the errors are
  those of the plugins behind the one at hand and of no others.  Hooks find what
  they need because those plugins include all that `Topological` puts before.
- `Format_proofs`, for every registry, text and buffer.  `StringsKeepTheirEnd`:
  the invariant `StringsEnd` (`Ended` of the
  memory) is inductive: a typed setter of a plain member touches no string, a
  struct copied over another brings the ends of its own strings, and
  `set_char_arr_from_str` counts the NUL in the size it hands to the array setter.
  `PrintsEveryField` is `PrintsAll` (`StringsPrintWhole` is its part for strings, which needs
  both halves, the NUL inside the array and the buffer that grows with it; the
  other texts are shorter than `MAX_BUF_LEN`).  `ShownIsTaken` is
  `ShownTextIsTaken` and `ShowsWhatItTook` is `FieldsShowWhatTheyTook`.  Neither is
  inductive, and both need that the cells of a field hold
  bytes: a cell of 300 would be narrowed on its way back.  That is the invariant `Kept`,
  which `MembersKeepBytes` states alone.  On top of it the proofs are about the four
  conversions, for every number and width: a numeral is read as the number it was
  printed from (`DecimalIsRead`, `PrintedIsRead`) and a numeral that is taken is printed
  again as it was (`DigitsReprinted`, `TakenIsPrinted`); n bytes of a number are the
  number but for a multiple of 256^n (`LoadedShort`), and a number read from n bytes gives
  those bytes back (`ReadBytes`).  `Decimal`, `Numeral` and `Width` are recursive functions
  on numbers; that they exist, and what they compute, comes from `Recursion` and the
  least number principle.  A text is refused just when its numeral does not reach the end
  of its first line (`PrintedIsTaken`), and then nothing was called that could write.
  Hypotheses, all evaluated by TLC in `MCFormat`: `StringLayout` and `TextLayout` (what C and the
  generator say of sizes; members share cells only with the structs around them; the
  names of an enum differ), `Ended(Boot)` and `BytesIn(Boot)`, for `PrintsEveryField`
  `TextsFit` (numbers and names are shorter than the buffer), and for `ShowsWhatItTook`
  `TextsPlain`: numerals have no leading zeros, are not `-0`, and miss a type's width by
  a factor of two at most.  For others the property itself would be wrong, as `007` is taken and shown as `7`.
- `ToJson_proofs`, for every type, data and size of buffer: `JsonInvariance` and
  its parts `TypeCorrect`, `TraversalStaysInside`, `PrefixArrives` and
  `NothingBehindTheBuffer`; and for `JsonBuffer` alone, however a text is cut
  into pieces, `BufferInvariance`, `PrefixIsHeld`, `NothingBehind`.  `BufInv` says
  that the offset is `Kept` of the text so far, which also keeps the subtraction
  in `size_t` from going below zero.  `WalkInv` says what every frame of the C stack
  is about: an instance, or an array each of whose elements is an instance or
  lies in cells that may be read (`Place`).  `JsonInv` joins the two and adds what is between
  them, the tokens not written yet and the text at hand.  Assumed are
  `TypesAssumption` and `RequestsAssumption` (the caller names a type and data that
  is in order, or one readable member), and `ShownAssumption` and
  `LiteralsAssumption` (texts are sequences of characters).
  `DocumentIsWritten` is `OutputIsTheDocument`: whatever is nested in whatever, the
  traversal writes the document of the value asked for.  The property says nothing
  of a traversal half way, so the invariant `DocInv` does: what has been
  written, followed by what the tokens and frames on the stack still have to write
  (`Goes`, `Completes`), is that document.  A frame of a struct stands
  for its members from the current one on, one of an array for its elements, and
  each knows whether a comma is due.  That the recursive definition has the values
  it says (`Documents` meets its equation) is where the hypothesis `NoCycles` is
  used: no instance is part of itself, so that there is a depth to go down by;
  the code has no other limit, and data with a cycle never ends.
  `TextIsWritten` is `TextArrives`, which is about the buffer: it holds the text
  of that document, or as much as fits before a NUL.  Its invariant `TextInv` says that what
  was passed to the callback is the text of the tokens that no longer wait and then
  the part of the string at hand in front of `chr`.  It needs `PiecesFit`, as
  `JsonBuffer_scratch` shows: the scratch buffer (128 bytes) takes every formatted
  piece; strings go around it.  `MCToJson` has TLC evaluate both hypotheses.
  There is no induction rule to use, so what is said of every length, depth or
  place is proved by the least number principle (`UpTo`): were
  there a counterexample, there would be a smallest.

- `Emit_proofs`, for every list of blocks and of plugins: `KeepsWhatIsMarked`,
  `TableOfTheClosure` and `TablesLeadToTheirTypes` of the reader, and
  `TypeCorrectness` of the emission.  The properties speak of the input as a
  whole (the marked structs, the last definition of a name, the closure of the
  types they mention); the reader sees one line after another.  `ReadInv`
  bridges the two: `WhereInv` says where in the input the reader is, and
  `MarkInv`, `MembersInv`, `KeptInv`, `StructsInv` and `TableInv` say that each variable is
  what the definitions make of the part seen so far.  The lemmas about `Latest`
  and `Rank` say how these grow by one line.  When the last block
  is read the part seen is the whole and the properties follow; the emission
  changes no table.  `TagsArrive` is `TagsReachTheTables`, under the
  hypothesis `OneTagPerKey`: authors of plugins do not set one extension key by
  two tags, of which the later line of a comment would win (`MCEmit` has TLC evaluate it).
  The invariant `TagsInv` says that the extension data is what the plugins whose
  turn is over make of the tags; `CodeInv` and `WrittenInv`, that the parts of
  the text other than declarations and tables have to do with no extension
  variable.  `NothingDefinedTwice` is `DefinedOnce`, for types and members whose
  names in C differ (`NoClash`, `SuffixesDiffer`, `ExtVarsDiffer`, which are in
  the property) and under the hypothesis `PluginNamesDiffer`: no two functions or
  mappers of plugins have one name, which nothing in the generator sees to
  (`MCEmit` has TLC evaluate it too).  A symbol tells which part of the
  text it is of (`PartOf`) and which step of which plugin it comes from (`Owned`), so
  parts and steps do not meet (`OneOwner`, `OwnedPart`); within one, an entry has
  the name of its type, block or member (`UniqueInv`, `ListedInv`, `MappedDefines`).  `OnceInv`
  says so of the code gathered so far.  `NothingUsedTooEarly` is
  `DeclaredBeforeUse`, under the hypothesis `PluginsAreClosed`: what the functions and
  mappers of plugins use whatever the types are, some plugin of the list provides, by
  an include, a function, a forced mapper or an extension key (evaluated in `MCEmit`
  as well; nothing in the generator checks it).  The order of plugins does not
  matter, as every function of theirs has a prototype in front.  `UsesInv` is
  what makes that so: all the code uses is asked for by a plugin, made
  for the types or declared by a prototype; a prototype itself uses
  includes only; what a prototype declares is defined; and each step that is over
  has left its prototypes.  `EndInv` adds that every field has an enumerator when the
  text is written, and for each other part of the text a lemma says
  what it mentions and what it uses (`SettersMentioned`, `SettersUse`).  `InputsAssumption` asks that a type of C is not the
  reader's name for what it cannot resolve, and that the types of members are not `void`.

Only model-checked is liveness: `LookupReturns`, `CompatiblePluginsLoad`,
`SoundInputIsWritten`, `Finishes`.  TLAPS has no rules for fairness and `ENABLED`, which
they rest on.  Every other property of a passing run is
stated by one of the theorems.

## What is not modelled

- Text: how the regular expressions of the reader recognise texts, blocks and
  lines (two declarations on one line, nested braces), the layout of generated
  code and documentation, `#ifdef` wrappers, ctypes, indentation of JSON.
- In `Format`: `float`, `double` and `char *` members, what a conversion in a `format`
  tag does (a tag is the text before it), blanks and `+` before a number, and
  the fixed buffers of the `_MSC_VER` build.
- Custom JSON serializers beyond whether they return an error: code of the user.
- `NULL` dynamic arrays with a length above one: the code tests each element's
  address for NULL (`plugins/json.py:556`), which holds for the first only, and
  then reads at the element size; no memory could be there, so `InOrder` leaves
  such data out.  The same goes for data that contains itself: the recursion
  has no limit.
- A string without an end: reading goes on behind its array
  (`plugins/json.py:626`).  `WriteChar` stops where memory stops.
- A second bracket in a path component, and `atoi` of numbers too large for `int`.
- A field of another struct passed to `set_dynamic_S_f`, and buffers shorter than
  the caller says: the callee cannot see either.
- `plugins/example.py` (an older copy of the template), the arguments and files
  of `tools/create_plugin.py`, `scripts/`, hooks, build files, and the generated
  headers of examples and tests.

## Plan

1. Done: every module above, their runs and proofs.
2. Models that could follow: conversions in `format` tags; `char *` members in
   `Format`; the order of `#ifdef` sections.

# A TLA+ model of as-

`as-` is a limited x86_64 assembler: it reads a C source, runs its own
preprocessor, takes the inline assembler out of it and writes an ELF object
file that should equal the one GCC writes (`src/README.md`). This directory
models the parts of it that decide something, checks them with TLC and proves
theorems about pass 1, the choice of jumps, the whole assembly, expressions, the
encoders, the directives, the table and the expansion of macros and the driver with TLAPS.

Run `tlc -config MCPass1.cfg MCPass1` (and so on, see *Runs*) to check a model,
`tlapm Pass1Proofs.tla` (and so on, see *Proofs*) to check proofs.

## The system

One process assembles one source. There are no threads; each C file keeps its
state in a static structure, and Python (`as-.py`) drives it line by line
through `ctypes`. Every assertion (`flow_bug`, `input_bug`, `caller_bug`, ...)
is always compiled in: it prints and ends the process. What is hard here is not
concurrency but order: pass 1 hands out positions in structures that go on
growing, and pass 2 gives them addresses long after.

| Part | State | Operations | Hard because |
|---|---|---|---|
| `as-.py`, `scanner.py` | stack of input files, state of a continued line, text of an `__asm__` | one line in, zero or more statements out; `pass2` writes the sections | lines that continue, lines of a disabled group, macros with newlines |
| `pre/directive.c` | two bits for each open `#if`, depth | `#if #ifdef #ifndef #elif #else #endif`, test "is this line disabled" | packed fields; nesting in branches that are not chosen |
| `pre/define.c`, `pre/undef.c`, `macro.c`, `tokenlist.c` | table of macros, by index; the macro being defined | `#define` (first line, next lines), `#undef`, lookup | indices are kept elsewhere while the table grows and slots are used again |
| `post/tokenize.c`, `param.c` | stack of expansions, table of parameters | next token of the expanded line | nesting, ownership of parameters, macros that name themselves |
| `post/skip.c` | stack of brackets, four deep | skip C up to the end of a construct | limits |
| `asm/x86_64.intel.c`, pass 1 | current segment and procedure, addresses | one statement | see below |
| `asm/fragments.c` | list of code fragments, the open one | append bytes, append a jump, close, change segment | an empty fragment may still change segment; identifiers and lengths have few bits |
| `asm/sym.c` | name -> value | set value, type, bind; look up | a name may have an entry before it has a value |
| `asm/procs.c`, `asm/reftbl.c` | procedures with CFI entries; references to patch | append, enumerate | they hold addresses to be resolved later |
| `asm/x86_64.intel.c`, pass 2 | the jumps of one segment, sections | decide short or long jumps, lay out, resolve, relocate | a fixpoint; many passes over the same lists that must agree |
| `asm/calc.c` | operator stack, eight deep | take a token; return a value; take the registers out of an operand | one reduction for each operator; names without a value |
| `asm/x86_64.intel.c`, encoders | none | a statement to bytes | forms chosen by kind of register, offset and index; numbers that mean something else to the processor |
| `elf.py` | bytes | write headers and sections | output only |

Interaction: `as-.py` -> `directive_parse_line` / `tokenize_get_C` ->
`as_pass1_x86_64_intel` for each assembler statement -> at the end `as_pass2`,
then `as_pass2_result` once per section. Pass 1 calls `fragments`, `sym`,
`procs` and `reftbl`; pass 2 reads all four and writes back addresses, lengths
and jump forms.

What makes each part correct:

- fragments: closed ones never change; an open one only grows; a jump ends one.
- pass 1: an address points at the item it was taken at, whatever follows; the
  addresses of procedures are ordered and stay in one segment; the four or
  eight bytes in front of a reference belong to it.
- jump optimization: it ends; no short jump is out of reach; no jump is long
  for nothing.
- pass 2: patches, relocations, lengths and unwind records mean what the source
  said; a well-formed source is assembled to the end.
- conditionals: at most one branch of a group is chosen, and only chosen lines
  count.
- macro table: a dictionary; an index means one macro until that is removed.
- lines: a line is taken for what C takes it for (directive, its continuation,
  text, nothing), whatever comments and continued lines are around it.
- statements: one that is skipped ends where C ends it, so no `__asm__` is lost.
- expansion: the tokens C defines; every argument is there as long as something
  reads it and no longer; each line ends.
- encoders: the bytes mean the statement.
- expressions: the conventional value, and never a zero in the place of a name
  without saying so.

## Modules

| Module | Models | Composes |
|---|---|---|
| `Fragments` | `asm/fragments.c` as operators on the list | |
| `Pass1` | pass 1: one action per kind of statement | `Fragments` |
| `Relax` | pass 2.1: short and long jumps of a segment, loop by loop; addresses of fragments | `Fragments` |
| `Assembler` | both passes of one source, from the first line to the sections | `Pass1`, `Relax` |
| `IfDirective` | conditional directives as packed fields | refines `Conditionals` |
| `Conditionals` | abstract: a stack of groups with a chosen branch | |
| `TokenList` | `tokenlist.c`: growth and reuse of indices | |
| `MacroTable` | `#define` and `#undef` | `TokenList`; refines `Dictionary` |
| `Dictionary` | abstract: a set of names with room for so many | |
| `MacroExpand` | expansion: `post/tokenize.c`, `param.c`, the iterator of `macro.c` | `MacroTable`, `TokenList` |
| `Expansion` | reference: what expansion means, as a recursive definition | |
| `Preprocess` | the state of a line in `as-.py`, `scanner.py`, `directive_parse_line` | `IfDirective` |
| `Statements` | `cc()` of `as-.py` and `post/skip.c` | |
| `Driver` | `pass1()` of `as-.py`: sources, lines, tokens | `Preprocess`, `Statements` |
| `Operand` | `_opr2val`: base, index and value of a memory operand | |
| `Encode` | the encoders, one action for each C function | `Operand`, `Decode` |
| `Decode` | reference: what bytes mean to the processor | |
| `Expression` | values and operators of `calc.c`; the conventional meaning of an expression | |
| `Calc` | `calc_expr2n`: the operator stack, token by token | `Expression` |
| `Pass1Proofs` | theorems about `Pass1` | `Pass1`, `FiniteSums` |
| `MacroExpandProofs` | theorems about `MacroTable`, the refinement of `Dictionary` included, about `MacroExpand`, and that this keeps `MacroTable`'s specification | `MacroExpand`, `FiniteSums` |
| `DriverProofs` | theorems about `IfDirective`, the refinement of `Conditionals` included, about `Driver`, and that this keeps `IfDirective`'s specification | `Driver`, `FiniteSums` |
| `EncodeProofs` | theorem about `Encode` | `Encode`, `FiniteSums` |
| `CalcProofs` | theorems about `Calc` | `Calc`, `FiniteSums` |
| `RelaxProofs` | theorems about `Relax` | `Relax`, `FiniteSums` |
| `AssemblerProofs` | theorems about `Assembler` | `Assembler`, `Pass1Proofs` |
| `FiniteSums` | lemmas about least elements and sums over finite sets | |
| `MC*` | instances for TLC | |

### How state and actions correspond

*Fragments.* `frags.pieces` is `pieces[]` without the `NULL` at its end;
`frags.open` says whether the last one is still open. Identifiers are positions,
one larger than in the code. A fragment keeps its segment, the length of its
fixed bytes, the two lengths, kind and target of its jump, and its address.

*Pass1.* `seg_id`, `proc_id`, `addrs`, `procs`, `reftbl` are the code's;
`syms[n]` is `ABSENT` (no entry), `NUM` (a number, zero included) or `OFFSET`
(an address). `Source` says for each line which kinds of statement it may be,
so one model covers every source of a shape. `Code(n)` is a run of
instructions that refer to no label, `n` bytes in all; which bytes they are is
abstracted. A statement that fails an `input_bug`, or is not implemented, ends
the process with a message about the source: there is no step. One that fails
another assertion sets `fault` to the function's name.
Five history variables say what the source meant: `emitted` counts the items
(bytes and jumps) of each segment, `meant[a]` is the segment and item address
`a` was taken at, `given` are the names that got a value, `lost` the names
whose placeholder zero was written, `retagged` the fragments that changed
segment with addresses in them.

*Relax.* `shrink`, `i_from`, `before`, `after` are those of
`_jmp8or32_optimize`; each turn of its inner loop is one step. A label of
another segment makes the code read memory it never wrote: `DecideBlindly` lets
anything follow. `capable` is history.

*Assembler.* `phase` runs `pass1`, `startup`, `optimize` (for each segment),
`addresses`, `lengths`, `cfi`, `references`, `results`, `done`. The remaining
variables are what each step of pass 2 produces. `DecideFails`, `FnLenFails`,
`CfiFails` and `Stop` are the assertions of pass 2.

*IfDirective.* `field[d]` is the two-bit field of depth `d`. The condition of
`#if` and `#elif` is any.

*MacroTable.* `table.map` holds the slots 1 .. `macro_used`-1, `table.n` is
`macro_max`.

*Preprocess.* A line is a sequence of words. Blanks in front of a line, a `/`, a
run of number signs and a comment's delimiters are words, for the program tests
the first character of a line (`as-.py:110`, `:158`) and its scanner the next
one. Of all other words the model knows what the program looks at in their
spelling: `Glued` end in a backslash, `Zeros` and `Ones` begin with that digit
(`#if` reads no more of its operand, `directive.c:132`), `Files` and `Headers` are
arguments of `#include`; of any other one the process ends. `pp_state` is Python's flag for a
directive that goes on, `continued` C's, `comment` the scanner's. One action for
each way through `preprocess()`; `DirectiveLine` is the whole of
`directive_parse_line`, with `_dispatch` (the actions of `IfDirective`) and
`_dispatch_aux`, and the list of parameters of a `#define` is read as `define.c`
does. An error about the source sets `halted`. "Waste tokens" (`as-.py:145`)
needs what `directive_parse_line` returns, which `as-.c:107` does not pass on: the
count is still in the register the caller reads, because the call is the last
thing the function does, and `Wasted` has this outcome of the build.

*Statements.* `cc_state` and `joined` are `s_cc_state` and `s_cc_remainder`,
`skipping` is the stack of `post/skip.c` with the brackets each state counts.

*Driver.* `sources` counts the open files, `pending` are the tokens of a line
that `cc()` has yet to take. `inside`, `spliced`, `nest` and `between` follow
what C says of the same lines and tokens; they never look at the code's flags.
The tokens are taken as expansion returns them: `MacroExpand` models what
happens between a line and its tokens.

*MacroExpand.* `frames` is `resolve_stack`, `params` the table of arguments by
index, `call` what is read of a macro call (`heap()`, `parsed()`), `found`
`found_id`. Each turn of the loop of `tokenize_get_C` is one step, so is each
turn of the loops over arguments. A token is a word, or the mark of a
parameter. `text` and `out`, the lines since no call was open and the tokens
returned, are history. A directive inside of a call may remove the macro that is
called, and another one may take its index over: its body may have marks beyond
the arguments that were read (`IsGiven`). The code then reads `params[]` behind
`params_len` (`tokenize.c:268`), or finds no macro (`EnterMacro`); both are
`Fail`.

*Encode.* A line is a mnemonic with its operands parsed, and as written; `Read` takes
one, the action named for the C function gives its `code` or refuses. Registers are kind
and number, as in `REG_TYPE`. What an encoder refuses is `<<>>`, wherever in the
function the assertion is. `Operand` gives base, index and value as
`_opr2val` finds them, right to left over the brackets.

*Calc.* `stack`, `state`, `unclosed` and `replaced` are the fields of
`PUSHABLE`; `stack[1]` is the bottom, depth 0. Each token is one step, and any
token may come, also one that does not fit. `expr` is history. An operator has a
set of results in `Expression`: empty where an assertion or a division by zero
ends the process, all numbers for a shift by the width or more, which C leaves
open. `Meaning` reads the tokens by splitting at the last operator that binds
least; it shares with `Calc` what one operator does, and nothing of the stack.

## Runs

Bounds are in the `.cfg` and `MC` files; there is no symmetry and no state
constraint.

| Run | Module, cfg | Shows |
|---|---|---|
| `pass1` | `MCPass1`, `MCPass1.cfg` | every source of six statements, whatever they are |
| `relax` | `MCRelax`, `MCRelax.cfg` | three jumps over four fragments |
| `assembler` | `MCAssembler`, `MCAssembler.cfg` | sources of up to ten statements, both passes |
| `driver` | `MCDriver`, `MCDriver.cfg` | sources of any length in 44 kinds of line |
| `expand` | `MCMacroExpand`, `MCMacroExpand.cfg` | five macros, any sequence of `#define`, `#undef` and lines, calls over two of them |
| `calc` | `MCCalc`, `MCCalc.cfg` | expressions of up to seven tokens |
| `encode` | `MCEncode`, `MCEncode.cfg` | 155 000 states of statements and their bytes |

*pass1.* One label, code of one byte, `ObjLenMax` 9 and `InvalidId` 3, so that
`lea` (7 bytes) and `.quad` (8) fit once but not twice and the third fragment
meets the assertion of the code's 1024th. Six statements are enough to open,
close, retag and reopen fragments in both sections around a procedure with a
CFI entry.

*relax.* Lengths of 0, 3 and 120 bytes put displacements on both sides of
-128 and 127 with every mixture of short and long jumps between; the run
includes pairs of jumps that stay ambiguous. `DecidedLikeLeast` compares with a
definition that has nothing to do with the loops: the least set of jumps that
is closed under "out of reach, so long".

*assembler.* One procedure with code of 1 or 127 bytes, forward and backward
jumps, a jump to its own fragment, a call, `lea` and `.quad` across sections,
`.size` and CFI entries, `.text` and `.rodata` in either order; widths are the
code's. The properties compare addresses with `ByteAt(meant[a])`, the byte
where the layout puts the item the source named.

*driver.* Every sequence of lines: directives of each kind, behind blanks,
continued, with parameters and malformed, comments open over lines, lines cut
short by a `/`, `#include` of a file, of a header and of what is neither, a declaration, a
`typedef struct` with brackets inside, calls, and `__asm__` over several lines.
Three levels of groups stand for fifteen: the limit is met. Two
sources, two brackets and one string in a line of assembler bound what the code
does not (`IncludeMax`, `NestMax`, `JoinedMax`): an `#include` returns inside of a
statement, and brackets of two kinds nest (the theorems hold for
every value of these bounds). `LinesAsMeant` and
`OnlyDirectivesParsed` speak of sources without the lines that `Unsupported`
names; these are the places where the code differs from C:

- an empty line in a continued directive;
- a line that goes on elsewhere than in a `#define`, or before the name there, or
  behind `//` or a `/`, or by a backslash glued to its last word;
- a delimiter of a comment in a line that is not scanned;
- a `/` outside of comments, which ends the scan of its line (`scanner.py:75`);
- a star at the end of a line within a comment (`scanner.py:24`);
- a directive behind blanks or a comment, which the code takes for text, `##` at
  the beginning of a line and a `#` inside of a comment, which it takes for
  directives.

Each of them is needed: without it TLC finds a line of the run that is taken for something
else. `TypeOK` to `ImplementsConditionals` are those of `IfDirective`, whose
actions happen inside of `DirectiveLine`. `OneBranch` says that a group which
left its chosen branch enters no other; that it does not choose twice straight
from the state before is `ImplementsConditionals`'s.

*expand.* A function-like macro, one that calls another, an alias, one with `#`
and `##`, an empty one. Lines hold calls inside of calls and calls that go on in
the next line, both with every argument within a line (`cat ( a ,` and `b )`) and
with one over two; a name without its bracket ends a line, which `Fail` refuses;
directives come between any two lines, also inside of a call. Four slots (grown
from two) stand for 4096 (grown from 128), so growth and the limit are met; four
for the 256 arguments are as many as the deepest nesting needs. `FaithfulExpansion` compares with
`Expansion`, a recursive definition without frames; `WholeArguments` leaves out
an argument that goes over a line end, which reads the wrong text
(`tokenize.c:540`, marked as pending there), and a directive inside of a call, after which
`found_id` may be another macro's (`tokenize.c:601`). `IdsStay` does not cover the
latter: it speaks of live indices, and the index is dead by then. No macro names itself.
`TypeOK` to `ImplementsDictionary` are those of `MacroTable`.

*encode.* All kinds of register with the numbers 0 and 5, bases 0, 4 and 5
(which the processor reads otherwise), `eax` and `r9b` where a base is expected, offsets on both sides of -128 and 127,
indices with scales 2 and 8, odd operand texts, and immediates on both sides of
each limit of the code. `CodeMeansStatement` is an equivalence: a statement that
is taken is decoded to itself, *unless and only unless* `Misencoded` names it, so a
repaired encoder would violate it as well. `Misencoded` has the causes:

| Cause | What is written |
|---|---|
| `HighByteWithRex` | `ah` to `bh` beside a REX prefix: the processor reads `spl` to `dil` |
| `NoSib` | `[rsp]` without SIB; or the constant 0044 behind another base (:414, :632, :1469) |
| `NoDisp` | `[rbp]` without offset: the processor reads an absolute address |
| `IndexLost` | a scaled index is forgotten (:653, :1076, :1322, :1439) |
| `OffsetLost` | an offset beyond one byte loses its high bits (:444, :988, :1090), or all (:452) |
| `BaseLost` | `movzx` chooses the prefix by the offset, not by the base (:971) |
| `SizeLost` | a word immediate of 128 to 255 as one byte (:1353); a size that is not looked at (:1321) |

*calc.* One number, a label of a segment, a name without a value, a malformed
token, both brackets, `not`, and an operator of each priority. Seven tokens hold
four operands and three operators, the fewest in which two operators wait, or
two nested brackets with a sign. Numbers have four bits, so that they wrap and
shifts overflow; six entries stand for eight. `Waits` is what an expression must
not have for the stack to be right: `ConventionalValue` shows that nothing else
goes wrong, `precedence` that this does. `Stranded` narrows it: where sums wait
for sums the order of the operations does not matter, unless an operand is an
offset. That exception takes eleven tokens, and the proof found it, not a run: in
`(a + 3*3 - 3) - a`, with a label `a`, the code takes 3 from 9 and has a value,
where from left to right it would take a number from an offset, which `_binary_op` refuses.

`CHECK_DEADLOCK FALSE` everywhere: a source ends, an assertion ends the
process, a statement with an error has no step.

### Fairness

`MacroExpand` assumes weak fairness of `GetC`: `tokenize_get_C` is a loop that
waits for nothing, so a line once begun is read on. Nothing is assumed of the
lines. `LinesEnd` is its liveness property.

`Relax` and `Assembler` assume weak fairness of pass 2 only: once the source has
ended the program runs to its end without waiting for anything. Nothing is
assumed about the source, which may end at any line (that is, no line need be
read). `Terminates` and `CleanAssembles` are the liveness properties.
`CleanAssembles` names what a source must satisfy (`Clean`): both section
symbols, every `.text` fragment before every `.rodata` one, jumps only to labels
of `.text`, complete procedures, `.quad` only across sections, a reference each
way between the sections, and no fragment retagged.

### What the violation runs show

Five runs state what the repository says of the program and find that it does
otherwise. PROJECT.json quotes each line.

- `relax_mixed`: `_jmp8or32_optimize` compares a fragment identifier with a
  position in the list of one segment. With `.rodata` opened before `.text`
  the two differ, and a jump gets a short form that does not reach; an
  assertion of pass 2 then ends the process.
- `sections`: a procedure that ends with a jump has its end address in an empty
  open fragment, which the next `.section .rodata` takes with it.
- `quads`: `.globl f`, `.quad f`, `f:` writes zero and no relocation.
- `nested`: a body that hands its own parameter to a call inside of a call
  (`#define wrap(p) id(id(p))`) ends the process at an assertion.
- `precedence`: `3-3*3-3` is `3-(3*3-3)`. An operator reduces the stack once,
  and what still waits is reduced from the right at the end.

Some disagreements have no run of their own. A star that is the last character of
a line within a comment ends the comment: the loop of `scanner.py:24`, which "looks for
`*/`", leaves at the end of the line with the place of that star, and what was to be
"not found" is taken for found (`InsideAfter`, `Unsupported`). `#if 0x1` is
taken for `#if 0`, and `#if 10` for `#if 1`, where `directive.c:137` promises an error for
all but `0` and `1`: one character is compared (`IsConstant`). A note on `macro.c:53` says that the
index of a removed macro is not used again, and a full table does use it again
(`tokenlist.c:70`); `IdsStay` says what does hold of indices. A second `#define`
with a body is not ignored as its warning says, but ends the process
(`define.c:84`, `AuxFails`). A source without a reference from `.text` to
`.rodata`, or none the other way, has no section of relocations there, which is
an assertion when the driver asks for it (`x86_64.intel.c:3613`, `Results`);
`Clean` asks for both. The statements of `Misencoded` are taken and written
wrong, where GCC's assembler writes them right.

The passing properties say so where they need the source not to do this:
`AddressesStay`, `AddressesResolve`, `ReferencesLand` and `UnwindMatches` leave
out fragments (or sources) that were retagged, `relax` has all of its fragments
in one segment.

## Proofs

`Pass1Proofs` proves, for every source and every value of the constants, under
`NoneAssumption`, `LimitsAssumption` (limits are naturals) and
`SourceAssumption` (`Source` is a sequence of sets of kinds of statement,
lengths of code are positive):

| Theorem | Statement |
|---|---|
| `Inv1Holds` | `SpecPass1 => []Inv1` |
| `TypeCorrect` | `[]TypeOK` |
| `ShapeHolds` | `[]FragmentShape` |
| `AddressesHold` | `[]AddrsInside` |
| `SitesHold` | `[]RefSitesInFragment` |
| `FragmentsOnlyGrow` | `FragmentsSettle` |
| `ProcsOrderedHolds` | `[]ProcsOrdered` |
| `AddressesStayHold` | `[]AddressesStay` |

*The argument.* `Inv1` is the conjunction of the type invariant, the shape of
fragments, "addresses are inside", "references have addresses"
(`RefsHaveAddrs`) and "the place of a reference is inside". The last does not
hold by itself: a step that appends a reference must know that its address
exists and how long its fragment is, which needs the others, and `FragmentShape`
is what makes reusing the open fragment safe. Each step keeps `Inv1` because of
`Keeps`: fragments settle (`Settles`) and the list of addresses only gets longer
(`AddrsExtend`), so what was said of an old address still holds. The lemmas
`EnsureSound`, `CodeSound` and `JumpSound` say this of the operators, one lemma
per statement says it of the action, and `Inv1Step` combines them.
`FragmentsOnlyGrow` comes from the same lemmas.

`ProcsOrdered` is not inductive either: `InvProcs` adds that procedures have
addresses (`ProcsHaveAddrs`) and that no procedure but the last is open
(`LastIsOpen`). A new address is at the end of the last fragment, so it is behind
every older one (`NewIsLast`), and the order of older ones does not change
(`BeforeStays`).

`AddressesStay` compares an address with a count of items, a sum over the
fragments of a segment. `InvStay` adds that `emitted` is that sum over all
fragments (`EmittedIs`), so that an address taken now is the item that comes
next, and that a segment with a fragment has its section's name in the table of
symbols (`SectionsNamed`), so that the first address of a section is not taken
twice. A fragment that moves to another segment moves no item, as it is empty; the
addresses in it are those `retagged` names. The prover has no induction over
sets; `FiniteSums` does without: a claim about all subsets of a finite set holds
because a smallest subset for which it fails does not exist (`SmallestSet`), and
so `SumFunctionOnSet` has the laws one expects (`SumAdd`, `SumApart`, `SumLess`).

`DriverProofs` proves of the directives by themselves, for every set of macros and every
`DepthMax` (`DepthAssumption`):

| Theorem | Statement |
|---|---|
| `InvHolds` | `Spec => []Inv` |
| `TypeCorrect` | `[]TypeOK` |
| `ClearAbove` | `[]FieldsAboveClear` |
| `OneBranchHolds` | `OneBranch` |
| `Refines` | `ImplementsConditionals` |

*The argument.* `Inv` is the type invariant with `FieldsAboveClear`. A group is
pushed on a clear field (`PushInv`), rewritten in its own field (`SetInv`) and
cleared when it closes (`EndifInv`). For the refinement, `GroupsSeq` says that the
groups the fields stand for are a sequence as long as the depth; `PushOpens`,
`SetBranches` and `EndifCloses` say that a directive maps to the operation on
that sequence, `EnabledLines` that a line which counts is one that counts in
`Conditionals`. `StrayElif` maps to a stutter.

`MacroExpandProofs` proves, for every set of names, under `NullAssumption` (an
empty slot is not a name), `TableAssumption` (the first allocation has at least
two slots and is within `ReserveMax`) and, for the last theorem,
`GrowthAssumption` (doubling from `ListInitMax` ends at `ReserveMax`, as with the
powers of two of the code):

| Theorem | Statement |
|---|---|
| `InvHolds` | `Spec => []Inv` |
| `TypeCorrect` | `[]TypeOK` |
| `TableInsideHolds` | `[]TableInside` |
| `NamesUniqueHolds` | `[]NamesUnique` |
| `IdsStayHolds` | `IdsStay` |
| `Inv2Holds` | `Spec => []Inv2` |
| `Refines` | `ImplementsDictionary` |

*The argument.* `Inv` says that the slots in use are fewer than those allocated
(`Shape`) and that two slots with one entry are free (`Unique`). `NatMin` gives
that `Min` denotes a least element, so `LookupSound` and `CreateIdSound` can say
which slot is found and which is given out; `DefineChanges` and `UndefChanges`
say that one slot changes and all others stay. `Unique` is kept because a name is
defined only after its lookup found none. For the refinement, `Inv2` adds that
the table has a size of the doubling (`SizeOK`), and `KnownCounted` that names
and live slots correspond one to one; a definition is refused only when all
`ReserveMax` - 1 slots are live (`FailsFull`). `Redefine` maps to a stutter.

It proves of the driver, for every set of lines, words and strings and every value
of the bounds, under `DepthAssumption`, `LinesAssumption` (a line is a sequence of
words), `NamesAssumption` (any word of a line may name a macro, and so may the star or
backslash the scanner makes of the end of a line), `ParamAssumption` (at least one
parameter is allowed) and `MarksAssumption` (the brackets, `;`, `,`, `*`, `=`, `#` and `\`
are single characters, and no string of `__asm__` is one of them):

| Theorem | Statement |
|---|---|
| `DirectivesKept` | `SpecDriver => Spec` |
| `DriverRefines` | `ImplementsConditionals` |
| `DriverTypes` | `[]TypeOK` |
| `DriverClearAbove` | `[]FieldsAboveClear` |
| `DriverOneBranch` | `OneBranch` |
| `ContinuedTogetherHolds` | `[]ContinuedTogether` |
| `LinesAsMeantHolds` | `[]LinesAsMeant` |
| `OnlyDirectivesParsedHolds` | `[]OnlyDirectivesParsed` |
| `SkipStackRoomHolds` | `[]SkipStackRoom` |
| `StatementsEndHolds` | `[]StatementsEnd` |

*The argument.* `StepCases` separates the steps that read a line from the one
that takes a token. `LineIsDirective` and `DirectiveIs` reduce a step to what it does
to the fields. The operand of a directive is a word of its line, so by
`NamesAssumption` this is one of `IfDirective`'s actions, or a stutter
(`DirectivesKept`): the driver calls its handlers and nothing else touches the
fields. All that is proved of the directives by themselves holds with the driver on top.
`ContinuedTogether` is inductive by itself.

For the lines, `LinesInv` says that the code's idea of the place agrees with C's
(`InAgreement`: inside of a comment, in a directive that goes on) and that such a
directive is a `#define` in a group that is not skipped. `Treated` follows. What the
scanner returns is a fold over the words: `ScansUnique` and `ScansExist` (by the
smallest place where two scans differ, or that has none) give `ScanUnfolds`, the
step from word to word, and from this the few facts needed: a backslash behind
nothing that ends the scan is its last token (`EndToken`), a line without
delimiters leaves a comment as it was (`NoDelimiters`), behind `//` nothing is read
(`SlashesFirst`), and where the scan is cut short C reads on, but sees the same
command (`CutCommand`). `GoesOn` says that a line that goes on, and
continues nothing, is a `#define` that counts for both, and `DefineReads` that its
list of parameters leaves the backslash unread. Where a line begins and
where its tokens do need not agree: `Unsupported` has the case, and `PoundsAgree` what
holds without it.

`StackInv` says
which stacks there are: a declaration alone (`Flat`), or one with a bracket above
it (`Nested`); `SkippedFlat` and `SkippedNested` say that a token leads from such
a stack to such a stack. `StatementsEnd` needs to know what the stack stands for:
`EndsInv` relates it to `nest`, the brackets C has open. In round brackets the
counter is one less than the length of `nest`, which holds nothing else
(`RoundAs`). Curly brackets let round and square ones pass without counting
them, so there the counter is one less than the number of curly ones in `nest`,
and the first of `nest` is one of them (`CurlyAs`): when the counter is zero at a
`}` that fits, the last one is also the first (`CountOne`), and nothing else is
open. That `matched` holds is used there and nowhere else: with brackets that
cross, `post/skip.c` would end early.

`RelaxProofs` proves, for fragments of any number and any lengths, under
`LimitsAssumption`, `NoneAssumption` and `SegModAssumption`:

| Theorem | Statement |
|---|---|
| `RelaxInvHolds` | `SpecFirst => []RelaxInv` |
| `Rel8ReachesHolds` | `SpecFirst => []Rel8Reaches` |
| `DecidedLikeLeastHolds` | `SpecFirst => []DecidedLikeLeast` |
| `OnlyCirclesLeftHolds` | `SpecFirst => []OnlyCirclesLeft` |
| `LoopAssertionsHold` | `SpecFirst => []LoopAssertions` |

`SpecFirst` is the specification of the loops from any fragments and targets that
satisfy `JumpsFirst`: every jump is in a segment whose fragments come first and
leads to a place of that segment. Without it the code does decide wrongly; the run
`relax_mixed` shows such a source. TLC's evaluation of `InitOneAssumption`
(`MCRelax`) shows that all initial states of the run `relax` satisfy it.

*The argument.* `RelaxInv` says of the loops: a jump marked short reaches even if
all jumps that are still ambiguous get long (`ShortReach`); a jump marked long is
in every set of jumps that is closed under "out of reach, so long"
(`LongNeeded`, for all such sets at once); and while a turn of the outer loop
decided nothing, each ambiguous jump it has passed can reach in one extreme layout and not in the
other (`Undecidable`). Deciding one jump only narrows the extremes: fragments
get no shorter in the least layout and no longer in the greatest, and
a distance is monotone in the lengths (`DistanceLess`, `FallsMore`). At the end
the loop has passed all of them, which gives `OnlyCirclesLeft`. `LoopAssertions`
needs the count: `after` counts what is ambiguous before `i_from` (`Counted`).

`AssemblerProofs` proves, for every source and every value of the constants, under
the assumptions of `Pass1Proofs` and `SegModAssumption`:

| Theorem | Statement |
|---|---|
| `AsmInvHolds` | `Spec => []AsmInv` |
| `AddressesResolveHolds` | `Spec => [](SegmentsFit => AddressesResolve)` |
| `AllInvHolds` | `Spec => []AllInv` |
| `ReferencesLandHolds` | `Spec => [](SegmentsFit => ReferencesLand)` |
| `PatchesApartHolds` | `Spec => [](SegmentsFit => PatchesApart)` |
| `UnwindMatchesHolds` | `Spec => [](SegmentsFit => UnwindMatches)` |

`SegmentsFit` says that `.text` and `.rodata` are shorter than `SegMod`; longer ones do wrap
`seg_addr`, and the properties fail. The last four theorems assume in addition
`Labels \cap SectionNames = {}`: a label `.text:` would give the section symbol
another value, and the code does not refuse it. Nothing is assumed about the jumps: what
`relax_mixed` shows makes a short jump that does not reach, which an assertion
refuses before the references are written.

*The argument.* `AsmInv` is pass 1's invariant until the source ends, then
`LayoutInv`. This says that a fragment of a segment that is laid out stands behind
the fragments of its segment with smaller identifiers (`Addressed`, a sum modulo
`SegMod`), that the length of such a segment is the sum of them all (`Measured`),
that an address is within the fixed bytes of its fragment or just behind its jump
(`Pointing`), and that it counts the items in front of the one it was taken at
(`Meaning`). `AddressesStay` of pass 1 is where `Meaning` begins (`SourceLayout`).
The loops of pass 2.1 change the forms of jumps only in the segment at hand, which is not
laid out yet (`AlikeKeeps`). When it is, they number the fragments by rank (`SumRanks`
turns a sum by rank into one over identifiers), and each jump takes
an address behind itself (`CloseLayout`). `PlaceIs` adds the two sums: the bytes in
front of an item are those in front of its fragment and those in it.

`AllInv` adds `PassTables`: addresses that tables hold exist; a section's name has
its value in its own segment; the bytes of references in one fragment are stacked
(`Stacked`), since a reference is appended with the bytes in front of its address
(`NewOnTop`), and a jump at the end of its fragment (`CloseTables`). It also adds
`Outcome`: what each step of pass 2 wrote, and that it found no error. The proof of
`PatchesApart` then needs `Stacked` within a fragment and `FragmentsApart` between
two. For `UnwindMatches`, what was written before in a segment is not behind
(`BeforeIs`), so no advance is cut off at zero, and the advances are the steps of a
walk (`SumSteps`).

`CalcProofs` proves, for every set of tokens, width, stack size and length, under
`WidthAssumption`, `NumbersAssumption` (tokens and names stand for numbers of that
width) and `PowersAssumption` (`2 ^ (i + 1) = 2 * 2 ^ i`, which the provers do not know
of a variable exponent):

| Theorem | Statement |
|---|---|
| `PlaceOfBracketHolds` | `Spec => []PlaceOfBracketFree` |
| `ZeroReportedHolds` | `Spec => []ZeroReported` |
| `StackClimbsHolds` | `Spec => []StackClimbs` |
| `ConventionalValueHolds` | `Spec => []ConventionalValue` |

*The argument.* The entry below a bracket keeps the value it had when the bracket
was pushed, which is fresh because an operand is still awaited there
(`Fresh`); reducing touches no entry below a bracket (`InvPlace`). For
`ZeroReported`, `Role` says what each token is by its place in the whole
expression, and `state` what the automaton takes it for: `StateFits` relates the two
for one function of roles, `RoleUnique` (a smallest place where two differ)
says there is only one, and `RoleNext` that a further token leaves the roles
before it alone.

The other two share `InvClimbs`, which gives each entry of the stack the place in the
expression it comes from (`Climbs`). `Stands` has the operator or bracket at that place,
and says that the expression stayed within the brackets open there ever since and that each
operator on the same level since then binds more tightly, or waits for it
(`Waiting`). `Ranked` has the operators that are reduced already: between two entries
they bind as tightly as the upper one. `Valued` has the values: that of an
entry is one of the tokens between it and the next entry. When an operator is pushed
that does not bind more tightly than the top, one reduction takes the top
away, and an operator below that should be reduced as well is then one that waits
(`TopWaits`, `LooserClimbs`). A pair that waits goes on to wait when the expression gets
longer (`WaitingKept`), so the invariant speaks only of expressions in which none is stranded.

`Meaning` is a recursive function, on pairs of places. That there is one function that
satisfies its equation is shown by hand, for longer and longer runs of tokens
(`PartialGrows`, `MeaningExists`), and so is that it says the same of a token and of
all that follow (`MeaningAlike`). It splits a run of tokens at the last of the operators that
bind the least. `Combine` is the heart of the proof: any operator `Splits` a run
if no operator on its left binds less and each on its right binds more, or as
much where both may be regrouped. By a smallest run for which this fails, it comes down to
`a + (b - c) = (a + b) - c` modulo a power of two (`Regroup`), and to the like of the bitwise or,
of which the library knows nothing: `BitOrAssociative` goes by the digits of a number
(`DigitOf`). With that, what the stack is reduced to has the values of the tokens behind its
lowest entry (`ReducedIn`), and the lemmas `OpenFollowed` to `BinaryFollowed` keep
the invariant, one for each action.

It proves of expansion, for any macros, lines and limits, under the same
assumptions, `MacrosAssumption` (bodies and lines are
sequences of words, none of which is the empty slot) and `ParamAssumption` (the
first allocation is within `PARAMID_MAX`):

| Theorem | Statement |
|---|---|
| `ExpandInvHolds` | `SpecExpand => []ExpandInv` |
| `ArgumentsHeldHolds` | `SpecExpand => []ArgumentsHeld` |
| `TableKept` | `SpecExpand => Spec` |

*The argument.* Who holds an argument changes hands: the call being read opens it
(`ParamCreated`), the frame of the macro takes it over (`PushedHeld`), and it goes
when that frame does (`CutHeld`, `ParamDropped`). That a frame which reads an
argument stands above its owner is what makes dropping safe; that a dropped frame
of an argument holds none itself (`FramesOK`) is what makes `OpenBracket` drop
frames without releasing anything. The call's own state must say what it holds
at each point (`CallOK`), and the macros at work must be in the table
(`MacrosLive`): directives come between lines, and between two lines only the
root is on the stack, even inside of a call. `TableKept` gives every theorem of
the table for the expansion.

`EncodeProofs` proves, for every set of statements, under `FormsAssumption` (operands
are what the tokenizer makes: registers of the table, numbers of 32 bits, brackets
that hold something; and as many as the mnemonic has):

| Theorem | Statement |
|---|---|
| `Meaning` | `Spec => []CodeMeansStatement` |

*The argument.* There is little to be inductive about: `EncodeInv` says that what is in
hand was parsed and that the bytes are its own. The work is in three
comparisons. What is written and what `_opr2val` makes of it: `ParsedIs` goes through the
brackets from the right, with a smallest place where the fold and the sum of the terms
differ, and `RegistersFound` says that base and index are then all the registers
there are. The bytes and what `Decode` reads: there is one lemma for each kind of
prefix (`NoPrefix`, `Prefix66`, `RexPrefixes`), for each opcode (`OpMR` to
`OpIncDec`), and for each way to write an address, which says when the processor
reads that address and when another one (`AtReads` to `SibLongReads`).
The two together: for each form (`FromMeans`, `ToMeans`, `OnlyReaches` and so on)
an instruction with these operands is the statement if the address, the
register and the number are, and is not if one of them is not. Then one lemma
goes through the arms of each encoder (`FromPtr64Is` to `FlagsIs`), and shows for
each arm which of the causes in `Misencoded` it can have. That the theorem is an
equivalence is what makes it long: for each arm the bytes that are *not* the
statement must be shown to be those.

*Only model-checked.* The liveness properties stay so: liveness and `ENABLED` are
out of the prover's reach. So does `FaithfulExpansion`, which compares with a
definition that recurs into bodies and arguments alike.

## Not modelled, and why

- Bytes of `.byte` and `.long`: `Pass1` has their lengths. Instructions with a
  label have their lengths and references there, not their opcodes.
- Names of registers and mnemonics: sets instead of tables of strings. `dword
  ptr` is not in the code's table. Immediates fit in 32 bits.
- In `Pass1` an expression is one name or a number, in `Operand` a sum.
- The `-E` path of `as-.py` that passes lines on to GCC; the null directive (a
  `#` alone), after which the code reads a token behind the line.
- Within a line of the driver: a string is one word, so unclosed ones and `\"`, which
  end the process, are left out; so are characters of more than one byte, and places
  beyond the bits of a `TOKEN`. A blank stands for tabs as well. A macro's name and the bracket of its parameters are two words,
  with or without a blank between: the code does not tell them apart either.
- In expansion: a macro that names itself (its behaviours are infinite), `##`
  with a macro as operand, `#` before an argument of several tokens, a line of
  240 tokens or more (whose places are taken for marks), and the `__asm__`
  tokens of `cc()`, which `Statements` takes as given.
- `.symtab`, `.strtab`, the header of `.eh_frame`, `elf.py`: formatting of
  output. The 128th symbol counts as the only global one (`sym.c:354`, marked as
  a fake by its own comment).
- Memory: `malloc` and `realloc` always succeed.
- A second source in one process: the driver never does it.
- Segments of 64 KB, where `seg_addr` wraps: `Relax` and `Assembler` have the
  wrap (`SegMod`), no run reaches it, and the theorems about `Assembler` are about
  shorter ones (`SegmentsFit`).

## Plan

1. `Symtab`: the order of symbols that relocations count on, with the section
   headers that `elf.py` writes at fixed offsets.
2. The lengths of `Encode` in the place of `Code(n)`'s free choice.
3. Proofs: `FaithfulExpansion`; of the
   loops of pass 2.1 inside of `Assembler`, so that a source with `JumpsFirst` needs
   no assertion.

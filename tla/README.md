# A TLA+ model of the VYPe15 compiler

VYPe15 translates a small C-like language to MIPS32 assembly. It is a single-threaded C++ program:
`flex` scanner and `bison` parser with semantic actions, a syntax tree, an intermediate code (IR) of
basic blocks, and a generator that allocates registers while it emits code. Nothing runs concurrently,
nothing is persisted, and there are no timeouts. What is hard is *state over long sequences*: the
register table of a block and the stack frame around it after an arbitrary run of instructions, the
symbol tables and exit codes after an arbitrary run of declarations, calls and errors, the graph of
basic blocks after statements nested in any way, and the memory of the *running* program after calls
nested in any way. These are what the modules here model, check with TLC and prove with TLAPS.

## 1. Inventory

| component | source | state | operations |
|---|---|---|---|
| Driver | `main.cpp` | `exitCode`, `yyin`, the output file | `main`, `finalize`, `yyerror` |
| Scanner | `frontend/c_lexer.l` | start condition, literal being read | tokens; `finalize(1)` on text that is no token |
| Parser | `frontend/c_parser.y` | bison's stack; all else is in `Context` | one semantic action per rule; `finalize(3)` and `YYERROR` |
| Context, symbol tables | `frontend/context.cpp`, `symbol_table.cpp`, `symbol.cpp` | global table, stack of local tables, current function, declared type | `newSymbolTable`, `popSymbolTable`, `findSymbol`, `addVariable`, `addFunction` |
| Name mangler | `frontend/name_mangler.cpp` | none | `mangle` |
| Syntax tree | `frontend/ast.cpp` | `Program::_functions`, nodes | `generateIr`, `generateIrValue`, `generateIrBlocks` |
| IR builder | `ir/builder.cpp`, `function.cpp`, `basic_block.cpp` | functions by name, active function and block, edges, uses | `createFunction`, `createCall`, `createJump`, ... |
| Instructions, values | `ir/instruction.cpp`, `value.cpp` | immutable | accessors |
| Register table | `backend/blockcontext.cpp` | `registerTable`: value, dirty bit, age per register | `getRegister`, `getFreeRegister`, `removeVictim`, `saveVarsAndClear`, `markUsed`, ... |
| Stack frame | `backend/functioncontext.cpp` | `varToStackTable`, `spillTable`, `stackCounter`, `calleeSavedSet` | `addVar`, `spillTemp`, `unspillTemp`, `testCalleeSaved`, `getInstructions` |
| Instruction visitor | `backend/asmgenerator.cpp` | active function | one `visit` per IR instruction |
| Target description | `backend/mips.cpp` | register sets | prologue and epilogue texts |
| String constants | `backend/conststringdata.cpp` | labels by value, data size | `getString`, `TranslateTable` |
| Run-time routines | text in `asmgenerator.cpp` | heap pointer of the *running* program | string copy, comparison, concatenation |

How they interact: `main` calls the parser; each semantic action reads and writes the one global
`Context` and appends finished functions to the one global `Program`. If nothing was rejected, `main`
looks through the global table, lets `Program` build the IR, and hands it to `ASMgenerator`, which
keeps one `FunctionContext` per function and one `BlockContext` per block. A `BlockContext` is the only
one that changes the register table, and it calls its `FunctionContext` for every stack cell. All
communication is by method calls and shared tables; there are no callbacks and no messages.

What makes each part correct:

- **Register allocation.** Every operand is in the register the emitted instruction names, with its
  *present* value, however many evictions, spills, calls and reassignments came before. Every variable
  is in memory wherever control may join. Stack cells have one owner. Whatever callee-saved register
  the function touches is restored.
- **Symbol tables.** A name refers to the innermost visible declaration. Declarations, definitions and
  overloads in any order leave links, signatures and the list of functions consistent.
- **Driver.** Only complete programs are generated. A rejected program ends with its own exit code and
  leaves no code in the output file.
- **IR.** Every block created is emitted, once; control never runs off its end; the edges between
  blocks are its jumps. Executing the blocks does what the text says, and does not get lost. A temporary
  is used once, in its own block. Calls find their functions.
- **Running program.** Every call has its own variables and gets its arguments by value; whether a variable
  is in its cell or in a callee-saved register, it is as it was after the return, and so is the heap;
  strings are never overwritten.
- **Code size.** What is accepted fits into memory.

`PROJECT.json` lists the hazards with their lines. Several of them (interleaving, crash recovery,
unreliable delivery, timeouts) do not exist in this program, and no property pretends they do.

## 2. Modules

| module | what it is |
|---|---|
| `BlockContext` | operators: each method of `BlockContext` and `FunctionContext` as a function on an allocation state |
| `AsmGenerator` | state machine: one action per visitor method, composed from these operators |
| `IrBlock` | abstract specification: what the intermediate code means |
| `SymbolTable` | operators: global table, stack of local tables, typing rules |
| `Frontend` | state machine: parser, scanner errors, driver, creation of IR functions |
| `LexicalScope` | abstract specification: block structure of the language |
| `BasicBlocks` | operators: values, instructions, blocks, and what the builder does to them |
| `IrGeneration` | state machine: the generate methods of the tree, then a call of the generated function |
| `SourceProgram` | abstract specification: structured control flow, from the text alone |
| `FrameLayout` | operators: the compiled program, and where a frame has its cells |
| `CallFrame` | state machine: the emitted program at work, its frames, its register tables and its string heap |
| `HomeFrame` | intermediate specification: the same program with every variable always in its cell |
| `Activations` | abstract specification: calls with variables of their own, strings as values |
| `CodeSize` | state machine: the estimate of the code size, beside the real one |
| `..._proofs` | lemmas and theorems about `BlockContext`, `AsmGenerator`, `Frontend`, `IrGeneration`, `HomeFrame`, `CallFrame` |
| `MC...` | instances and views for TLC |

The four state machines of the compiler meet at these borders. `Frontend` decides which programs reach
`Program::generateIr`, and in which order functions come into being; `IrGeneration` is the body of one
such function; the inputs that `AsmGenerator` allows are what `IrGeneration` has been proved to produce
(`TemporariesStayInBlock`, `NoFallThrough`); and `CallFrame` executes what `AsmGenerator` emits around a
call. At that moment the caller-saved registers are empty (`SaveAndClear`), but the callee-saved ones are
not: a variable that has been changed may be in one of them and nowhere else (`ClearEntry` leaves it there), so
that what `AsmGenerator` assumes in `ReturnFromCall`, `CallFrame` has to show.

### 2.1 `BlockContext` and `AsmGenerator`

The code of a basic block is a straight line, so the model lets *translation and execution advance
together*. The state `st` holds the translator's tables (`val`, `saved`, `lru`, `slot`, `spill`, `sc`,
`callee`) and what the code emitted so far has put into the machine (`reg`, `mem`). Machine data is
symbolic: a register or cell contains `v` if it holds the value `v` has *now* in the source program, and
`Junk` if it holds anything else. When an instruction gives `d` a new value (`Define`), every other
place that contained `d` becomes `Junk`; this is what makes a stale register or a missed store visible.

- `GetRegister`, `WithFreeItem`, `RemoveVictim`, `Evict`, `SaveAndClear`, `MarkUsed`, ... are the methods
  of the same names, including the order of their effects (the victim is stored before its register is
  given away; `saved` of a cleared entry stays).
- A cell `c` stands for the word at `-4*c($fp)`. `stackCounter` starts at 4 in the code because the
  saved frame pointer is at 0, the return address is above it, and stack parameters start at 8: cells 0,
  -1 and -2, -3, ....
- `spillTable` is a vector; as items are only appended, at the stack counter of the moment, it is kept
  here by cell, and "first free" is "least cell".
- The constants 0 and `'\0'` are in register `$0` and never enter the table (`ZeroConst`).
- A visitor method is one action; the `Emit...` operators are what such a method does after its last
  `getRegister`. The loops of a call (arguments, then the register table) and of
  `print` are unrolled; `phase` and `next` force their order. `VisitDiscarded` includes the releases of
  operands whose builtin has an unused result.
- In `ReturnFromCall` the callee has kept the callee-saved registers. This is an assumption: `NothingLost`
  and `ImplementsIR` hold relative to it. `CallFrame` shows that the code around a body keeps the registers
  in `calleeSavedSet`, and what happens to a caller otherwise; the run `AsmScratch` shows that a register
  can be missing there (finding 1).
- Which IR may arrive: temporaries are results of one instruction and operands of at most one later
  instruction of the same block, which is `TemporariesStayInBlock` of `IrGeneration`; variables are
  declared before assigned and assigned before read, as declarations without initialiser assign a
  default.

The order in which operands are read against results being written matters: instructions that write
their result, or a scratch register, before they have read all operands (`strcat`, `set_at`, cast to
string, And, Or, LessEqual, GreaterEqual) clobber these registers in `e` before the operands are looked at.

### 2.2 `Frontend`

One action per semantic action of the grammar, enabled where the grammar allows it; the source text is
the nondeterminism. `scopes` is `Context::_symTableStack`, `nest` the constructs around the current
position, `global` the global table. A mangled name is a `[name, params]` pair, since `$` is in no
identifier. An expression is its type; looking up a name, calling a function, using a void value are
actions of their own. Every semantic action is either legal and does its work, or `Reject`s: `finalize(3)`,
`YYERROR`, and, as the grammar has no `error` token, `yyparse` gives up.

The driver half follows `main`: `finalize` closes `yyin` if it is open, and `yylex_destroy` sets it to
null. A scanner error calls `finalize(1)` and *reports the end of the text* to the parser. The parser
reduces by default where it can, also on the end of the text, so checks can still fail then, and at the
top level it simply accepts. `GenerateFunction` creates the IR function before its body; `createCall`
finds the functions created so far. Dereferencing a null pointer is a crash (`Crashed`), and `pc`
stays where it happened. `main` opens an `ofstream`, writes to it and closes it without ever asking whether
that worked, so `OpenOutput` may leave the file untouched, `Emit` may write a part of the code only, and
either way the exit code is 0. After an early end of the text the model lets a few more operands be reduced
than a particular text would; all of them lead to a rejection.

### 2.3 `BasicBlocks` and `IrGeneration`

The generate methods visit the tree in a fixed order. An action is the part of a visit between two calls
of generate methods; the tree is the nondeterminism, and what has been visited is kept in `text`, which
only properties read. The locals of the visits in progress are in `opened`, one record per enclosing
`StatementBlock`: which construct it belongs to, the blocks that construct created, and `endBlock`, the
block in which its last statement ended. A block is named by the order of creation; `layout` is
`Function::_basicBlocks`, the order of the emitted code.

- Expressions push what `generateIrValue` returns on `values`; an operation pops its operands, adds one
  instruction to the active block and pushes a new temporary.
- If, while and for are split where they call `generateIr` of a part: `OpenIf`, `OpenElse`, `CloseIf`;
  `StartLoop`, `OpenLoop` or `OpenEndlessLoop`, `StartIteration`, `CloseLoop`. The assignments in the head
  of a for are statements before the loop and before its end, as in the code.
- `EndFunction` is the loop at the end of `Function::generateIr`.
- `Execute` then runs the function: jumps go to the first instruction of a block, everything else to the
  next instruction *in the layout*, which is how a forgotten jump becomes visible. A conditional jump
  goes either way. `Observe` reports each operation and each use of a value, with its place in the text.

The abstract `SourceProgram` never sees a block. From the text alone it says which node and operation
comes next; conditions are free choices there, too. `beat` alternates with everything that happens, so
that doing the same thing twice in a row is two steps of both.

### 2.4 `FrameLayout`, `CallFrame`, `HomeFrame` and `Activations`

Here the *emitted* program runs. `mem` is the 1 MB memory in small: strings from the bottom, the stack
from the top, one cell per word of the stack and per byte of the heap. An action is what one `visit`
emits, up to a jump: `Call` (globals and stack arguments pushed, register arguments loaded, JAL), `Enter`
(prologue, `getInstructions`, parameters from registers to their cells), `Leave` (variables stored, result,
restored registers, epilogue), `AfterCall` (heap and stack pointers back, a returned string copied to the
heap). The copy routine runs byte by byte (`CopyByte`), so that overlapping copies do what they do.

A variable is in its cell or in a callee-saved register. `frames` has a record for each call in
progress; its `reg` is the part of the register table that matters here, which variable is in which
register. `Load` maps a variable to a register that the function has recorded (`testCalleeSaved`), `Unload`
stores one variable (`removeVictim`) or all of them (`saveUnsavedVariables`, before a jump), and `Result`
changes a variable where it is, leaving the cell out of date. Both are free to happen between any two
statements: which of them the compiler emits is the business of `AsmGenerator`. A variable whose register
and cell agree is stored too, which changes nothing. `Call` leaves `reg` alone, as `saveVarsAndClear` does, and
`AfterCall` finds it as it was: whether the registers still hold what the table says is the question.

`UseRegister` is an instruction that writes a register holding no variable of its own function: a
recorded one or, as `getFreeRegister` does not record what it hands out, one of `Scratch`. The history `owed`
has, for each call, the registers in which a caller keeps a variable and which no call in between has
saved. If the register is among them, a caller's variable is gone. The code carries on with a wrong
value; the model goes to the step `spoilt` and stops, as nothing can be said about such a program.

`Activations` knows neither addresses nor registers: a call is a record with its variables' *values*,
strings being sequences. `CallFrame` is shown to implement it in two layers. `Stored` is the memory as it
would be with every variable in its cell: a variable in a register is looked up where the register's value
is *now*, in the register or in the frame of the next call that has saved it (`Register`). With `Stored` as its
memory the program is one of `HomeFrame`, which has no tables and where callee-saved registers hold anything
at all. The refinement mapping of `HomeFrame` (`CallsInProgress`, `InTransit`) reads the calls off the memory,
following the chain of saved frame pointers. A returned string in the middle of its copy is what has been
copied, followed by what is still to be copied. `ImplementsActivations` is the composition of the two, with
one exception, stated in it: the step to `spoilt`.

### 2.5 `CodeSize`

`updateInstrSize`, `addInstrSize`, `getInstructions`, `ConstStringData` and the limit in `getTargetCode`,
beside `emitted`, what an assembler makes of the same instructions.

## 3. Runs

| run | properties | result |
|---|---|---|
| `AsmAlloc` | `TypeOK`, `NothingLost`, `FrameDisjoint`, `ValueRegistersPreserved`, `ImplementsIR` | holds, about 196,000 states |
| `AsmBlocks` | `VariablesHomeBetweenBlocks`, `FrameStable`, `ImplementsIR` | holds, about 73,000 states |
| `Driver` | `TypeOK`, `LinksMatchDefinitions`, `BodiesMatchDefinitions`, `AcceptedIsComplete`, `WellFormedProgramsCompile`, `ErrorsWriteNothing`, `SignaturesStable` | holds, about 930,000 states |
| `Scoping` | `ImplementsScoping` | holds, about 26,000 states |
| `ControlFlow` | `TypeOK`, `EdgesMatchJumps`, `EveryBlockIsEmitted`, `NoFallThrough`, `TemporariesStayInBlock`, `ImplementsSource`, `CallsProceed` | holds, about 412,000 states |
| `Calls` | `TypeOK`, `StackBalanced`, `StringsBelowHeap`, `ImplementsActivations`, `CopiesEnd` | holds, about 111,500 states |
| `AsmScratch` | `ScratchRegistersPreserved` | violated: finding 1 |
| `Shadowing` | `FunctionsNotShadowed` | violated: finding 2 |
| `ForwardCalls` | `ForwardCallsCompile` | violated: finding 3 |
| `LexicalErrors` | `LexicalErrorsDecide` | violated: finding 4 |
| `VoidArguments` | `ManglerSeesNoVoid` | violated: finding 5 |
| `TooLarge` | `AcceptedProgramsFit` | violated: finding 6 |

**Bounds.** `AsmAlloc` has four registers, two of them caller-saved, for five values and a constant:
the least number with which the widest instruction (`set_at`) fits, so that *every* instruction can
evict, and both register classes are crossed. One of two parameters arrives on the stack. Three
instructions (`MaxInstr`) fill the table, evict and reload; a frame of eight cells (`MaxCell`) has room
for what they can spill, and `Room` stops a step that could need more. `AsmBlocks` exchanges the constant
and a parameter for a third temporary and a second block. `Driver` has three functions, two of them
overloads of `main`, two distinct calls, so that calls go forwards, backwards and to the caller itself,
and one block per function; `Scoping` has three nested blocks, two types and two names, one of them also
a function's.
`ControlFlow` has bodies of up to three statements or parts of heads (`MaxStatements`), so that every
construct is nested in every other and followed or preceded by a third statement, with a return at any
place; one operation of one or two operands (`MaxOperations`, `MaxPending`) suffices to put a temporary
into any expression. As there is one name of an operand (`Operands`), this run would not notice operands that are
exchanged. `Calls` makes up to five steps (`MaxSteps`: statements, and changes of the register table) in at
most three calls (`MaxDepth`): `main` calls `f` and `g`, `f` calls itself and `g`. `f` gets one parameter in a
register (`ParamRegisters`), two on the stack, saves two registers and returns a string; `main` uses a result
and ignores one. Of three registers, `s0` is saved by all functions, so that a caller's variable in it is
afterwards in a frame; `s1` by `f` and `s2` by `main` only, so that a variable stays in them through
calls. `g` uses `s2` as scratch register: called with a variable of `main` in `s2` it spoils it, otherwise it
does not. The 50 cells of memory (`MemorySize`) are enough for three frames and for what five steps
append to the heap; a step that needed more is not taken, as the code does not detect it
(`dokumentace.tex:163`). `TooLarge` scales the limit of 960 KB down to a few instructions. The theorems
below hold for any value of these bounds.

**Views and symmetry.** Temporaries of `AsmGenerator` are interchangeable, and TLC takes states apart
only by what later steps depend on: not by what the last step read (an action property compares it with
the operands when the step is generated), nor by age, dirty bit and contents of unmapped registers, which
`GetRegister` overwrites before use. Because the representative of a symmetry class is chosen before the
view is applied, the number of distinct states varies by a few from run to run. In `Frontend` the view
leaves out the result of the last lookup, identifies blocks that are closed alike, and forgets the
tables when the parser has given up. `CHECK_DEADLOCK FALSE`: translation stops at its bounds, and the
compiler ends.

**Mutants.** Each checked property comes with a plausible bug in the mapped code, defined just before the
operator it would replace (`EvictWithoutStore`, `FindOutermost`, ...), under which the run fails.

**Fairness.** The compiler is a sequence of terminating loops over finite data, and nothing is claimed
of its progress. Liveness is about the programs it generates. `IrGeneration` assumes `WF_vars(Execute)` and
`CallFrame` `WF_vars(Continue)`: a processor executes one instruction after the other, so an instruction that
can be executed is executed. What a program does next in its body, and how a condition comes out, is left
to the program and has no fairness. `CallsProceed` says that a call never circles in mere jumps and
never stops before a return. It does not say that loops end. `CopiesEnd` says that a copy ends even
where source and target overlap, and with it every sequence of a call. `SourceProgram!Proceeds` is no
consequence of the refinement, as `SourceProgram!Spec` is a safety property.

### Findings

1. `getFreeRegister` (`blockcontext.cpp:345`) does not call `testCalleeSaved`. With the caller-saved
   registers occupied, And, Or, LessEqual and GreaterEqual overwrite a callee-saved register that the
   prologue does not save, against `functioncontext.h:70`. The consequence is visible in `Calls`: since
   `saveVarsAndClear` leaves the caller's variables in such registers, a changed variable may be in no other
   place, and its value is lost. That step, `Spoilt`, is the exception in `ImplementsActivations`.
2. Only definitions enter the mangling link of a name (`symbol_table.cpp:114`), and parameters are never
   compared with it: a variable can have a function's name, against `doc/dokumentace.tex:132` and the
   comments in `c_parser.y`.
3. A call to a declared function whose body comes later finds no IR function (`builder.cpp:117`). As an
   expression it crashes at once, as a statement during translation. No test has such a call.
4. A scanner error between functions is seen by the parser as the end of the text. `main` carries on,
   writes code, and crashes in `fclose` of the null `yyin` (`main.cpp:151`) instead of returning 1.
5. A void argument reaches "This never happens" of `name_mangler.cpp:30` and aborts.
6. `updateInstrSize` writes the lower-case mnemonic to the begin of an empty string
   (`blockcontext.cpp:451`), so la, li, mul and div count 4 bytes instead of 8, and a program that does not
   fit is accepted, against the message of `main.cpp:143`.

Seen while reading: the output stream is never checked (`main.cpp:132-149`), so that a file that cannot be
opened or written still means exit code 0; no text promises otherwise, and the model allows it. The figure
in `doc/dokumentace.tex:180-184` puts the last stack parameter next to the return address; the code puts the
fifth there, at `8($fp)`, in the caller (`asmgenerator.cpp:249-267`) and in the callee
(`functioncontext.cpp:91`) alike, and so does the model. Not modelled: a cast to char zero-extends while `get_at` sign-extends
(`asmgenerator.cpp:795`, `357`), so equal characters above 127 compare unequal. No text says which of the
two is meant.

## 4. Proofs

### 4.1 Register allocation

`AsmGenerator_proofs` proves, for every number of registers (at least four) and of caller-saved ones,
all sets of values, any parameters, any number of blocks and instructions, and any frame size:

| theorem | statement |
|---|---|
| `Invariance` | `Spec => []IInv` |
| `TypeCorrect` | `Spec => []TypeOK` |
| `NothingIsLost` | `Spec => []NothingLost` |
| `VariablesAreHome` | `Spec => []VariablesHomeBetweenBlocks` |
| `FramesAreDisjoint` | `Spec => []FrameDisjoint` |
| `ValueRegistersArePreserved` | `Spec => []ValueRegistersPreserved` |
| `FramesAreStable` | `Spec => FrameStable` |
| `Refinement` | `Spec => ImplementsIR` |

*Assumptions:* those named in `BlockContext` and `AsmGenerator` (`RegistersAssumption`, `BoundsAssumption`,
`ValuesAssumption`, `ParamsAssumption`, `BlocksAssumption`), which TLC evaluates in every run.

*Argument.* None of the checked invariants is inductive: that a value is not lost needs that no value
is mapped twice, that a temporary in a register is in no spill item, that a saved register agrees with
its cell, and that cells below the stack counter are disjoint. `Sound` (in `BlockContext_proofs`) is the
conjunction of these facts: `FrameSound`, `TableSound`, `ContentSound`. The delicate part is *within* an
instruction: `getRegister` for the second operand must not evict the first. The reason is quantitative.
`updateLRU` leaves every entry with an age of at least 1; each register obtained has age 0; as the victim
is a *first oldest* entry, it can only be a touched one if all are touched, and an instruction touches at
most four of at least four registers, with the last before an eviction being at most three. The lemmas
track the set `Touched(s)` through up to four `GetRegister`s. `IInv` adds that ages stay behind the
instruction count (`AgeSound`), what each phase may rely on (`PhaseSound`: variables are home after a
jump, entries below `next` are clear in a call), and that declared variables have cells. Each action has
a lemma `...Inv` that proves `Preserving`: the invariant afterwards, a frame that only grew, and
`read' = operands'`. Refinement follows step by step (`StepRefines`), by mapping every action to
`Produce`, `Consume`, `Drop`, `Enter` or a stutter of `IrBlock`.

### 4.2 Parser and driver

`Frontend_proofs` proves, for every set of names, functions and types, and any number of calls and of
nested blocks:

| theorem | statement |
|---|---|
| `Invariance` | `Spec => []IInv` |
| `TypeCorrect` | `Spec => []TypeOK` |
| `LinksAreRight` | `Spec => []LinksMatchDefinitions` |
| `BodiesAreRight` | `Spec => []BodiesMatchDefinitions` |
| `AcceptedProgramsAreComplete` | `Spec => []AcceptedIsComplete` |
| `WellFormedAreCompiled` | `Spec => []WellFormedProgramsCompile` |
| `StatusIsRight` | `Spec => []ErrorsWriteNothing` |
| `SignaturesAreStable` | `Spec => SignaturesStable` |
| `ScopingIsLexical` | `Spec => ImplementsScoping` |

*Assumptions:* those of `SymbolTable` and `Frontend` (`TypesAssumption`, `FunctionsAssumption`,
`MainAssumption` and the bounds).

*Argument.* `IInv` has four parts, most of which need the ones before. `ParserInv` adds to the checked
invariants that only the outermost construct is a function (`FunctionOutermost`; without it the end of a
nested block could end the function), that what is defined is declared (`DefinedAreDeclared`), and that
callers are defined and callees declared (`CallsAreKnown`). `DriverInv` ties exit code, source file, output
file and process status to the position in `main`, as each of them is changed in several places.
`GenerationInv` adds that the program was complete when generation began, and that every call which found
no IR function has its callee *later* in the order of definitions (`CalledBefore`): the function in question
is in the order by `CallsAreKnown` and completeness, and those at or before the caller's place exist. `LinkedInv` says that once the output file has been opened and `translateIR` is done, no call is without its
function, which `ErrorsWriteNothing` promises of exit code 0. That code says nothing of the file: the invariant
lets it be untouched, cut short or written. The
refinement of `LexicalScope` rests on facts about the pairs of level and type that a stack of tables
represents, before and after `newSymbolTable`, `popSymbolTable` and `addVariable`, and on the equality of
"last table that has the name" with "greatest level that declares it".

### 4.3 Basic blocks

`IrGeneration_proofs` proves, for every set of operations and operands, and any number and nesting of
statements:

| theorem | statement |
|---|---|
| `Invariance` | `Spec => []IInv` |
| `TypeCorrect` | `Spec => []TypeOK` |
| `EdgesAreRight` | `Spec => []EdgesMatchJumps` |
| `AllBlocksAreEmitted` | `Spec => []EveryBlockIsEmitted` |
| `NothingFallsThrough` | `Spec => []NoFallThrough` |
| `TemporariesAreLocal` | `Spec => []TemporariesStayInBlock` |

*Assumptions:* `OperationsAssumption` (an operation is neither another instruction nor an operand) and
`BoundsAssumption`.

*Argument.* `Sound` says that edges are jumps and that the terminal block ends in a return; every way of
adding an instruction preserves it. That no block is forgotten needs a strengthening over all
constructs in progress: `Shape` says that the blocks *not yet* laid out are exactly those the visits in
`opened` wait for (`Waiting`: an if before its else waits for two blocks, after it for one, a loop for
one), plus, for a loop whose condition is being generated, its two reserved blocks, and that no two visits
wait for the same block (`Apart`). The entry is first in the layout, the terminal block last, and no block
occurs twice (`Ordered`). When the function ends nothing is in progress, so everything is laid out, and
the loop over the open blocks gives each of them a terminator. The last part, `TempsInv`, is about
temporaries: each has one result and at most one use, behind it in its block (`Tidy`), all have numbers
already drawn (`Named`), and those among the values of operands are all different (`Distinct`),
produced in the *active* block and not used yet (`Ready`, `Owed`). The last clause is why it matters that
the active block never changes within an expression.

### 4.4 Frames, registers and strings of the running program

`HomeFrame_proofs`, `HomeFrameRefinement_proofs` and `CallFrame_proofs` prove, for every set of functions with any
parameters, variables, recorded and scratch registers, any calls and string constants, any memory size and any
depth of calls:

| theorem | statement |
|---|---|
| `HomeFrame_proofs.Invariance` | `HomeFrame!Spec => []IInv` |
| `HomeFrameRefinement_proofs.Meanings` | `HomeFrame!Spec => []JInv` |
| `HomeFrameRefinement_proofs.Refinement` | `HomeFrame` implements `Activations` |
| `CallFrame_proofs.Invariance` | `Spec => []KInv` |
| `TypeCorrect` | `Spec => []TypeOK` |
| `StackIsBalanced` | `Spec => []StackBalanced` |
| `StringsStayBelowHeap` | `Spec => []StringsBelowHeap` |
| `CallFrame_proofs.Refinement` | `Spec => ImplementsActivations`: `CallFrame` implements `Activations`, up to `Spoilt` |

*Assumptions:* `FunctionsAssumption` (`main` has no parameters; a function saves each of its registers
once, since `calleeSavedSet` is a set), `SitesAssumption` (calls agree with the callee's signature),
`MemoryAssumption` (string constants end with a 0, and fit in the memory) and `BoundsAssumption`. What they say
about the program is what the parser and `main.cpp` check before code is generated.

*Frames.* The machine has no record of its frames: there are only cells and pointers. `IInv` therefore
says that *there are* frames `F`, functions `G` and heap ends `H`, one for each call in progress, such
that `Stack` holds, and that `Position` holds for the step that comes next. `Stack` has three parts. `Placed`:
the frames lie one below the other in the memory, above the heap, the heap ends growing with depth.
`Linked`: the cell at a frame holds the previous frame, the one above it the number of the call, and the
cell pushed by that call the heap end of the caller. `Owned`: a string that a call has assigned begins
below that call's heap end, and the last byte below it is 0, so that the string ends there. `Position` says
where the stack pointer is and what has been pushed when a function is entered, runs, copies a string, or
returns; for copies, that a routine has not yet read past what it may read (`Copied`). The balance of the
stack is not inductive alone: after a return the frame pointer comes from memory, and it is the
caller's frame only because no call in between has written to the link. Three lemmas carry the proof:
`Restack` (a step that writes within the last frame or to the heap above its end leaves a stack),
`Push` (entry code makes one more frame) and `Pop` (a return leaves one less); each action has a
lemma `...Step`. The delicate case is a returned string, whose bytes lie above the heap end that
is current again: it is moved down, and the proof follows the 0 that ends it, which the copy reaches only
at the last byte. `FrameIs` connects the frames of the invariant with those that the properties read off the
saved frame pointers, by the last frame at which they would differ.

*Meanings.* Frames are not enough for what the language promises: values have to be right. `JInv` adds
what the frames do not tell. `Intact`: the string constants are what they were. `Started`: when `main` is
entered, all registers and the heap are as the program starts. `Passed`: when another function is entered, each
argument is where the function expects it, in its register or its cell, and is the value of a variable
that the caller has assigned. `Copies`: a copy under way has a string `s` that it is becoming, `Progress(s)`
says how much of `s` is in place and that the rest is still to be read, and `Source(s)` why `s` is the right one:
it is the value of a variable, the concatenation of two, or what a callee has returned. `View` reads a call in
progress off the frames `F`, `G`, `H` of `IInv`, and `ViewsAre` shows that this is what the refinement mapping
computes from the memory. Every action has a lemma `...Refines`. A step within a function keeps the views of the
callers (`OtherView`: their cells lie where nothing is written) and changes the last one as the statement
says, or not at all while a copy is under way. A call and a return compare `d` frames with `d + 1`: by
`MoreView` the callers look the same in both. For a returned string, `CopyMoves` follows the bytes through a
copy onto an overlapping region, downwards.

*Registers.* What is left is that a variable in a register is its own. `KInv` says that after `Spoilt` the stack
is balanced still, and that otherwise `JInv` holds with the memory `Stored`, and `Known` of the real one:
`Layout`, the cells of the recorded frames do not overlap; `Registers`, the variables of a call are in
different registers, all recorded by its function; `Owing`, a register with a variable that no later call has
saved is in the `owed` of every later call; `Chained` and `Topmost`, the recorded frames are those the saved
frame pointers and return addresses tell. `Found` says where the value of a register of call `k` is: in the
register, if no later call records it (`Untouched`), else where the first one that does has saved it. `IsStored`
says of a memory that it has every variable in its cell, and `StoredOnce` and `StoredIs` that `Stored` is the only
one. Three lemmas then tell what `Stored` is after a step: `Restored`, when the topmost call changes its own
cells, its own registers and the heap, for which registers of callers have to be left alone, and this is where
`owed` comes in; `Entered`, when a call saves its registers, after which the callers' values are found in the new
frame; `Left`, when it takes them back. With these, each action has a lemma `...Step` saying that the step is
one of `HomeFrame` on `Stored` and keeps `Known`: `Load` and `Unload` change nothing there but a register. If the
scratch register is owed, `SpoilStep` takes over. So every step of `CallFrame` is one for which `Meanings` and
`Refinement` have their lemmas, `StepHolds` puts them together, and the theorems follow.

### 4.5 What is not proved

*Only model-checked:* `ImplementsSource` and `CallsProceed` of `IrGeneration`, whose abstract specification
finds the other parts of a construct by the nesting of the text; `CodeSize`, whose run is a disagreement.
*Out of the prover's reach:* liveness under fairness (`CallsProceed`,
`CopiesEnd`) and `ENABLED`, induction over data, and modules with `RECURSIVE` operators; no module here
needs one, since recursion is written as recursive functions.

## 5. Plan

Done: register allocation, front end and driver, basic blocks, and frames, register tables and string heap
of the running program, each with its proofs; code size, model-checked.

Left:

1. Refinement of `SourceProgram` by `IrGeneration` for any nesting: the invariant of 4.3 gives the blocks and
   their order; what is missing is where in the text the code of each block begins and ends. The argument
   needs (a) facts about `Level`, `Closing` and `Opener` of a well-nested text, (b) for every instruction the
   point of the text before it, with an invariant per kind of instruction that relates it to the points of
   the next one and of its targets, (c) for every temporary the part of the expression it stands for, and
   (d) that while the function runs the point of `at` has the event `Upcoming`.
2. Opcodes on words of a small width, compared with the operators' meaning: the translation is one opcode
   per operator, so that little can go wrong beyond division by zero and the extension of characters.

### Not modelled

- `print_ir_visitor.cpp`, and the sets of defined and used values that only it reads: nothing in the
  compiler calls `Builder::codeText`.
- Accessors and constructors of instruction and value classes, beyond the records of `BasicBlocks`.
- The opcodes of arithmetic and comparison, `print` and the input functions but `read_string`, and the
  routine `$STR_CMP$`: they read strings and words, and change nothing but one register.
- The text of the assembly, build files and tests; the scanner's and parser's generated tables.
- That stack and heap meet: nothing detects it, and the documentation says so.

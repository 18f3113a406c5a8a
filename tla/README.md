# A TLA+ verification project for the XBasic remake

The repository is a compiler and an interpreter for XBasic, written in Rust, and
a self-hosted compiler written in XBasic. This directory models the run-time
semantics that the back ends share: what a program does when it is interpreted
(`crates/xb-runtime`), what the C program does that `CEmitter`
(`crates/xb-compiler/src/c_emit*.rs`) writes for it, and what the LLVM code of
`crates/xb-compiler/src/lib.rs` does. Before that come the passes that decide
which program it is: the parser, the resolution of names, and the text form of
the typed IR. The project's charter
(`README.md`, item 2) is "one contract, independent implementations", governed
by behavioural differential checks; the models state that contract and find out
where it holds.

All source paths below are relative to the repository.

## 1. Inventory

| component | state | operations | interacts with |
|---|---|---|---|
| lexer, parser (`xb-frontend`) | token cursor, block nesting | statements, blocks, SELECT CASE TRUE rewriting | gives the AST to the analysis |
| semantic analysis (`semantics*.rs`) | scopes, SHARED and TYPE tables, labels | check and type statements, inline SUBs behind labels | gives checked items to lowering |
| typed IR (`ir.rs`, `ir_lower.rs`, `checked.rs`) | a tree of `IrItem`s | lowering | read by all back ends |
| text IR (`text_ir*.rs`) | none | print, parse | the exchange format of the self-hosted compiler |
| interpreter: control flow (`interpreter.rs`, `interpreter_select.rs`, `exec_helpers.rs`, `eval.rs`) | the Rust call stack of `exec_items`: items, index, the arm running; `label_addresses` | one match arm per item, returning a `Flow` | recursive calls; `call_function` |
| interpreter: calls (`call.rs`, `slot.rs`) | one `ExecutionState` per active call: slots, shared variables, input position, error code, DATA cursor, files, GUI flag, pending line | call, return with copy-out and writebacks, builtins | `exec_items`; standard input and output |
| interpreter: files | `files`, one table per call | OPEN, CLOSE, SEEK, LOF, POF, records, INFILE$ | the operating system |
| interpreter: arrays (`slot.rs`, `interpreter_attach.rs`) | `array`, `dims`, `node_rows` of a slot | DIM, REDIM, ATTACH, SWAP, element access | slots |
| interpreter: expressions, builtins | none | arithmetic, strings, bits, math, XST library | slots |
| C back end (`c_emit*.rs`, `c_runtime*.rs`) | in the emitted program: C variables, C stack, `xb_gosub_stack`, file table, DATA cursor | structured C, goto, run-time functions | libc |
| LLVM back end (`xb-compiler/src/lib.rs`, feature-gated) | basic blocks, allocas | the same items | the linker |
| command line, linker driver, IDE, GUI | none of their own | run tools, show files, draw | processes, display |
| self-hosted compiler (`selfhost/*.x`) | its own tables | the same passes in XBasic | compared with the Rust passes by the repository's gate |

Nothing in the modelled parts is concurrent and nothing is persisted between
runs. What is hard to test is **sequence and scope**: five kinds of `Flow`
travelling through nested activations, GOSUB inside blocks inside GOSUB,
functions that copy a state in and only part of it out, and three back ends that
have to agree on all of it. `PROJECT.json` lists the hazards at their lines.

What makes each component correct:

* control flow: each `Flow` comes to rest in the activation it belongs to; no
  `Flow` crosses a function call; RETURN ends exactly its GOSUB; the emitted C
  does the same steps;
* GOSUB in C: the stack stays in bounds and functions leave each other's return
  labels alone;
* calls: copying in and out cannot be told from passing references (without
  aliases); input, error code and other process-wide things are one;
* output: no byte lost, doubled or moved between PRINT, INLINE$ and WriteFile;
* FOR: exactly the values from start to end, and an end;
* parser: a text is read back as the tree it was written from, wherever it stands;
* names: one spelling is one variable for every statement, two spellings are two;
* arrays: what was stored last, moved by ATTACH and SWAP without copies or losses,
  whether the storage is one vector, rows or a flat table;
* text IR: a program written and read is the same program.

## 2. Modules

| module | models |
|---|---|
| `IrProgram` | the control skeleton of a program: blocks of items, the nesting of blocks, labels |
| `ExecItems` | the interpreter's control flow: the stack of activations of `exec_items` |
| `CFlow` | the control flow of the emitted C: a program counter, the C stack, `xb_gosub_stack` |
| `LFlow` | the control flow of the LLVM code: a program counter, and a stack of landings per call |
| `FlowRefinement` | the mappings from a stack of `ExecItems` to a state of `CFlow` and of `LFlow`, and the classes of portable programs |
| `CallState` | `ExecutionState` across calls, beside a machine with one store |
| `Output` | the entries of standard output, `line_pending`, and the bytes that the C program writes |
| `Files` | OPEN to CLOSE: the interpreter's table per call beside the table of a C or LLVM program |
| `ForLoop` | FOR in the interpreter, in C and in LLVM code |
| `ParseExpr`, `ParseStmt` | the parser, from tokens to statements |
| `Names` | which slot each statement takes for a name, in the interpreter and in C |
| `Arrays` | storage of arrays in the interpreter, in C and in LLVM code |
| `TextIr` | the writer and the reader of the text IR |
| `FlowPrograms` | the family of programs that the control-flow runs quantify over |
| `MC*` | constants for TLC |
| `FlowProofs`, `CFlowProofs` | theorems about the control flow of the interpreter, of C, and that the one implements the other |
| `CallStateProofs`, `OutputProofs`, `FilesProofs`, `ForLoopProofs`, `NamesProofs`, `ArraysProofs` | theorems about the component each is named for |

### IrProgram, ExecItems

A program is a set of blocks. A function body is a root block; the bodies of IF,
loops, SELECT and Compound are nested blocks, and `path[b]` lists the items that
enclose block `b`. An item keeps its variant, the label or function it names and
its bodies. Expressions are data: a condition may come out either way, so a model
of one program covers all its inputs.

One frame of `stack` is one activation of `exec_items`; `via` says who made it.
The actions are the arms of the match: `EnterBody` and `SkipBody` for containers,
`EndOfItems` for `Flow::Continue`, `ExecGoto`, `ExecExit`, `ExecReturn` (RETURN
with a value, EXIT FUNCTION and STOP, which share `Flow::Return`),
`ExecGosubReturn`, `ExecGosub`, `ExecGosubExpr`, `ExecGotoExpr`, `ExecCall`,
`ExecPlain` for the arms that only compute, and `ExecFault` for `?`. A Flow is
passed down the stack without changing kind, so a step finds the innermost frame
whose arm consumes it (`Consumes...`). The arms of WHILE and DO assign `idx` on
`Flow::Goto` and `continue` their own inner loop; the model keeps `idx` apart
from `cur`, the item whose arm is running, to show what that does.

### CFlow, LFlow, FlowRefinement

Structured items are structured C, so control is a position and the C call
stack. GOSUB pushes the address of a label to one process-wide array.
`FlowRefinement` maps a Rust stack to it: the program counter is the top frame;
`StandsFor` goes up the stack and lets each frame add what it stands for
(`Pushed`): a body of an item nothing, a GOSUB the position its caller goes on at,
a call an entry of the call stack. `Portable` names, clause by clause, the
constructs where the two back ends differ: EXIT through a container of the other
kind, GOTO out of WHILE, DO and Compound, computed jumps to nested labels, return
inside a GOSUB, STOP in a function or with the main function called as one.

`LFlow` is the state machine of `emit_body_sm`: labels count only at the top level
of a body, an unknown one leaves the function, and `retstack` belongs to a call.
EXIT and STOP fall under `_ => {}` of `emit_item` and do nothing, and the address
of a label is 0; `PortableLlvm` excludes them. A return inside a GOSUB, which the
C program gets wrong, is in the class.

### CallState

`states` has one `ExecutionState` per active call. `Callee` builds the new one as
`call_function` does, `CopyOut` copies back `shared`, `input_pos` and
`error_code`, `Writeback` assigns `@` parameters to the caller's variables in the
order of the arguments. `env`, `mem`, `taken` and `err` are history
variables: the same steps on a machine with one store. `MayAlias = FALSE` limits
the programs to those that never reach a variable under two names at once.

### Output

`output` is the vector of entries the interpreter collects, `pending` the
`line_pending` of every active call, `stream` the bytes the C program would have
written to standard output and standard error together: `WriteFile` takes either
handle, and the interpreter keeps one vector of entries for both. Text is a sequence over two characters and LF, which is all that
splitting and splicing tell apart. The loops over the data and over its lines are
recursive functions, so that the proofs can follow them.

### Files

`st[e]` is the disk of engine `e` and its handle tables: the interpreter has a
stack of them, one per call, a compiled program has one. An entry is `<<>>` (None)
or `<<handle>>`. The three decoders of the mode are modelled apart. `held` is what
the program's variables hold: for each OPEN the number it got in each engine and
the call it was made in. The operating system (`open`, `write`, a stream) is
external. A step that the compiled program does not support as the interpreter
does ends the comparison and `left` says why: a number used outside its call
(`stray`: the interpreter's callee has another table, so the number names no file
or another one), a full table (`full`), a write to a file opened for reading
(`denied`: the interpreter answers the count, C -1), a line with a CR or NUL, or
longer than the buffer (`text`), a bad number in LLVM code (`invalid`), POF, SEEK
and INFILE$ there (`missing`), two numbers for one file (`shared`: stdio buffers)
and writing right after reading (`turn`: undefined in ISO C).

### ForLoop

One loop in one engine. The engines differ in where the counter lives, when end
and step are evaluated and how the direction is chosen; the body may assign the
loop variable and what end and step were computed from (`Assignable`). Integers
are `MinInt..MaxInt` and wrap; the C variable is an `intptr_t`, `MinPtr..MaxPtr`.

### ParseExpr, ParseStmt

One operator per method of the parser, from a token sequence and a position to a
parser state: position, flag `in_single_line_if`, whether an error was met, and
the value. A token is what the lexer delivers (the lexer itself is not modelled).
The methods call one another in every direction; in the model they do so through two
recursive operators, `Level` for expressions and `Phrase` for the parts of a statement.
`MCParser` writes texts from trees with operators that know nothing of the parser:
an expression with the fewest parentheses the levels of its operators allow, a statement inside
another of every kind, on its own line or in a single-line IF, and a SELECT. It
compares what is read with the tree; for a SELECT, which the parser rewrites
(`desugar_select_true`, `case_test`, `replace_exit`), it runs the result and
compares the bodies that run with those that match.

The levels of the operators come from documents, not from the parser, and the
documents disagree: `docs/stage2-contract-v0.12.md:20` freezes OR, AND, NOT,
comparisons, sums, products, from loose to tight; `help/operator.hlp:64`, which
`docs/08-language-reference.md:149` calls "the table the compiler implements", has
NOT tightest, AND, OR and XOR tighter than the comparisons, and the orderings
tighter than `=` and `<>`. Each expression is written twice, by `ContractTable` and
by `HelpTable` (where the contract is silent, on `||`, `&&`, `**`, shifts and signs,
it takes the help file's levels). What the contract asks for is what the parser does;
by the help file's table an expression is misread exactly where `Contested` says.
That `**` groups to the right is in no document and is taken from the code.

### Names

A step analyses one statement, lowers it and runs its items on three stores:
`slots` (interpreter), `cvars` (C) and `ref`, keyed by what the programmer wrote.
`an` is the state of the `Analyzer` of the function: symbols, arrays, shared
names, collisions. Each kind of statement resolves its names by the path that the
code has for it (`slot_name`, `symbol`, `byref_symbol`, `checked_symbol`,
`auto_symbol`, `shared_variable`, `function_call`; SWAP with the suffix in the
name, `SwapName`). Programs are straight lines in one or two
functions, so the analysis and the run can go side by side.

### Arrays

`slot`, `c` and `llvm` hold the storage of every name in the three engines, `ref`
what it contains for the language reference: one owner per element, ATTACH moves,
REDIM keeps and fills with the default. How a name is stored depends on the whole
text (dynamic or not, rows or flat), so a program has a `kind` for each name, and
its statements are chosen step by step. `why[e]` is the reason for which engine
`e` is no longer compared.

### TextIr

Lines are tokens with blanks, quotes and brackets of their own, so that a search
for a separator meets it inside a string literal as the code does. `Emit` writes a
program (`emit_program_with_facets`), `Parse` reads it (`TextIrParser::parse`).
The expressions carry the types that the analysis gives and that the reader has to
infer; `coerce` is the type that a place gives to a value of another type. `Told` is
the type an expression comes back with, so that `RoundTrip` can say exactly which
programs survive.

## 3. Runs

Passing runs:

| run | module | checks |
|---|---|---|
| `control_flow` | MCFlow | `StackNested`: the Rust stack follows the program; `CallsEndAlone`: no Flow crosses a call; `GosubsResume`: RETURN ends its GOSUB; `ExitsLeaveOneLoop`; `RefinesC`, `RefinesLlvm`: on the portable programs ExecItems implements CFlow and LFlow |
| `c_flow` | MCCFlow | `GosubStackSound`, `CallersLabelsKept` |
| `call_state` | MCCallState | `ByRefTransparent`, `InputInOrder`, `ErrorCodeIsLast` |
| `output` | Output, MCOutput.cfg | `NoByteLost` |
| `files` | MCFiles | `EnginesInStep`: same answers, same disk, same file and position behind every number in scope |
| `for_loop` | MCForLoop | `IterationsExact`, `RegularLoopsEnd` |
| `parser` | MCParser | `ExpressionsReadBack`, `StatementsReadInPlace`, `SelectsRunTheirMatches` |
| `arrays` | MCArrays | `InterpreterKeepsArrays`, `CProgramKeepsArrays`, `LlvmKeepsArrays` |
| `names` | MCNames | `InterpreterKeepsNames`, `CProgramKeepsNames` |
| `text_ir` | MCTextIr | `RoundTrip`: the program read is the program written, types included, exactly when nothing of it is `Lost`; `TextStable`: where the text leaves out a type, writing again gives the same text |

Runs that refute what a comment of the source says (one property
each; `PROJECT.json` quotes the line under "findings"):

| run | shows |
|---|---|
| `return_inside_gosub` | in C, a label pushed by a function that has returned is popped by its caller |
| `swap_elements` | `SWAP x, a[n]` loses the value of `x`: the Compound it is lowered to never assigns the temporary |

### Known differences

The passing runs leave out, by name, the places where an engine or a pass departs
from the reference. Each was met as a counterexample and traced to the code; an
entry is dropped from the list by deleting its reason from the cfg or its clause
from the definition.

Control flow, calls, loops (`Portable`, `MayAlias`, `Regular`):

* In the interpreter a GOTO out of a WHILE or DO body makes the loop's test again
  and passes its label by (`interpreter.rs:514`; `lang.hlp:1002`); so does a GOTO
  out of a Compound. A computed GOTO takes the index of a nested label as an index
  into the function body, and through 0 jumps to the start of the function. A GOTO
  to a missing label ends the function without an error.
* EXIT DO inside SELECT leaves only the SELECT (`ConsumesBreak`); STOP in a function
  returns to its caller, and so does STOP of the main function when that was
  called (in C it is `exit(0)`, `c_emit_stmt.rs:1099`; no program of the runs calls
  main, the proof of `InterpreterRefinesC` asked for the clause). In LLVM code EXIT
  and STOP do nothing.
* The 257th nested GOSUB in C jumps without a return label.
* FOR ... STEP -1 compares with `<=` in C: the emitter looks for a literal that
  starts with a minus, and STEP -1 is a unary minus applied to 1
  (`c_emit_stmt.rs:839`). The interpreter's loop variable never exceeds end; FOR to
  the largest integer does not end in LLVM code.
* `gui_close_sent` is copied into a call and not back: CloseWindow, which
  `gui_next_callback` (`call.rs:918`) is to deliver once, comes again after a call
  that received it.
* A file number does not work in a function other than the one that opened the
  file. PRINT does not continue a partial line that a function has left, and a
  partial WriteFile is joined to a complete line. WriteFile to standard error lands on
  the interpreter's standard output (`call.rs:755`; C writes to stderr, as the comment at
  `call.rs:726` has it); a byte count above the length of the buffer is cut to it in the
  interpreter, while C writes what follows the buffer in memory (`c_runtime.rs:1045`),
  and `WriteFile` of the model starts from the bytes that are there.

Parser (left out of `MCParser`):

* SELECT CASE FALSE tests a bitwise NOT, so a condition other than 0 and -1 is both
  true and false; EXIT SELECT in a plain SELECT inside a rewritten one goes to the
  outer label (`parser_select.rs:153`; `lang.hlp:2047`) (`Unfaithful`). CASE ELSE of
  SELECT CASE ALL is dropped.
* A bare RETURN or PRINT, or a PRINT that ends in a separator, is not accepted
  before `:` in a single-line IF. SHARED, STATIC, VERSION, EXPORT and TYPE
  declarations take the rest of their line. A nested single-line IF, and an IF
  inside PRINT, reset the flag of the outer one early.
* Level numbers of EXIT are dropped; `DO WHILE c LOOP` on one line drops its
  condition; TYPE without END TYPE is accepted at the end of the file.
* The operators have the levels of `docs/stage2-contract-v0.12.md:20`, and not those of
  `help/operator.hlp:64`, though `docs/08-language-reference.md:130` has the table and
  calls it the one the compiler implements. So `NOT a = 1` is NOT (a = 1) and
  `NOT a * b` is NOT (a * b), where the help file has NOT before everything, and
  `a AND b <= 1` is a AND (b <= 1), where it has AND, OR and XOR before the
  comparisons; `&`, `^` and `|` are as AND, XOR and OR (`Contested`, which is exact:
  `ExpressionsReadBack` says that those and no others are misread).

Names (`Excused`):

| reason | departure |
|---|---|
| swap | an indexed SWAP never assigns its temporary (the finding) |
| swap suffix | the parser makes the suffix part of the names of SWAP's operands (`parser.rs:1386`), so the scan before the analysis and the symbol table take the `x$` of a SWAP for a name other than `x`; `auto_symbol` goes back to the base only where that has the entry of a string: not before the string's first assignment, and wrongly where `x` is used as a number too |
| swap shared | the interpreter swaps the shared slot of a name that is also local (`interpreter_select.rs:61`) |
| byref, read, for, inc, brace, array | these statements resolve a name without asking `collisions`; array also: a byte read of a SHARED `x$` beside `x` reads an array's element (`semantics_expr.rs:467`), and of an `x$` without an entry is a call (`:459`), unless `x` has been assigned |
| shared | collisions belong to a function, the shared store to the program |
| hash | `#x` and `x` are one name to the parser |
| param | a parameter `x$` beside a local `x` |

Arrays (`Excused`):

| reason | departure |
|---|---|
| shared | in C, SHARED x[n] empties the array and REDIM x[] keeps it; LLVM's DIM of a shared array allocates anew |
| tail | the flat REDIM of C leaves the grown tail unfilled (`c_emit_stmt.rs:174`) |
| flat | ATTACH of rows of a flat table copies in C and leaves the source in place |
| fixed | ATTACH of whole fixed arrays copies in C |
| scalar | the interpreter takes a string array emptied by ATTACH for a scalar (`interpreter_attach.rs:147`) |
| rows | a REDIM of a table that has rows is not seen by the rows in the interpreter |
| attach | LLVM copies from right to left, though it says it mirrors the other two (`lib.rs:1599`) |
| swap | `emit_item` of the LLVM back end has no arm for SWAP |
| undefined | a negative size in C (always excused: it is undefined behaviour) |

Text IR (`Misread`, `Unquoted`; `Lost` and `Told`, which are exact: `RoundTrip` says that
those and no others are lost):

* `parse_print_items` counts parentheses inside strings; CASE conditions are split
  at every comma; `builtin_assign` at the last ` = ` and at every blank; an
  `array_assign` at `] = `, `mid_assign` at ` | `, FOR at ` to ` and ` step `, also in
  strings; ATTACH does not know an escaped quote; DATA is split at blanks; the
  header of a function with a composite result is rejected.
* The calls `DOUBLE(x)` and `SINGLE(x)` come back as integers: the analysis types them
  Float (`semantics_types.rs:30`), and the reader has no arm for them and takes the
  default (`text_ir_parser_expr.rs:37`), though the comment above it (line 33) says of
  the other conversions that they keep their type "so the text-IR round-trip matches
  direct IR", and every round trip of `text_ir_parser_tests.rs:13` compares the types.
* A value that the analysis coerces to the type of its place (`builtin.rs:321`,
  `semantics_stmts.rs:196`, `semantics_statement.rs:347`) comes back with its own type:
  the argument of `SQRT(n)`, the value of `d# = n`.
* Not in the text: the type of a giant sum, of a shift of a float, of a sum of a
  string and a number, of a minus of a string, of a literal over 32 bits, and of a
  call of a function that returns no integer; a separator that ends a PRINT; the
  composite type of a function that has an explicit RETURN.
* A string constant coerced to a number is written without quotes, so a parenthesis or
  a quote in it misleads the reader (`text_ir_expr.rs:19`).

### Bounds

* Control flow: the programs have six holes filled with every relevant item (17 100
  programs, 8 472 in `c_flow`, those that cc accepts); two
  levels of nested containers, a subroutine, and a function with a subroutine of
  its own. Two levels are the least at which an inner container can swallow what
  belongs to an outer one. `MaxDepth = 7` activations allow main, both blocks, a
  GOSUB from inside them, and a call with a GOSUB of its own on top.
  `GosubLimit = 3` stands for 256; the limit is reached. `MaxCalls = 3`.
* Calls: two locals, one shared variable, two values, depth three: a variable
  passed on by reference twice, through a local and from a shared variable. Two
  lines of input, two error codes, one DATA entry. (`MaxDepth = 3`: a function
  that changes its caller's caller.)
* Output: texts of up to two bytes, five bytes in all, depth two: a partial
  write, its continuation and a whole line fit in every order.
* Files: two names, three OPENs, depth two: a file of the caller, one of the
  callee, and one opened after its return, of which C still holds the number.
  Files of up to two bytes; `Slots = 5` gives C room for two files, so its table
  overflows; the LLVM table (five) does not. Names are interchangeable, so the run
  uses symmetry.
* FOR: four-bit integers, a five-bit pointer-sized type; 200 headers that include
  empty loops, steps of 0 and of both signs, and ends at both limits. `MaxPass`
  caps the history counter above the longest regular loop.

* Parser: expressions of up to three operators over all levels, by both tables, every statement
  inside every container and on both kinds of line, SELECTs of up to two cases with
  a nested SELECT, under every truth value of the conditions: 49 144 texts.
* Names: all sequences of up to four statements on two or three spellings, in one
  function or in two. The analysis of a function depends on its whole body, so the
  programs are enumerated, not grown.
* Arrays: five statements on three names, sizes -1, 0 and 2, one dimension or two
  with an inner bound of 1: enough to fill, move, grow and read again. UBOUND of
  tables and accesses out of range are not compared. Programs are straight lines:
  no array statement branches, and which declaration a name gets is its `kind`.
* Text IR: every expression of up to three operators over string literals that
  contain each separator of each line, in the lines that take it; two levels of
  blocks.

Deadlock checking is off where a program may end (`stack = <<>>`, a fault, the end
of a loop) and the modelled bounds stop a behaviour.

### Fairness

Only `ForLoop` has a liveness property. `Spec` has weak fairness of `StartLoop`
and `NextIteration`: the interpreter and the emitted code are sequential, so a
loop that is reached is started, and a body that is started comes to its NEXT
unless it leaves by `ExitFor`. (A body that does not end is not a property of
FOR.) No fairness is assumed of what the body assigns.

## 4. Proofs

Each theorem holds for every value of the constants: any program, any
limit, any integer width, texts of any length, and any depth but for the two
refinements, which need room for it (last column).

| module | theorem | property | for |
|---|---|---|---|
| `FlowProofs` | `StackTyped`, `StackFollowsProgram` | `TypeOK`, `StackNested` | any well-formed programs, any depth |
| | `FlowStaysInFunction`, `ReturnEndsInnermostGosub`, `ExitEndsOneLoop` | `CallsEndAlone`, `GosubsResume`, `ExitsLeaveOneLoop` | the same |
|  | `InterpreterRefinesC`, `InterpreterRefinesLlvm` | `RefinesC`, `RefinesLlvm` | `MaxDepth <= GosubLimit + 1` |
| `CFlowProofs` | `CStateTyped`, `GosubStackStaysSound`, `CallersLabelsSafe` | `CTypeOK`, `GosubStackSound`, `CallersLabelsKept` | any programs that cc accepts, any `GosubLimit` |
| `CallStateProofs` | `CallsTyped`, `InputTakenInOrder`, `ErrorCodeIsOne` | `TypeOK`, `InputInOrder`, `ErrorCodeIsLast` | any argument lists, any depth |
| | `CopiesAreReferences` | `ByRefTransparent` | `~MayAlias` |
| `OutputProofs` | `OutputTyped`, `NoByteIsLost` | `TypeOK`, `NoByteLost` | any texts, any depth |
| `FilesProofs` | `FilesTyped`, `FilesStayInStep` | `TypeOK`, `EnginesInStep` | any names, bytes, counts, offsets, depth, sizes of the tables |
| `ForLoopProofs` | `LoopsTyped` | `TypeOK` | any widths and headers |
| | `RegularLoopsExact` | `IterationsExact` | `Disciplined` |
| `NamesProofs` | `InterpreterNames`, `CProgramNames` | `InterpreterKeepsNames`, `CProgramKeepsNames` | `PlainNames`, `PlainFamilies`, `NameExcuses`: no `#` names |
| `ArraysProofs` | `InterpreterInStep` | `InterpreterKeepsArrays` | `SlotExcuses`: scalar, rows |
| | `CProgramInStep` | `CProgramKeepsArrays` | `CExcuses`: shared, tail, flat, fixed |
| | `LlvmInStep` | `LlvmKeepsArrays` | `LExcuses`: shared, attach, swap |

The assumptions are the named ASSUMEs of the modules, which TLC evaluates in the
runs, and the hypotheses of the last column. `MaxDepth <= GosubLimit + 1`: beyond
it a GOSUB of the C program or of the LLVM code finds its 256 entries used up and
drops the return position, a known difference that is no concern of the mapping. `~MayAlias`: with
aliases, copies and references do differ, and the interpreter says so.
`Disciplined` is what the run uses too: LLVM bodies do not assign the loop
variable, C bodies none of the three. `SlotExcuses`, `CExcuses` and `LExcuses`:
`Excused` has the departures of that engine listed in section 3 (more may be
excused, fewer not: each is a counterexample without its entry); otherwise the
names, their kinds, the sizes and the number of statements are arbitrary.
`PlainFamilies`: the statements of the programs are any of the model's twelve kinds,
on any scalars and elements of arrays with names of their own (`PlainNames`: a
scalar and an array have no name in common), but there are no `#` names, which the
parser confuses with the plain ones anyway. The families of the run `names` satisfy
it, all but the last, which is the one with `#` names. `NameExcuses`: the departures
of section 3 but for `hash` are excused.

* `FlowProofs`, the interpreter. `TypeOK /\ StackNested` is the inductive invariant; it is
  inductive because `StartedBy` ties every frame to the item whose arm made it, so
  that whichever frame consumes a Flow, the frames below are unchanged and the
  chain up to it still holds. `FlowStaysInFunction` needs that the consumer of any
  Flow is at or above the innermost call frame; `ReturnEndsInnermostGosub` that no
  frame between an active GOSUB frame and the top consumes `GosubReturn`;
  `ExitEndsOneLoop` that the frames an EXIT passes through are no loops.
* `FlowProofs`, the refinements, in four parts. (1) `StandsFor` is a recursive function;
  what it gives for a prefix depends on that prefix only, and bodies of items add
  nothing. (2) `BaseFacts`: the frames since the last GOSUB or call follow
  `path` of the block that runs, so "the innermost frame whose arm consumes the
  Flow", where the interpreter goes, and "the nearest enclosing item", where a C
  `break` or `goto` goes, are one place. (3) `Tidy`, an invariant that the
  interpreter has on the programs of both classes (`Orderly`) and not on others:
  `idx` stays at the item whose arm runs, a function with subroutines does not run
  off its end, and every address of a top-level label is known when it is used;
  it was model-checked on the instance of `control_flow` before it was proved.
  (4) One lemma per action of `CFlow` and of `LFlow`.
* `CFlowProofs`. The noted heights rise along the call stack and stay below the
  present one; `CallersLabelsSafe` follows since a pop needs
  `Len(gosubs) > base`.
* `CallStateProofs`. `ByRefTransparent` speaks of the running function only and is
  not inductive: what is left in the callers has to be right when they are returned
  to. `RefInv` says of every active call which of its copies are current: all but
  those of variables passed on by reference to the function above (`PassedOn`),
  which the writeback will overwrite, and the running copy of a SHARED variable
  unless it is an argument somewhere. Its other half (`EnvInv`) is about the cells:
  a cell of one call is not younger than the call, two names of one call have
  two cells, and a cell known to two calls was passed on all the way.
* `OutputProofs`. `NoByteLost` alone is not inductive: a whole line written while
  `line_pending` is set and no entry exists would be dropped. `PendingHasLine`, for
  every active call, is what forbids it, and it holds since no operation takes
  entries away. Joining, splitting and the loop over the lines are recursive; the
  module proves once that recursion over the last element defines a function, and
  induction over sequences with a set for the induction hypothesis, which the
  provers take where they do not take an operator.
* `FilesProofs`. The inductive invariant adds to `EnginesInStep` where the tables
  are (`Layout`), that an open file is on the disk (`OnDisk`), that a number in
  scope lies in its table (`Placed`), and that two numbers in scope are one in the
  interpreter if and only if they are one in the compiled program (`Apart`):
  without the last, a CLOSE could leave a stale number in one engine. It speaks of
  every file in scope of every active call, since a return brings those back.
* `ForLoopProofs`. The strengthening says where the counter is in terms of `pass`,
  that end and step are still those of the header, and that the next sum is an
  i32, so `Wrap` is the identity there.
* `ArraysProofs`. What a program sees of its arrays is not inductive: an ATTACH of
  a row reads the row's own store, a REDIM the dimensions, a growing assignment the
  count. The invariant says how the whole store of each engine represents the
  reference. `RefInv`: the reference has the type of each name's kind, and the names
  on the heap are in `dyn`. `SlotInv`: a line has no store, or one with its length
  as its only dimension; a table lies in one piece with its dimensions, row after
  row, or in rows that are lines each. `CInv`: a pointer and its bound agree, row by
  row. `LInv`: a buffer is as long as the product of its counts. The three engine
  parts hold until `why` ends the comparison, and each is inductive with `RefInv`
  alone, so that no engine's theorem rests on another's. They were model-checked
  on the instance of `arrays` before they were proved. The lemmas about places
  (`Places`, `PlacesDiffer`, `FlatGrown`, `FlatSet`, `FlatSlice`) say that
  `r * Wide + j` names each element of a table once, that more rows leave the old
  ones where they are, and that cutting a table into rows (`EnsureRows`) keeps it.
* `NamesProofs`. What a name shows is not inductive: the next statement resolves its
  names by tables that the earlier ones left. `NamesInv` says of each engine that has
  not departed what the tables may hold (`TablesOK`, `SymbolsOK`: a base that does not
  collide has the type of its one live spelling; `ArraysOK`: no array has a scalar's
  name, and `x$` has no entry of its own where `x` has it; `IntroducedOK`: a string
  introduced is known, and one declared under a name of its own and not yet known is
  empty, which is why a byte read that finds no scalar still shows the right value) and
  where the values are (`Holds`: under the key of the spelling's slot name, local or
  shared, is the value that the reference has under the spelling, and nothing else is
  shared; no array has a scalar's values). `SharedApart` relates the functions: two declarations have one slot name if
  and only if they are one spelling. A step has two halves. `SymbolMeans` and its
  kin: the slot that the statement's own path finds is the spelling's, whatever is in
  the tables. `HoldsWrite` and its kin: a store to that slot disturbs no other
  spelling, since two live spellings have two keys (`NameInjective`, from the scan
  before the analysis). `NoDeparture` turns the absence of each reason into the
  hypothesis that the statement's lemma needs: each reason gives one that some
  lemma cannot do without (and without any one of them TLC finds `names` violated). The invariant was model-checked, on all programs of up to five
  statements of several families, before it was proved; that is how it was found that
  a byte read of a SHARED string whose base is mixed does not find it, and that the
  analysis lets no DIM name a parameter.

Only model-checked:

* `RegularLoopsEnd`: liveness is out of this prover's reach.
* The parser and the text IR: their definitions are recursive operators, which the
  prover does not take, and what they say is an induction over data.
* `#` names: the last family of the run `names`.

## 5. Not modelled

* Floating point and its formatting, string contents, bits and math builtins: pure
  functions, most of them of floats or of characters.
* The lexer, the wording of diagnostics, the layout of the emitted C.
* Composite variables (the analysis flattens them to plain ones; what is left is
  `last_composite_ret`, a hazard without a property), constants, type checking, the
  inlining of SUBs.
* Array arguments of calls, addresses of variables (`VARPTR`, `UBYTEAT`).
* In the text IR, coerced nodes, `\u{..}` escapes and the contents of the facet
  comment; in the LLVM back end, code of expressions and its string runtime.
* Linker driver, command line, IDE and GUI: they run tools and draw. The self-hosted
  compiler repeats the passes in XBasic.

## 6. Plan

Done: `IrProgram`, `ExecItems`, `CFlow`, `LFlow`, `FlowRefinement`, `CallState`,
`Output`, `ForLoop`, `Files`, `ParseExpr`, `ParseStmt`, `Names`, `Arrays`, `TextIr`.

Proved: every invariant and action property of the control flow, calls, output,
files, FOR, names and arrays, and both refinements.

Next, in this order:

1. Array arguments in `CallState`, with the writebacks of descriptors, and
   `CopiesAreReferences` for them.
2. Composite results, with the order in which they are stored and taken.
3. `Names` with `#` names in the theorem: two more kinds of spelling, and the slot
   that `shared_read_symbol` makes up for a bare name.

------------------------------- MODULE Firmware -------------------------------
(***************************************************************************)
(* One run of the firmware: post_main() of main.c around the function of   *)
(* benchmarks.c that loads, runs and unloads one WebAssembly module, for   *)
(* the three interpreters: run_bench() of wamr and of wasm3, and           *)
(* wasm_interp() of wasmi (staticlib/src/lib.rs).                          *)
(*                                                                         *)
(* Each of the three is a straight list of steps.  The libraries are       *)
(* external: a step that makes or checks something may fail or never come  *)
(* back, and once something is missing no later step succeeds.             *)
(***************************************************************************)
EXTENDS Integers, Sequences

VARIABLES
  build,    (* The interpreter.                                            *)
  traced,   (* Is it a HEAP_TRACE build?                                   *)
  hooked,   (* Does the benchmark have a module_hook?                      *)
  at,       (* Where post_main() is.                                       *)
  step,     (* Steps of the list that are done.                            *)
  ok,       (* History: no step has failed.                                *)
  live,     (* What the library has made and not released.                 *)
  input,    (* Where the hook has copied the input of the benchmark in     *)
            (* guest memory, and where its first argument points to.       *)
  err,      (* What run_active_bench() returns: is there an error?         *)
  printed,  (* The lines on the serial port, except "END OF TEST".         *)
  swo       (* What the ITM port has sent.                                 *)

vars == <<build, traced, hooked, at, step, ok, live, input, err, printed, swo>>

(* A step makes a thing, checks something, copies the input into guest     *)
(* memory, prints a line or releases things.  Its failure ends the list    *)
(* ("fatal"), is not looked at ("ignored") or cannot happen ("never").     *)
Make(thing, onFailure) == [op |-> "make", what |-> {thing}, onFailure |-> onFailure]
Check(onFailure)       == [op |-> "check", what |-> {}, onFailure |-> onFailure]
Copy(to, onFailure)    == [op |-> "copy", what |-> to, onFailure |-> onFailure]
Say(line)              == [op |-> "print", what |-> {line}, onFailure |-> "never"]
Release(things)        == [op |-> "release", what |-> things, onFailure |-> "never"]

(* Mutant of WamrHook: the argument is the length, not the address.        *)
WamrHookLength ==
  IF hooked THEN << Copy({"block", "elsewhere"}, "fatal") >> ELSE <<>>

(* knucleotide_hook(), rc_hook(): wasm_runtime_module_dup_data() allocates *)
(* in guest memory, copies, and returns the address, 0 if it cannot.       *)
(* (The hooks of wasm3 dereference an integer and do not compile: neither  *)
(* of its two benchmarks that need input can be built.)                    *)
WamrHook == IF hooked THEN << Copy({"block"}, "fatal") >> ELSE <<>>

(* register_wasi() returns 0 if the functions of env or those of WASI      *)
(* cannot be registered.                                                   *)
RegisterWasi == Check("fatal")

(* Mutant of WamrList: the module is unloaded before its instance.         *)
WamrListUnloadsFirst ==
  << Make("runtime", "ignored"), Check("fatal"), Make("module", "ignored"),
     Make("instance", "ignored"), Check("fatal"), Say("First"),
     Release({"module"}), Release({"instance"}), Release({"runtime"}) >>

(* run_bench(): the results of wasm_runtime_full_init, _load, _instantiate,*)
(* create_exec_env and lookup_function are used without being looked at.   *)
WamrList ==
  << Make("runtime", "ignored"),
     RegisterWasi,
     Make("module", "ignored"),
     Make("instance", "ignored") >>
  \o WamrHook
  \o << Make("exec_env", "ignored"),
        Check("ignored"),                             \* lookup_function
        Check("fatal"),                               \* _run
        Say("First") >>
  \o (IF traced THEN <<>> ELSE << Check("fatal"), Say("Second") >>)
  \o << Release({"exec_env"}), Release({"instance"}), Release({"module"}),
        Release({"runtime"}) >>

(* Mutant of Wasm3List: the runtime is not freed.                          *)
Wasm3ListLeaks ==
  << Make("environment", "fatal"), Make("runtime", "fatal"), Make("module", "fatal"),
     Check("fatal"), Say("First"), Release({"environment"}) >>

(* run_bench(): a module that has been loaded is freed with the runtime.   *)
(* Nobody looks at the results of the four m3_LinkRawFunction: one fails   *)
(* when the module does not import the function, which is no failure; if   *)
(* the module calls a function that is not linked, that call is what fails.*)
Wasm3List ==
  << Make("environment", "fatal"),
     Make("runtime", "fatal"),
     Make("module", "fatal"),                         \* m3_ParseModule
     Check("fatal"),                                  \* m3_LoadModule
     Check("fatal"),                                  \* m3_LinkWASI
     Check("never"),                                  \* m3_LinkRawFunction
     Check("fatal"),                                  \* _initialize
     Check("fatal"),                                  \* _run
     Check("fatal"),                                  \* m3_GetResults
     Say("First") >>
  \o (IF traced THEN <<>> ELSE << Check("fatal"), Check("fatal"), Say("Second") >>)
  \o << Release({"runtime", "module"}), Release({"environment"}) >>

Wasmi == {"engine", "module", "store", "linker", "instance"}

(* The closure of wasm_interp(), at whose end everything is dropped.       *)
WasmiList ==
  << Make("engine", "never"),
     Make("module", "fatal"),
     Make("store", "never"),
     Make("linker", "never"),
     Make("instance", "fatal"),
     Check("fatal"),                                  \* get_typed_func
     Check("fatal"),                                  \* _run
     Release(Wasmi) >>

List == CASE build = "wamr"  -> WamrList
          [] build = "wasm3" -> Wasm3List
          [] build = "wasmi" -> WasmiList

Cur == List[step + 1]

Init ==
  /\ build \in {"wamr", "wasm3", "wasmi"}
  /\ traced \in BOOLEAN
  /\ hooked \in BOOLEAN
  /\ hooked => build = "wamr"
  /\ at = "entry"
  /\ step = 0
  /\ ok = TRUE
  /\ live = {}
  /\ input = [copy |-> "nowhere", argument |-> "unset"]
  /\ err = FALSE
  /\ printed = {}
  /\ swo = <<>>

Token(kind) == [kind |-> kind, run |-> [traced |-> traced]]

TraceReady ==
  /\ at = "entry"
  /\ swo' = Append(swo, Token("READY"))
  /\ at' = "bench"
  /\ UNCHANGED <<build, traced, hooked, step, ok, live, input, err, printed>>

(* The first step of every list allocates.                                 *)
Allocations ==
  swo' = IF traced /\ step = 0 THEN Append(swo, Token("PACKETS")) ELSE swo

InList(ops) == at = "bench" /\ step < Len(List) /\ Cur.op \in ops

Succeed ==
  /\ InList({"make", "check", "copy", "print", "release"})
  /\ ok
  /\ step' = step + 1
  /\ live' = CASE Cur.op = "make"    -> live \cup Cur.what
               [] Cur.op = "release" -> live \ Cur.what
               [] OTHER              -> live
  /\ input' \in IF Cur.op = "copy" THEN [copy : Cur.what, argument : Cur.what] ELSE {input}
  /\ printed' = IF Cur.op = "print" THEN printed \cup Cur.what ELSE printed
  /\ Allocations
  /\ UNCHANGED <<build, traced, hooked, at, ok, err>>

(* What wasmi prints after wasm_interp(), whether there was an error or    *)
(* not.                                                                    *)
Delays == IF build = "wasmi" THEN {"First", "Second"} ELSE {}

(* Mutant of FailFatally: the return after the message is missing.         *)
FailGoesOn ==
  /\ InList({"make", "check"})
  /\ Cur.onFailure = "fatal"
  /\ err' = TRUE
  /\ step' = step + 1
  /\ Allocations
  /\ UNCHANGED <<build, traced, hooked, at, ok, live, input, printed>>

(* An early return: run_bench() leaves behind what it has made; wasmi      *)
(* drops it, but not the text of the error it returns.                     *)
FailFatally ==
  /\ InList({"make", "check", "copy"})
  /\ Cur.onFailure = "fatal"
  /\ ok' = FALSE
  /\ err' = TRUE
  /\ at' = "post"
  /\ live' = IF build = "wasmi" THEN {"message"} ELSE live
  /\ printed' = printed \cup Delays
  /\ Allocations
  /\ UNCHANGED <<build, traced, hooked, step, input>>

FailIgnored ==
  /\ InList({"make", "check"})
  /\ Cur.onFailure = "ignored"
  /\ ok' = FALSE
  /\ step' = step + 1
  /\ Allocations
  /\ UNCHANGED <<build, traced, hooked, at, live, input, err, printed>>

(* An endless benchmark, a fault, or the loop of wasmi's panic handler.    *)
Hang ==
  /\ InList({"make", "check", "copy", "release"})
  /\ at' = "hung"
  /\ UNCHANGED <<build, traced, hooked, step, ok, live, input, err, printed, swo>>

(* Three benchmarks of wamr return their result or-ed to the error, so a   *)
(* nonzero result is an error, too.                                        *)
WamrErrors == BOOLEAN

(* What the function around the list makes of a list that is done; those   *)
(* of wasm3, and of wasmi, return what the list returns.                   *)
RunnerErrors == IF build = "wamr" THEN WamrErrors ELSE {FALSE}

(* The list is done: return 0.  The function around it prints the result.  *)
ReturnZero ==
  /\ at = "bench"
  /\ step = Len(List)
  /\ err' \in RunnerErrors
  /\ at' = "post"
  /\ printed' = printed \cup Delays \cup (IF err' THEN {} ELSE {"Result"})
  /\ UNCHANGED <<build, traced, hooked, step, ok, live, input, swo>>

(* Mutant of EndOfTest: the stack usage is printed unconditionally.        *)
EndOfTestAlwaysStack ==
  /\ at = "post"
  /\ printed' = printed \cup {"Stack"}
  /\ at' = "ended"
  /\ UNCHANGED <<build, traced, hooked, step, ok, live, input, err, swo>>

(* Mutant of EndOfTest: without the stack usage the test is not ended.     *)
EndOfTestOnlyOnSuccess ==
  /\ at = "post"
  /\ ~err
  /\ printed' = printed \cup {"Stack"}
  /\ at' = "ended"
  /\ UNCHANGED <<build, traced, hooked, step, ok, live, input, err, swo>>

(* Without an error the stack usage is printed; post_main() of wasm3 does  *)
(* not look at what run_active_bench() returns.  Then "END OF TEST".       *)
EndOfTest ==
  /\ at = "post"
  /\ printed' = printed \cup (IF err /\ build # "wasm3" THEN {"Error"} ELSE {"Stack"})
  /\ at' = "ended"
  /\ UNCHANGED <<build, traced, hooked, step, ok, live, input, err, swo>>

TraceDone ==
  /\ at = "ended"
  /\ swo' = Append(swo, Token("DONE"))
  /\ at' = "finished"
  /\ UNCHANGED <<build, traced, hooked, step, ok, live, input, err, printed>>

Next ==
  \/ TraceReady
  \/ Succeed \/ FailFatally \/ FailIgnored \/ Hang
  \/ ReturnZero \/ EndOfTest \/ TraceDone

(* One thread, which the hardware runs.                                    *)
Spec == Init /\ [][Next]_vars /\ WF_vars(Next)
-------------------------------------------------------------------------------
TypeOK ==
  /\ build \in {"wamr", "wasm3", "wasmi"}
  /\ traced \in BOOLEAN /\ hooked \in BOOLEAN /\ ok \in BOOLEAN /\ err \in BOOLEAN
  /\ at \in {"entry", "bench", "post", "ended", "finished", "hung"}
  /\ err => at \notin {"entry", "bench"}
  /\ step \in 0 .. Len(List)
  /\ input \in [copy     : {"nowhere", "block", "elsewhere"},
                argument : {"unset", "block", "elsewhere"}]
  /\ live \subseteq Wasmi \cup {"environment", "runtime", "exec_env", "message"}
  /\ printed \subseteq {"First", "Second", "Result", "Stack", "Error"}
  /\ swo \in Seq([kind : {"READY", "PACKETS", "DONE"}, run : [traced : BOOLEAN]])

(* get_measurements() finds the first delay and the stack usage.           *)
RowParses == {"First", "Stack"} \subseteq printed

(* In a plain build, a row for the csv is only ever found after a run in   *)
(* which every step succeeded.  The exception is wasm3, whose post_main()  *)
(* forgets the error: a failing second call leaves a row, recognisable by  *)
(* its missing second delay.  A benchmark with a hook has had its input.   *)
RowMeansSuccess ==
  at \in {"ended", "finished"} /\ ~traced /\ RowParses =>
    /\ ok \/ (build = "wasm3" /\ "Second" \notin printed)
    /\ hooked => input = [copy |-> "block", argument |-> "block"]

(* Nothing is released before what depends on it: whenever something is    *)
(* live, so is everything that the list makes before it (the text of an    *)
(* error aside).                                                           *)
ReleasedInOrder ==
  live = {"message"} \/
    \A thing \in live : \E k \in 1 .. Len(List) :
      /\ List[k].op = "make" /\ thing \in List[k].what
      /\ \A j \in 1 .. k - 1 : List[j].op = "make" => List[j].what \subseteq live

(* A successful run, of any build, ends with the library having released   *)
(* everything; only then is there a result, so a leak is a failed run.     *)
SuccessReleasesAll ==
  at \in {"post", "ended", "finished"} => (ok <=> live = {} /\ step = Len(List))

(* How far the firmware has got, and what it has printed, as the host sees *)
(* them.                                                                   *)
Phase ==
  CASE at = "entry" -> "started"
    [] at \in {"bench", "post"} ->
         IF "PACKETS" \in {swo[k].kind : k \in DOMAIN swo} THEN "traced" ELSE "running"
    [] OTHER -> at

Text ==
  IF at \in {"ended", "finished"}
  THEN << [run |-> [traced |-> traced], ok |-> RowParses] >> ELSE <<>>

(* Seen from its two ports the firmware is the board of the campaign, also *)
(* in that it does not stop before the end unless it hangs.                *)
Seen == INSTANCE Board WITH
  board <- [run |-> [traced |-> traced], phase |-> Phase], uart <- Text

ImplementsBoard == Seen!OneRun
===============================================================================

------------------------------- MODULE WasiCalls -------------------------------
(***************************************************************************)
(* One of the system calls that the WAMR firmware offers to a benchmark    *)
(* (native_symbols of wamr/stm32/src/main.c): fd_write, in the steps of    *)
(* module WasiWrite, or fd_seek, fd_fdstat_get, fd_close or proc_exit.     *)
(*                                                                         *)
(* lseek() is a stub of the C library and external, as is printf(), whose  *)
(* line is one token.                                                      *)
(***************************************************************************)
EXTENDS WasiWrite

VARIABLES
  fn,         (* The function that is called.                              *)
  args,       (* Its arguments, if it is not fd_write.                     *)
  told,       (* The value of its result parameter: none, or the new       *)
              (* offset, or that the fdstat is filled in.                  *)
  exception   (* Has an exception been set?                                *)

other   == <<fn, args, told, exception>>
allVars == <<vars, other>>

Undefined == "undefined"

Functions == {"fd_write", "fd_seek", "fd_fdstat_get", "fd_close", "proc_exit"}

(* __WASI_WHENCE_SET, __WASI_WHENCE_CUR and __WASI_WHENCE_END.             *)
Whence == 0 .. 2

EINVAL == 28

(* The descriptor, whether the address of the result is in guest memory,   *)
(* and the whence byte.                                                    *)
Args == [fd : 0 .. 3, address : BOOLEAN, whence : Whence \cup {3}]

(* What lseek() of the C library may return: -1 when it fails.             *)
Offsets == {-1, 0, 5}

CallsInit ==
  /\ fn \in Functions
  /\ IF fn = "fd_write"
     THEN /\ pc = "check" /\ call \in Call
          /\ args = [fd |-> 0, address |-> FALSE, whence |-> 0]
     ELSE /\ pc = "enter" /\ call = [fd |-> 0, table |-> FALSE, bufs |-> <<>>]
          /\ args \in Args
  /\ told = Undefined
  /\ exception = FALSE
  /\ Entered

Enter(name) == pc = "enter" /\ fn = name

(* A handler that is one step: its result, its line and its result         *)
(* parameter.                                                              *)
Answer(e, line, value) ==
  /\ Return(e)
  /\ wire' = wire \o line
  /\ told' = value
  /\ UNCHANGED <<call, i, written, len, ciovecs, nwritten, fn, args, exception>>

(* Mutant of FdSeek: the result of lseek() is not looked at.               *)
FdSeekUnchecked ==
  /\ Enter("fd_seek")
  /\ args.address /\ args.whence \in Whence
  /\ \E offset \in Offsets : Answer(0, <<"line">>, IF offset < 0 THEN Undefined ELSE "offset")

(* fd_seek() and wasmtime_ssp_fd_seek(): the address, whence and the       *)
(* result of lseek() are checked; a negative result is the error.          *)
FdSeek ==
  /\ Enter("fd_seek")
  /\ \/ ~args.address /\ Answer(MinusOne, <<>>, Undefined)
     \/ args.address /\ args.whence \notin Whence /\ Answer(EINVAL, <<>>, Undefined)
     \/ /\ args.address /\ args.whence \in Whence
        /\ \E offset \in Offsets :
             IF offset < 0 THEN Answer(offset % 2^16, <<"line">>, Undefined)
                           ELSE Answer(0, <<"line">>, "offset")

(* A character device with the rights of a terminal; the address is not    *)
(* checked.                                                                *)
FdFdstatGet ==
  /\ Enter("fd_fdstat_get")
  /\ IF args.fd \in {1, 2} THEN Answer(0, <<>>, "fdstat")
                           ELSE Answer(MinusOne, <<>>, Undefined)

(* Nothing is closed; a warning.                                           *)
FdClose ==
  /\ Enter("fd_close")
  /\ Answer(MinusOne, <<"line">>, Undefined)

(* Mutant of ProcExit: it returns to the benchmark.                        *)
ProcExitReturns ==
  /\ Enter("proc_exit")
  /\ Answer(0, <<>>, Undefined)

(* The exception ends the benchmark, as a failure, whatever its exit code. *)
ProcExit ==
  /\ Enter("proc_exit")
  /\ exception' = TRUE
  /\ pc' = "returned"
  /\ UNCHANGED <<call, i, written, len, ciovecs, err, nwritten, wire, fn, args, told>>

FdWrite == fn = "fd_write" /\ Next /\ UNCHANGED other

CallsNext ==
  \/ FdWrite \/ FdSeek \/ FdFdstatGet \/ FdClose \/ ProcExit

CallsSpec == CallsInit /\ [][CallsNext]_allVars /\ WF_allVars(CallsNext)
-------------------------------------------------------------------------------
CallsTypeOK ==
  /\ pc \in {"enter", "check", "convert", "write", "fail", "returned"}
  /\ TypesOK
  /\ fn \in Functions /\ args \in Args
  /\ err \in {0, EINVAL, MinusOne}
  /\ told \in {Undefined, "offset", "fdstat"}
  /\ exception \in BOOLEAN

(* A call that returns to the benchmark returns 0 exactly if it has        *)
(* assigned the result the benchmark will then read.                       *)
ToldWhatHappened ==
  pc = "returned" /\ ~exception => (err = 0 <=> told # Undefined \/ nwritten # -1)
===============================================================================

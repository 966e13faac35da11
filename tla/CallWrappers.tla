---------------------------- MODULE CallWrappers ----------------------------
(***************************************************************************)
(* How the Rust, Go and AssemblyScript SDKs turn what the host did with a  *)
(* cross_call, cross_call_static or delegate_call into the value a         *)
(* contract author sees.                                                   *)
(*                                                                         *)
(* A byte string is abstracted to where its bytes come from and how many   *)
(* there are.  "pad" is a run that holds bytes nobody sent: the zeros the  *)
(* SDK allocated its out-buffer with.                                      *)
(***************************************************************************)
EXTENDS Integers

CONSTANT RustCap        \* DEFAULT_RETURN_BUFFER_BYTES

ASSUME RustCapAssumption == RustCap \in Nat

-----------------------------------------------------------------------------
(* Status codes of the ABI *)

StatusOk            == 0
InsufficientBalance == -3
Forbidden           == -5
ReentrancyBlocked   == -9
CrossCallFailed     == -10
CrossCallOutOfGas   == -11
NotPayable          == -12
InvalidFunctionName == -13

Status == {StatusOk, InsufficientBalance, Forbidden, ReentrancyBlocked,
           CrossCallFailed, CrossCallOutOfGas, NotPayable,
           InvalidFunctionName}

-----------------------------------------------------------------------------
(* Byte strings *)

Source == {"none", "ret", "rev", "pad", "generic", "named", "oversize"}
Bytes  == [src : Source, len : Nat]

NoBytes      == [src |-> "none", len |-> 0]
Made(src, n) == IF n = 0 THEN NoBytes ELSE [src |-> src, len |-> n]

\* b is the first b.len bytes of what was sent.
PrefixOf(b, sent) == b = Made(sent.src, b.len) /\ b.len <= sent.len

Least(m, n) == IF m <= n THEN m ELSE n

-----------------------------------------------------------------------------
(* What the host did with one call.  The wrapper allocates cap zero bytes  *)
(* and seeds the length slot with cap; outLen is that slot afterwards, sent*)
(* is what the callee returned or reverted with, and decodes says whether  *)
(* it is the borsh form of the type the caller expects.                    *)

Io == [status : Status, outLen : Nat, sent : Bytes, cap : Nat,
       decodes : BOOLEAN]

NoIo == [status |-> StatusOk, outLen |-> 0, sent |-> NoBytes, cap |-> 0,
         decodes |-> FALSE]

\* The first k bytes of the out-buffer: the host copied in what fits.
Read(io, k) ==
  Made(IF k <= Least(io.sent.len, io.cap) THEN io.sent.src ELSE "pad", k)

-----------------------------------------------------------------------------
(* What a wrapper hands back: a value of the SDK's result type, or "Halt"  *)
(* when the wrapper itself reverts the frame, with the reason as its data. *)

ErrTag == {"InsufficientBalance", "ReentrancyBlocked", "Reverted",
           "NonPayable", "InvalidFunction"}
Tag    == ErrTag \cup {"None", "Ok", "DecodeError", "ReturnDataTooLarge",
                       "Status", "Halt"}
Result == [tag : Tag, code : Status, data : Bytes]

NoResult          == [tag |-> "None", code |-> StatusOk, data |-> NoBytes]
Ok(data)          == [tag |-> "Ok", code |-> StatusOk, data |-> data]
Err(tag, data)    == [tag |-> tag, code |-> StatusOk, data |-> data]
Failed(rc, data)  == [tag |-> "Status", code |-> rc, data |-> data]
Halt(reason)      == [tag |-> "Halt", code |-> StatusOk, data |-> reason]

(* Rust: execute_inner_raw, and execute_inner on top of it when typed *)

ErrFromStatus(status) ==
  CASE status = InsufficientBalance -> "InsufficientBalance"
    [] status = ReentrancyBlocked   -> "ReentrancyBlocked"
    [] status = NotPayable          -> "NonPayable"
    [] status = InvalidFunctionName -> "InvalidFunction"
    [] OTHER                        -> "Reverted"

\* As if there were no ReturnDataTooLarge.
RustRawTruncating(io) ==
  IF io.status = StatusOk THEN Ok(Read(io, Least(io.outLen, io.cap)))
  ELSE Err(ErrFromStatus(io.status), Read(io, Least(io.outLen, io.cap)))

RustRaw(io) ==
  IF io.status # StatusOk
  THEN LET tag == ErrFromStatus(io.status)
       IN  Err(tag, IF tag = "Reverted"
                    THEN Read(io, Least(io.outLen, io.cap))
                    ELSE NoBytes)
  ELSE IF io.outLen > io.cap
       THEN Err("ReturnDataTooLarge", NoBytes)
       ELSE Ok(Read(io, io.outLen))

RustTyped(io) ==
  LET r == RustRaw(io)
  IN  IF r.tag = "Ok" /\ ~ io.decodes THEN Err("DecodeError", NoBytes) ELSE r

(* Go: CallBuilder.Exec *)

\* As if the failure's buffer were not cut to the payload's length.
GoExecWholeBuffer(io) ==
  IF io.status = StatusOk
  THEN IF io.outLen > io.cap THEN Halt(Made("oversize", 1))
                             ELSE Ok(Read(io, io.outLen))
  ELSE Failed(io.status, Read(io, io.cap))

GoExec(io) ==
  IF io.status = StatusOk
  THEN IF io.outLen > io.cap THEN Halt(Made("oversize", 1))
                             ELSE Ok(Read(io, io.outLen))
  ELSE Failed(io.status, Read(io, Least(io.outLen, io.cap)))

(* AssemblyScript: CallBuilder.exec *)

\* exec before 0.1.0-alpha.17.
AsExecNoEarlyReturn(io) ==
  IF io.status = StatusOk
  THEN IF io.outLen > io.cap THEN Halt(Made("oversize", 1))
                             ELSE Ok(Read(io, io.outLen))
  ELSE Failed(io.status, Read(io, Least(io.outLen, io.cap)))

AsExec(io) ==
  IF io.status \notin {StatusOk, CrossCallFailed}
  THEN Failed(io.status, NoBytes)
  ELSE IF io.status = StatusOk
       THEN IF io.outLen > io.cap THEN Halt(Made("oversize", 1))
                                  ELSE Ok(Read(io, io.outLen))
       ELSE Failed(io.status, Read(io, Least(io.outLen, io.cap)))

(* ExecOrRevert / execOrRevert: forward the payload, or say so in the SDK's *)
(* own words; only the AssemblyScript text names the status.                *)

Forwarded(r, text) ==
  IF r.tag # "Status" THEN r
  ELSE Halt(IF r.data # NoBytes THEN r.data ELSE Made(text, 1))

GoExecOrRevert(io) == Forwarded(GoExec(io), "generic")
AsExecOrRevert(io) == Forwarded(AsExec(io), "named")

Sdk   == {"rust", "go", "as"}
Style == {"raw", "typed", "exec", "orRevert"}

\* The styles of call each SDK has.
StylesOf(sdk) == IF sdk = "rust" THEN {"raw", "typed"} ELSE {"exec", "orRevert"}

Wrap(sdk, style, io) ==
  CASE sdk = "rust" /\ style = "raw"    -> RustRaw(io)
    [] sdk = "rust" /\ style # "raw"    -> RustTyped(io)
    [] sdk = "go" /\ style = "exec"     -> GoExec(io)
    [] sdk = "go" /\ style # "exec"     -> GoExecOrRevert(io)
    [] sdk = "as" /\ style = "exec"     -> AsExec(io)
    [] OTHER                            -> AsExecOrRevert(io)
=============================================================================

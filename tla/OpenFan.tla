------------------------------ MODULE OpenFan -------------------------------
(***************************************************************************)
(* The reference device of the Open Device Protocol (mock.rs, "the         *)
(* executable specification of what the first real device must do"): how   *)
(* it answers a request and what a silent host makes it do.  A device is a *)
(* record; Answered gives the record after a request and the answer.       *)
(***************************************************************************)
EXTENDS Framing

CONSTANTS
    FallbackDuty,   \* fallback_duty
    FallbackAfter,  \* fallback_after_ms, in ticks of the device's clock
    MaxFirmware,    \* MAX_FIRMWARE_BYTES
    Compatible      \* does it speak a protocol this host knows (is_compatible)?

ASSUME OpenFanAssumption ==
    /\ FallbackDuty \in 0 .. 100 /\ FallbackAfter \in Nat /\ MaxFirmware \in Nat

NoFirmware == [received |-> 0, total |-> 0, crc |-> 0]

\* MockOpenFan::new.  silent counts the ticks since the host last spoke.
\* History: flashed and chunks are the bytes accepted since the counters were
\* last reset and the requests that brought them; running and built, those of
\* the image installed last.
NewFan == [duty |-> 40, silent |-> 0, engaged |-> FALSE, bootloader |-> FALSE,
           firmware |-> NoFirmware, flashed |-> <<>>, chunks |-> {},
           running |-> <<>>, built |-> {}]

Error(code) == [op |-> "error", code |-> code]
Reply(fan, answer) == [fan |-> fan, answer |-> answer]
Refuse(fan, code) == Reply(fan, Error(code))

-----------------------------------------------------------------------------
(* Time *)

\* Mutant of Ticked: the fallback is announced and the fan stays as it was.
TickedInName(fan) ==
    [fan EXCEPT !.silent = IF @ > FallbackAfter THEN @ ELSE @ + 1,
                !.engaged = @ \/ fan.silent >= FallbackAfter]

\* MockOpenFan::tick
Ticked(fan) ==
    LET silent == IF fan.silent > FallbackAfter THEN fan.silent ELSE fan.silent + 1
    IN IF ~fan.engaged /\ silent > FallbackAfter
       THEN [fan EXCEPT !.silent = silent, !.engaged = TRUE, !.duty = FallbackDuty]
       ELSE [fan EXCEPT !.silent = silent]

\* MockOpenFan::host_spoke: any request that can be read counts.
HostSpoke(fan) == [fan EXCEPT !.silent = 0, !.engaged = FALSE]

-----------------------------------------------------------------------------
(* Requests *)

Capabilities == {"fan.speed_percent", "fan.rpm"}
Writable == {"fan.speed_percent"}

\* SET_STATE: CapabilityDescriptor::validate, then apply_duty.
AnswerSet(fan, request) ==
    IF request.capability \notin Capabilities THEN Refuse(fan, "unknown_capability")
    ELSE IF request.capability \notin Writable THEN Refuse(fan, "not_writable")
    ELSE IF request.value \notin 0 .. 100 THEN Refuse(fan, "invalid_value")
    ELSE Reply([fan EXCEPT !.duty = request.value],
               [op |-> "state_set", applied |-> request.value])

AnswerBootloader(fan, request) ==
    Reply([fan EXCEPT !.bootloader = @ \/ request.confirm],
          [op |-> "bootloader", entered |-> request.confirm])

\* Mutant of Expected: a chunk is taken whatever its offset.
ExpectedAny(fan, offset) == TRUE
Expected(fan, offset) == offset = fan.firmware.received

\* Another total starts another checksum, and leaves the offset alone.
WithChunk(fan, request) ==
    LET restarted == fan.firmware.total # request.total
        seed == IF restarted THEN 0 ELSE fan.firmware.crc
    IN [received |-> fan.firmware.received + Len(request.data),
        total |-> request.total,
        crc |-> Crc8Update(seed, request.data)]

\* UPDATE_FIRMWARE
AnswerUpdate(fan, request) ==
    LET after == WithChunk(fan, request)
        bytes == fan.flashed \o request.data
        chunks == fan.chunks \cup {request}
        empty == [fan EXCEPT !.firmware = NoFirmware, !.flashed = <<>>, !.chunks = {}]
        done == [op |-> "firmware_chunk", received |-> after.received]
    IN
    IF request.total > MaxFirmware \/ ~Expected(fan, request.offset)
    THEN Refuse(fan, "firmware_rejected")
    ELSE IF after.received < after.total
    THEN Reply([fan EXCEPT !.firmware = after, !.flashed = bytes, !.chunks = chunks], done)
    ELSE IF after.crc # request.crc
    THEN Refuse(empty, "firmware_rejected")
    ELSE Reply([empty EXCEPT !.bootloader = FALSE, !.running = bytes, !.built = chunks], done)

\* MockOpenFan::handle.  GET_CAPABILITIES and GET_FIRMWARE_INFO answer like
\* GET_DEVICE_INFO, from the descriptor; subscriptions only count themselves.
Handled(fan, request) ==
    CASE request.op = "get_device_info" ->
            Reply(fan, [op |-> "device_info", compatible |-> Compatible])
      [] request.op = "get_state" -> Reply(fan, [op |-> "state", duty |-> fan.duty])
      [] request.op = "set_state" -> AnswerSet(fan, request)
      [] request.op = "enter_bootloader" -> AnswerBootloader(fan, request)
      [] request.op = "update_firmware" -> AnswerUpdate(fan, request)
      [] request.op = "ping" -> Reply(fan, [op |-> "pong"])

Answered(fan, request) ==
    IF fan.bootloader /\ request.op \notin {"update_firmware", "ping"}
    THEN Refuse(HostSpoke(fan), "bootloader_mode")
    ELSE Handled(HostSpoke(fan), request)
=============================================================================

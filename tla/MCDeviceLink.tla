---------------------------- MODULE MCDeviceLink ----------------------------
(* Values of DeviceLink's constants, for TLC.  One request and one answer    *)
(* are written with a byte of the magic.  The CRC-8 of the first firmware    *)
(* image does not change when its two bytes are swapped: 253 is a fixed      *)
(* point of the eight rounds, 1 ^^ 252 = 253.  The other has another total   *)
(* and starts with a zero, which a checksum that starts anew does not miss.  *)
EXTENDS DeviceLink, TLC

Set == [op |-> "set_state", capability |-> "fan.speed_percent", value |-> 20]
Boot == [op |-> "enter_bootloader", confirm |-> TRUE]
Info == [op |-> "get_device_info"]
Get == [op |-> "get_state"]

Small == <<1, 252>>
Large == <<0, 5, 6>>
MCImages == {Small, Large}
Chunk(image, offset, length) ==
    [op |-> "update_firmware", offset |-> offset, total |-> Len(image),
     data |-> SubSeq(image, offset + 1, offset + length), crc |-> Crc8(image)]

MCRequestCode ==
    Set :> 85 @@ Info :> 11 @@ Get :> 12 @@ Boot :> 13
    @@ Chunk(Small, 0, 1) :> 14 @@ Chunk(Small, 1, 1) :> 15 @@ Chunk(Large, 1, 2) :> 16

MCAnswerCode ==
    [op |-> "device_info", compatible |-> TRUE] :> 170
    @@ [op |-> "state", duty |-> 40] :> 21 @@ [op |-> "state", duty |-> 20] :> 22
    @@ [op |-> "state", duty |-> 70] :> 23
    @@ [op |-> "state_set", applied |-> 20] :> 24
    @@ [op |-> "bootloader", entered |-> TRUE] :> 25
    @@ [op |-> "firmware_chunk", received |-> 1] :> 26
    @@ [op |-> "firmware_chunk", received |-> 2] :> 27
    @@ [op |-> "firmware_chunk", received |-> 3] :> 29
    @@ [op |-> "pong"] :> 28
    @@ Error("bootloader_mode") :> 31 @@ Error("firmware_rejected") :> 32
    @@ Error("framing") :> 33

MCNoise == {85, 170}
=============================================================================

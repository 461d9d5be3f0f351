----------------------------- MODULE DeviceLink -----------------------------
(***************************************************************************)
(* A host and a device on a byte stream: the calls of the host             *)
(* (DeviceTransport::call over StreamTransport, transport.rs, as the Open  *)
(* Device Protocol adapter makes them), the device at the other end        *)
(* (OpenFan, reached the way LoopbackTransport reaches it) and the wire    *)
(* between them, which delivers bytes in pieces, late, damaged or not at   *)
(* all.  One byte stands for a JSON document, so that a frame is six       *)
(* bytes; the host makes one call at a time (the adapter's mutex).         *)
(***************************************************************************)
EXTENDS OpenFan, SequencesExt

CONSTANTS
    NoCall,
    RequestCode,  \* the document of each request of this instance
    AnswerCode,   \* the document of each answer
    Images,       \* the firmware images a host uploads
    Noise,        \* bytes a fault can put on the wire
    MaxCalls,     \* bound on the calls, a damaged byte counting as one
    MaxTroubles   \* bound on the bytes damaged and the reads cut short

Requests == DOMAIN RequestCode
Answers == DOMAIN AnswerCode

\* The duties a fan can be at, and what it may say to each request.
Duties == {NewFan.duty, FallbackDuty}
            \cup {duty \in 0 .. 100 :
                    \E r \in Requests : r.op = "set_state" /\ r.value = duty}

MayAnswer(request) ==
    {Error("bootloader_mode")} \cup
    CASE request.op = "get_device_info" -> {[op |-> "device_info", compatible |-> Compatible]}
      [] request.op = "get_state" -> {[op |-> "state", duty |-> duty] : duty \in Duties}
      [] request.op = "set_state" -> {AnswerSet(NewFan, request).answer}
      [] request.op = "enter_bootloader" -> {AnswerBootloader(NewFan, request).answer}
      [] request.op = "update_firmware" ->
            {Error("firmware_rejected"),
             [op |-> "firmware_chunk", received |-> request.offset + Len(request.data)]}
      [] request.op = "ping" -> {[op |-> "pong"]}

\* A chunk of an image, as a host cuts it; what it says of the checksum is its
\* own affair.
IsChunk(request, image) ==
    /\ request.offset \in Nat /\ request.data \in Seq(Byte)
    /\ request.offset + Len(request.data) <= Len(image)
    /\ request.data =
          SubSeq(image, request.offset + 1, request.offset + Len(request.data))
    /\ request.total = Len(image)

Operations == {"get_device_info", "get_state", "set_state", "enter_bootloader",
               "update_firmware", "ping"}

\* Nothing else can be asked; everything that can be said has a document.
ASSUME DeviceLinkAssumption ==
    /\ MaxCalls \in Nat /\ MaxTroubles \in Nat /\ Noise \subseteq Byte
    /\ RequestCode \in [Requests -> Byte] /\ AnswerCode \in [Answers -> Byte]
    /\ IsInjective(RequestCode) /\ IsInjective(AnswerCode)
    /\ Images \subseteq Seq(Byte) /\ NoCall \notin Requests
    /\ \A r \in Requests :
          /\ r.op \in Operations
          /\ r.op = "enter_bootloader" => r.confirm \in BOOLEAN
          /\ r.op = "update_firmware" => \E image \in Images : IsChunk(r, image)
          /\ MayAnswer(r) \subseteq Answers
    /\ Error("framing") \in Answers

VARIABLES
    present,   \* is the host process alive?
    known,     \* did a handshake register the device with the runtime?
    asked,     \* the request whose answer the host waits for
    outcome,   \* how the last call ended
    buffer,    \* the host's Decoder.buffer
    ready,     \* StreamTransport.ready: answers decoded and not taken yet
    toDevice, toHost,  \* the bytes on the wire
    heard,     \* the device's Decoder.buffer
    fan,       \* the device
    faults,    \* bytes damaged so far
    cuts,      \* reads that found only part of what was under way
    calls,
    requestsSent, requestsGot, answersSent, answersTaken,  \* history
    applied,   \* the duties the device applied (history)
    credited   \* the duties writes reported as applied (history)

host == <<present, known, asked, outcome, buffer, ready, calls>>
device == <<heard, fan>>
wire == <<toDevice, toHost, faults, cuts>>
history == <<requestsSent, requestsGot, answersSent, answersTaken, applied, credited>>
vars == <<host, device, wire, history>>

NoOutcome == "none"

Init ==
    /\ present = TRUE /\ known = FALSE /\ asked = NoCall /\ outcome = NoOutcome
    /\ buffer = <<>> /\ ready = <<>> /\ calls = 0
    /\ heard = <<>> /\ fan = NewFan
    /\ toDevice = <<>> /\ toHost = <<>> /\ faults = 0 /\ cuts = 0
    /\ requestsSent = <<>> /\ requestsGot = <<>>
    /\ answersSent = <<>> /\ answersTaken = <<>>
    /\ applied = <<>> /\ credited = <<>>

-----------------------------------------------------------------------------
(* The wire *)

Quiet == faults + cuts < MaxTroubles

\* One byte changed, lost or added.
Damaged(bytes) ==
    {[bytes EXCEPT ![i] = b] : i \in DOMAIN bytes, b \in Noise}
        \cup {RemoveAt(bytes, i) : i \in DOMAIN bytes}
        \cup {InsertAt(bytes, i, b) : i \in DOMAIN bytes, b \in Noise}

Damage ==
    /\ Quiet /\ calls + faults < MaxCalls
    /\ faults' = faults + 1
    /\ \/ toDevice' \in Damaged(toDevice) /\ UNCHANGED toHost
       \/ toHost' \in Damaged(toHost) /\ UNCHANGED toDevice
    /\ UNCHANGED <<host, device, cuts, history>>

\* A read takes what has arrived by now: all that was sent, or a part of it.
Arrived(wireBytes) == IF Quiet THEN 0 .. Len(wireBytes) ELSE {Len(wireBytes)}

CountCut(wireBytes, n) == cuts' = IF n < Len(wireBytes) THEN cuts + 1 ELSE cuts

Rest(wireBytes, n) == SubSeq(wireBytes, n + 1, Len(wireBytes))

-----------------------------------------------------------------------------
(* The device's end *)

RequestOf(payload) == CHOOSE r \in Requests : <<RequestCode[r]>> = payload
IsRequest(payload) == \E r \in Requests : <<RequestCode[r]>> = payload

Document(answer) == <<AnswerCode[answer]>>

\* The loop of LoopbackTransport::send_frame over the payloads of one read: a
\* payload that is no request is answered, and does not count as the host
\* speaking.
Served(served, payload) ==
    LET reply == IF IsRequest(payload) THEN Answered(served.fan, RequestOf(payload))
                 ELSE Refuse(served.fan, "framing")
    IN [fan |-> reply.fan,
        documents |-> Append(served.documents, Document(reply.answer)),
        frames |-> served.frames \o Encode(Document(reply.answer)),
        duties |-> IF reply.answer.op = "state_set"
                   THEN Append(served.duties, reply.answer.applied) ELSE served.duties]

ServedAll(payloads) ==
    LET served[k \in 0 .. Len(payloads)] ==
            IF k = 0 THEN [fan |-> fan, documents |-> <<>>, frames |-> <<>>, duties |-> <<>>]
            ELSE Served(served[k - 1], payloads[k])
    IN served[Len(payloads)]

\* (A singleton set makes TLC decode once.)
DeviceReads ==
    \E n \in Arrived(toDevice) \ {0} :
    \E decoded \in {Decoded[heard \o SubSeq(toDevice, 1, n)]} :
    \E served \in {ServedAll(decoded.payloads)} :
        /\ CountCut(toDevice, n)
        /\ toDevice' = Rest(toDevice, n)
        /\ heard' = decoded.left
        /\ fan' = served.fan
        /\ toHost' = toHost \o served.frames
        /\ requestsGot' = requestsGot \o decoded.payloads
        /\ answersSent' = answersSent \o served.documents
        /\ applied' = applied \o served.duties
        /\ UNCHANGED <<host, faults, requestsSent, answersTaken, credited>>

\* MockOpenFan::tick.
Tick ==
    /\ fan' = Ticked(fan)
    /\ UNCHANGED <<host, heard, wire, history>>

-----------------------------------------------------------------------------
(* The host's end *)

\* The runtime reads and writes devices a handshake has registered; anything
\* else may be asked of the transport directly.
MayAsk(request) == request.op \in {"get_state", "set_state"} => known

\* The first half of call: encode, send_frame.  What an earlier call left on
\* the wire, in the buffer or in ready is not looked at.
Ask(request) ==
    /\ present /\ asked = NoCall /\ calls + faults < MaxCalls /\ MayAsk(request)
    /\ asked' = request
    /\ calls' = calls + 1
    /\ toDevice' = toDevice \o Encode(<<RequestCode[request]>>)
    /\ requestsSent' = Append(requestsSent, <<RequestCode[request]>>)
    /\ UNCHANGED <<present, known, outcome, buffer, ready, device, toHost, faults, cuts,
                   requestsGot, answersSent, answersTaken, applied, credited>>

IsAnswer(payload) == \E a \in Answers : <<AnswerCode[a]>> = payload
AnswerOf(payload) == CHOOSE a \in Answers : <<AnswerCode[a]>> = payload

\* What a successful answer to each request is called; the opcodes are all a
\* caller compares.
AnswerTo(op) ==
    CASE op = "get_device_info" -> "device_info"
      [] op = "get_state" -> "state"
      [] op = "set_state" -> "state_set"
      [] op = "enter_bootloader" -> "bootloader"
      [] op = "update_firmware" -> "firmware_chunk"
      [] op = "ping" -> "pong"

\* Mutant of Judged: whatever is not an error is a success.
JudgedLoosely(op, answer) ==
    IF answer.op = "error" THEN "refused" ELSE "answered"

\* OpdAdapter::write, read_state and handshake: an error is a refusal, an
\* answer with another opcode is unexpected.
Judged(op, answer) ==
    IF answer.op = "error" THEN "refused"
    ELSE IF answer.op = AnswerTo(op) THEN "answered"
    ELSE "unexpected"

CompatibleInfo == [op |-> "device_info", compatible |-> TRUE]

\* handshake and to_device: a device with a newer protocol is not registered.
Welcomed(answer, verdict) ==
    asked.op = "get_device_info" /\ verdict = "answered" /\ answer = CompatibleInfo

\* The duty a write reports as applied.
Told(answer) == IF "applied" \in DOMAIN answer THEN answer.applied
                ELSE IF "duty" \in DOMAIN answer THEN answer.duty ELSE 0

\* The second half of call: what the decoded answer makes of it.
Conclude(payload) ==
    LET answer == AnswerOf(payload)
        verdict == IF IsAnswer(payload) THEN Judged(asked.op, answer) ELSE "unreadable"
    IN
    /\ outcome' = verdict
    /\ known' = (known \/ Welcomed(answer, verdict))
    /\ credited' = IF asked.op = "set_state" /\ verdict = "answered"
                   THEN Append(credited, Told(answer)) ELSE credited
    /\ answersTaken' = Append(answersTaken, payload)

NoAnswer ==
    /\ outcome' = "did_not_answer"
    /\ UNCHANGED <<known, credited, answersTaken>>

Taken(queue) == Tail(queue)

\* StreamTransport::receive_frame: an answer that is ready, or one read of what
\* has arrived by now.  A read that completes no frame is no answer.
Receive ==
    /\ present /\ asked # NoCall
    /\ asked' = NoCall
    /\ \/ /\ ready # <<>>
          /\ Conclude(Head(ready))
          /\ ready' = Taken(ready)
          /\ UNCHANGED <<buffer, toHost, cuts>>
       \/ /\ ready = <<>>
          /\ \E n \in Arrived(toHost) :
             \E decoded \in {Decoded[buffer \o SubSeq(toHost, 1, n)]} :
                /\ CountCut(toHost, n)
                /\ toHost' = Rest(toHost, n)
                /\ buffer' = decoded.left
                /\ IF decoded.payloads = <<>>
                   THEN NoAnswer /\ ready' = <<>>
                   ELSE /\ Conclude(Head(decoded.payloads))
                        /\ ready' = Taken(decoded.payloads)
    /\ UNCHANGED <<present, calls, device, toDevice, faults,
                   requestsSent, requestsGot, answersSent, applied>>

\* The host crashes, or its cable is pulled: what is on the wire stays there.
HostDies ==
    /\ present
    /\ present' = FALSE
    /\ UNCHANGED <<known, asked, outcome, buffer, ready, calls, device, wire, history>>

-----------------------------------------------------------------------------

Next ==
    \/ \E request \in Requests : Ask(request)
    \/ Receive
    \/ DeviceReads
    \/ Tick
    \/ Damage
    \/ HostDies

\* The device's clock runs whatever the host does.
Spec == Init /\ [][Next]_vars /\ WF_vars(Tick)

-----------------------------------------------------------------------------
(* Properties *)

\* A length field the wire has spoiled never makes a decoder wait for more
\* than one frame of the largest size.
BuffersAreBounded ==
    /\ Len(buffer) < HeaderLength + MaxPayload
    /\ Len(heard) < HeaderLength + MaxPayload

\* Every variable has its type, and the two decoders keep within their bound,
\* whatever the wire made of the bytes.
TypeOK ==
    /\ BuffersAreBounded
    /\ present \in BOOLEAN /\ known \in BOOLEAN /\ asked \in Requests \cup {NoCall}
    /\ outcome \in {NoOutcome, "answered", "refused", "unexpected", "unreadable",
                    "did_not_answer"}
    /\ buffer \in Seq(Byte) /\ ready \in Seq(Seq(Byte)) /\ heard \in Seq(Byte)
    /\ toDevice \in Seq(Byte) /\ toHost \in Seq(Byte)
    /\ calls \in 0 .. MaxCalls /\ faults + cuts \in 0 .. MaxTroubles
    /\ fan.duty \in 0 .. 100 /\ fan.silent \in 0 .. FallbackAfter + 1
    /\ fan.engaged \in BOOLEAN /\ fan.bootloader \in BOOLEAN
    /\ fan.firmware.total \in 0 .. MaxFirmware /\ fan.firmware.received \in Nat
    /\ \A k \in DOMAIN answersSent : answersSent[k] \in {<<AnswerCode[a]>> : a \in Answers}

\* Whatever the wire does, what the device takes for a request was sent by the
\* host, once and in that order.
Requesting == INSTANCE FrameChannel WITH sent <- requestsSent, got <- requestsGot
RequestsArriveInOrder == Requesting!Spec

\* And what the host's calls take for answers was sent by the device: framing
\* and the queue of the transport lose answers, never invent or repeat one.
Answering == INSTANCE FrameChannel WITH sent <- answersSent, got <- answersTaken
AnswersArriveInOrder == Answering!Spec

\* The link implements FrameChannel in both directions.
FramesArriveInOrder == RequestsArriveInOrder /\ AnswersArriveInOrder

\* A write is reported as applied at most as often, and only with the duties,
\* that the device really applied; an answer that came late for its own call
\* may stand in for a later one, but is not counted twice.
CreditIsEarned == Answering!IsSubsequence(credited, applied)

\* Every byte of it stands where it stands in an image.
InPlace(bytes) ==
    \A i \in DOMAIN bytes : \E image \in Images : i <= Len(image) /\ bytes[i] = image[i]

\* However the chunks of the uploads were lost, repeated, answered too late or
\* broken off for another image, even one the checksum cannot tell apart: what
\* the device installs has no byte missing, twice or out of its place, and if
\* its chunks are all of one image, it is that image (UPDATE_FIRMWARE).  (After
\* another total the offset stands, so that chunks of two images can be joined;
\* only the checksum is there to notice.)
InstalledWhole ==
    /\ InPlace(fan.running)
    /\ fan.built # {} => \E image \in Images : Len(image) = Len(fan.running)
    /\ \A image \in Images :
          fan.built # {} /\ (\A r \in fan.built : IsChunk(r, image)) => fan.running = image

\* A host that is gone is noticed: its last orders may still be on the wire,
\* and then the fans are at the fallback duty for good.
SilentHostIsCovered == ~present ~> [](fan.engaged /\ fan.duty = FallbackDuty)
=============================================================================

----------------------------- MODULE MCProviders ------------------------------
(* A card that LibreHardwareMonitor and NVML both describe, for TLC.         *)
EXTENDS Providers, TLC

CONSTANTS lhm, nvidia, lhmCard, nvmlCard

MCOrder == <<lhm, nvidia>>
MCYieldsTo == lhm :> NoAdapter @@ nvidia :> lhm
MCDevicesOf == lhm :> {lhmCard} @@ nvidia :> {nvmlCard}
MCNvml == {nvidia}
MCFans == {lhmCard, nvmlCard}
MCHandsBack == {lhm}
=============================================================================

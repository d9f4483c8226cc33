--------------------------- MODULE MCRetroSession ---------------------------
(***************************************************************************)
(* RetroSession for TLC: a host and a client; names on both sides of the   *)
(* limit; a ROM that is a plain file, and one that is a link.              *)
(***************************************************************************)
EXTENDS RetroSession

AsciiName == [chars |-> 31, bytes |-> 31]
WideName == [chars |-> 31, bytes |-> 32]

MCRequests ==
  { [role |-> "host", name |-> AsciiName, profile |-> "nes", suffix |-> ".nes", target |-> ".nes"],
    [role |-> "client", name |-> WideName, profile |-> "nes", suffix |-> ".nes", target |-> ".nes"],
    [role |-> "host", name |-> WideName, profile |-> "nes", suffix |-> ".nes", target |-> ""] }

\* Specs of somebody else: a standalone game, a host with its own idea of the ROM
\* and a name as wide as the limit in characters, and a guest that asks for a
\* save, which no spec may.
MCSpecs ==
  { [player_name |-> AsciiName, core_profile |-> "nes", role |-> "standalone", host |-> FALSE,
     rom |-> ".nes", sha |-> "approved", subfolder |-> "other", save_mode |-> "ephemeral"],
    [player_name |-> WideName, core_profile |-> "nes", role |-> "host", host |-> FALSE,
     rom |-> ".nes", sha |-> "changed", subfolder |-> "own", save_mode |-> "host-authoritative"],
    [player_name |-> AsciiName, core_profile |-> "nes", role |-> "client", host |-> TRUE,
     rom |-> ".nes", sha |-> "approved", subfolder |-> "own", save_mode |-> "host-authoritative"] }

MCProfiles == {"nes"}
=============================================================================

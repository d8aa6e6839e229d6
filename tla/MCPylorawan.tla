----------------------------- MODULE MCPylorawan -----------------------------
(***************************************************************************)
(* pylorawan is a library that keeps no state between calls.  A behaviour  *)
(* of this model takes one of the two things it is used for: a frame       *)
(* through the codec (Frames), or an uplink through the regional           *)
(* parameters (Bands), while the other part is at rest.                    *)
(***************************************************************************)
EXTENDS Frames, Bands

FramesAtRest ==
  /\ intent = Intent(ProprietaryType, 0, Proprietary(<<>>), <<>>)
  /\ sent = <<>> /\ raw = <<>> /\ phy = <<>> /\ stage = "rest"
  /\ direction = "UP" /\ buffer = <<>> /\ position = 0 /\ result = <<>> /\ done = FALSE

BandsAtRest ==
  /\ uplink = None /\ found = None /\ rx1 = None /\ step = "rest"

LibraryInit ==
  \/ FrameInit /\ BandsAtRest
  \/ BandInit /\ FramesAtRest

LibraryNext ==
  \/ FrameNext /\ UNCHANGED bandVars
  \/ BandNext /\ UNCHANGED frameVars

LibrarySpec == LibraryInit /\ [][LibraryNext]_<<frameVars, bandVars>>
=============================================================================

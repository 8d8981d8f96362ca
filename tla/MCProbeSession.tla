---------------------------- MODULE MCProbeSession ----------------------------
(* Instances of ProbeSession for TLC. *)
EXTENDS ProbeSession

\* All probes have a nonzero commthreshold.  A probe without one behaves like
\* one of these that never times out.
AllTimed == Probe
=============================================================================

------------------------------ MODULE QgisProbe ------------------------------
(***************************************************************************)
(* QgisEnvironmentProbe (adapters/qgis_probe.py): three programs are asked *)
(* for their version, one after the other, and the fonts are listed; what  *)
(* they answer decides whether maps can be produced here.                  *)
(***************************************************************************)
EXTENDS Naturals, Sequences

VARIABLES
    world,      \* how each program behaves when it is run
    fonts,      \* there is a Chinese font
    tools,      \* what the probe has found, in the order of Tools
    verdict     \* status of the report

probe == <<world, fonts, tools, verdict>>

Tools      == <<"qgis_process", "gdalinfo", "projinfo">>
ToolNames  == { Tools[i] : i \in DOMAIN Tools }
Behaviours == {"absent", "sound", "failing", "hanging", "unstartable"}
ExitCodes  == {"none", "zero", "other"}

ProbeInit == tools = <<>> /\ verdict = "none"

\* _probe, which waits for at most timeout_seconds.
ProbeTool(name, behaviour) ==
    [name      |-> name,
     available |-> behaviour = "sound",
     code      |-> CASE behaviour = "sound" -> "zero"
                     [] behaviour = "failing" -> "other"
                     [] OTHER -> "none"]

Probe ==
    /\ Len(tools) < Len(Tools)
    /\ tools' = Append(tools, ProbeTool(Tools[Len(tools) + 1], world[Tools[Len(tools) + 1]]))
    /\ UNCHANGED <<world, fonts, verdict>>

Available(name) == \E i \in DOMAIN tools : tools[i].name = name /\ tools[i].available

\* Without regard to how the programs ended.
CapableOfAll ==
    /\ Available("qgis_process")
    /\ Available("projinfo") \/ Available("gdalinfo")
    /\ fonts

Capable ==
    /\ Available("qgis_process")
    /\ Available("projinfo") \/ Available("gdalinfo")
    /\ fonts
    /\ \A i \in DOMAIN tools : tools[i].code \in {"zero", "none"}

ReportProbe ==
    /\ Len(tools) = Len(Tools)
    /\ verdict = "none"
    /\ verdict' = IF Capable THEN "available" ELSE "unavailable"
    /\ UNCHANGED <<world, fonts, tools>>

ProbeNext == Probe \/ ReportProbe

-----------------------------------------------------------------------------
(* Properties.                                                             *)

ProbeTypeOK ==
    /\ world \in [ToolNames -> Behaviours]
    /\ fonts \in BOOLEAN
    /\ tools \in Seq([name : ToolNames, available : BOOLEAN, code : ExitCodes])
    /\ verdict \in {"none", "available", "unavailable"}

\* The environment counts as available just if QGIS runs, one of the two
\* programs that transform coordinates does, there is a font, and no program
\* fails; one that hangs or cannot be started counts as one that is not
\* there, so it stands in the way only if it is QGIS or neither of the two is
\* left (qgis_probe.py:21-28, 43-44).
ProbeIsEarned ==
    verdict # "none" =>
        (verdict = "available" <=>
            /\ fonts
            /\ world["qgis_process"] = "sound"
            /\ \/ world["gdalinfo"] = "sound" /\ world["projinfo"] # "failing"
               \/ world["projinfo"] = "sound" /\ world["gdalinfo"] # "failing")
=============================================================================

----------------------------- MODULE StatusFields -----------------------------
(***************************************************************************)
(* Which fields of a server's status a platform can fill, and which it     *)
(* fills: the command tables (sbm_parser's commands.rs), the capability    *)
(* matrix derived from them (capabilities.rs), the dispatch that parses    *)
(* what the commands print (lib.rs), the native samples that replaced most *)
(* commands in the agent (sbm_native), and the agent's merge of the two    *)
(* (collect_metrics, monitoring.rs).                                       *)
(*                                                                         *)
(* Grain.  One action per cycle of the agent's loop.                       *)
(*                                                                         *)
(* Abstracted.  A field is there or not; a command is its key; a file, a   *)
(* tool or a section of the script yields its fields or, in any one cycle, *)
(* may fail to.  `host` is what the machine has of the optional hardware.  *)
(***************************************************************************)
CONSTANT Hosts  \* sets of optional fields a machine may offer

Linux == "Linux" Bsd == "Bsd" Windows == "Windows"
System == {Linux, Bsd, Windows}

Field == {"cpu", "cpu_brand", "mem", "swap", "disks", "net", "temps", "conn", "uptime",
          "sys", "host", "diskio", "batteries", "sensors", "nvidia", "amd", "disk_smart"}
\* What needs hardware, a tool or a setting of the machine to be there.
Optional == {"swap", "temps", "batteries", "sensors", "nvidia", "amd", "disk_smart"}

ASSUME HostsAssumption == Hosts \subseteq SUBSET Optional

-----------------------------------------------------------------------------
(* The command tables *)

LINUX == {"echo", "time", "net", "sys", "cpu", "uptime", "conn", "disk", "mem",
          "tempType", "tempVal", "host", "diskio", "battery", "nvidia", "amd",
          "sensors", "diskSmart", "cpuBrand"}
BSD == {"echo", "time", "net", "sys", "cpu", "uptime", "disk", "mem", "host",
        "diskSmart", "cpuBrand"}
WINDOWS == {"echo", "time", "net", "sys", "cpu", "uptime", "conn", "disk", "mem", "temp",
            "host", "diskio", "battery", "nvidia", "amd", "sensors", "diskSmart", "cpuBrand"}

commands(system) ==
  CASE system = Linux -> LINUX [] system = Bsd -> BSD [] system = Windows -> WINDOWS

-----------------------------------------------------------------------------
(* The capability matrix *)

has_command(system, key) == key \in commands(system)

from_commands(system, keys) ==
  IF \E k \in keys : has_command(system, k) THEN "Supported" ELSE "NotImplemented"

hw_from_commands(system, keys) ==
  IF from_commands(system, keys) = "Supported" THEN "HardwareDependent" ELSE "NotImplemented"

SoftwareKeys ==
  [cpu |-> {"cpu"}, cpu_brand |-> {"cpuBrand"}, mem |-> {"mem"}, disks |-> {"disk"},
   net |-> {"net"}, conn |-> {"conn"}, uptime |-> {"uptime"}, sys |-> {"sys"},
   host |-> {"host"}, diskio |-> {"diskio"}]
HardwareKeys ==
  [temps |-> {"tempType", "tempVal", "temp"}, batteries |-> {"battery"},
   sensors |-> {"sensors"}, nvidia |-> {"nvidia"}, amd |-> {"amd"},
   disk_smart |-> {"diskSmart"}]

capabilities(system) ==
  [f \in Field |->
     IF f = "swap" THEN IF system = Linux THEN "Supported" ELSE "NotImplemented"
     ELSE IF f \in DOMAIN HardwareKeys THEN hw_from_commands(system, HardwareKeys[f])
     ELSE from_commands(system, SoftwareKeys[f])]

\* MUTANT: the agent reports what the shared crate says of the script.
AsOfTheScript(system) == capabilities(system)
\* sysinfo gives BSD three fields its commands never had.
effective_capabilities(system) ==
  [f \in Field |-> IF system = Bsd /\ f \in {"swap", "diskio", "temps"}
                     THEN "HardwareDependent" ELSE capabilities(system)[f]]

-----------------------------------------------------------------------------
(* parse_status: the sections each field is parsed from *)

Common == [uptime |-> {"uptime"}, host |-> {"host"}, nvidia |-> {"nvidia"}, amd |-> {"amd"}]

LinuxFields ==
  [cpu |-> {"cpu"}, cpu_brand |-> {"cpuBrand"}, mem |-> {"mem"}, swap |-> {"mem"},
   disks |-> {"disk"}, net |-> {"net"}, temps |-> {"tempType", "tempVal"},
   conn |-> {"conn"}, sys |-> {"sys"}, diskio |-> {"diskio"}, batteries |-> {"battery"},
   sensors |-> {"sensors"}, disk_smart |-> {"diskSmart"}]
BsdFields ==
  [cpu |-> {"cpu"}, cpu_brand |-> {"cpuBrand"}, mem |-> {"mem"}, disks |-> {"disk"},
   net |-> {"net"}, sys |-> {"sys"}, disk_smart |-> {"diskSmart"}]
WindowsFields ==
  [cpu |-> {"cpu"}, cpu_brand |-> {"cpu"}, mem |-> {"mem"}, disks |-> {"disk"},
   temps |-> {"temp"}, sys |-> {"sys"}, conn |-> {"conn"}, batteries |-> {"battery"},
   sensors |-> {"sensors"}, disk_smart |-> {"diskSmart"}, net |-> {"net"},
   diskio |-> {"diskio"}]

Dispatch(system) ==
  LET own == CASE system = Linux -> LinuxFields [] system = Bsd -> BsdFields
               [] system = Windows -> WindowsFields
  IN  [f \in DOMAIN own \cup DOMAIN Common |-> IF f \in DOMAIN own THEN own[f] ELSE Common[f]]

\* A field is filled when every section it is parsed from says something.
parse_status(system, raw) ==
  LET d == Dispatch(system) IN {f \in DOMAIN d : d[f] \subseteq raw}

-----------------------------------------------------------------------------
(* The agent *)

VARIABLES
  platform,   \* system_type()
  host,     \* the optional fields this machine offers
  primed,   \* sysinfo has a CPU reading to measure from
  fields,  \* the fields of current_metrics that say something
  last,     \* history: the last cycle, "none", "short" or "extended"
  clean,    \* history: nothing failed in it
  whole,    \* history: some extended cycle came through with nothing failed
  seen      \* history: fields that were ever shown

fieldVars == <<platform, host, primed, fields, last, clean, whole, seen>>

Offered == (Field \ Optional) \cup host

\* The file or tool each field of a Linux sample is read with.
LinuxSource ==
  [cpu |-> "stat", cpu_brand |-> "cpuinfo", mem |-> "meminfo", swap |-> "meminfo",
   disks |-> "df", net |-> "dev", temps |-> "thermal", conn |-> "snmp",
   uptime |-> "uptime", sys |-> "release", host |-> "hostname", diskio |-> "diskstats"]

\* linux.rs: a read that fails is an empty text, and that an empty field.
linux_sample(failed) ==
  {f \in DOMAIN LinuxSource : f \in Offered /\ LinuxSource[f] # failed}

\* sysinfo_backend.rs: the first call has no CPU reading to measure from.
sysinfo_sample(failed) ==
  {f \in {"cpu", "cpu_brand", "mem", "swap", "disks", "diskio", "net", "temps", "uptime",
          "host", "sys"} : f \in Offered /\ (f = "cpu" => primed)}

sample(failed) == IF platform = Linux THEN linux_sample(failed) ELSE sysinfo_sample(failed)

\* nvidia-smi, run in every cycle.
sample_nvidia(failed) == ({"nvidia"} \cap host) \ {failed}

\* What the script prints: sections whose hardware is there, less one that failed.
Printed(failed) ==
  LET d == Dispatch(platform) IN
  {k \in commands(platform) :
     /\ k # failed
     /\ \E f \in Field \ {"swap"} : f \in DOMAIN d /\ k \in d[f] /\ f \in Offered}

\* The fields the agent takes from the script.
FromScript(native, failed) ==
  LET parsed == parse_status(platform, Printed(failed))
  IN  (parsed \cap {"amd", "sensors", "batteries", "disk_smart"})
      \cup (IF "conn" \in native THEN {} ELSE parsed \cap {"conn"})

\* MUTANT: what the script did not give this time is gone.
CarriedNot == {}
\* carry_forward in adapt_status.
Carried == fields \cap {"amd", "disk_smart", "diskio", "uptime", "conn", "batteries", "sensors"}

FieldsInit ==
  /\ platform \in System /\ host \in Hosts
  /\ platform = Bsd => host \cap {"nvidia", "amd"} = {}
  /\ primed = FALSE /\ fields = {} /\ last = "none"
  /\ clean = FALSE /\ whole = FALSE /\ seen = {}

Sources == IF platform = Linux THEN {LinuxSource[f] : f \in DOMAIN LinuxSource} \cup {"nvidia"}
                             ELSE {"nvidia"}

\* At most one thing fails in a cycle: a source, or a section of the script.
Failures(extended) ==
  ({"nothing"} \X {"nothing"}) \cup (Sources \X {"nothing"})
  \cup (IF extended THEN {"nothing"} \X commands(platform) ELSE {})

\* A cycle that comes through.
FieldCycle(extended) ==
  \E failed \in Failures(extended) :
    LET native == sample(failed[1])
        script == IF extended THEN FromScript(native, failed[2]) ELSE {}
        shown  == (native \cup sample_nvidia(failed[1]) \cup script) \ {"host"}
    IN  /\ fields' = shown \cup Carried
        /\ seen' = seen \cup fields'
        /\ clean' = (failed = <<"nothing", "nothing">>)
        /\ whole' = (whole \/ (extended /\ clean'))
        /\ last' = IF extended THEN "extended" ELSE "short"
        /\ primed' = TRUE
        /\ UNCHANGED <<platform, host>>

\* The script of an extended cycle fails: the sample was taken and is lost.
LostCycle ==
  /\ primed' = TRUE
  /\ UNCHANGED <<platform, host, fields, last, clean, whole, seen>>

FieldsNext == FieldCycle(TRUE) \/ FieldCycle(FALSE) \/ LostCycle

FieldsSpec == FieldsInit /\ [][FieldsNext]_fieldVars

-----------------------------------------------------------------------------
FieldsTypeOK ==
  /\ platform \in System /\ host \in Hosts /\ primed \in BOOLEAN
  /\ fields \subseteq seen /\ seen \subseteq Field
  /\ last \in {"none", "short", "extended"} /\ clean \in BOOLEAN /\ whole \in BOOLEAN

Declared(caps) == {f \in Field : caps[f] # "NotImplemented"}

\* The matrix and the dispatch agree: the app is told a field is supported
\* exactly where a platform's commands, all of them answering, fill it.
MatrixIsWired ==
  Declared(capabilities(platform)) = parse_status(platform, commands(platform))

\* Nothing is shown that /capabilities says is not collected.  Swap on Windows
\* is the exception: sysinfo fills it, and no override says so.
NothingUndeclared ==
  LET known == IF platform = Windows THEN {"swap"} ELSE {} IN
  fields \subseteq Declared(effective_capabilities(platform)) \cup known

\* Once an extended cycle and then any other came through whole, everything
\* that is declared and that the machine has is shown; the agent collects no
\* host name of its own.
DeclaredIsShown ==
  whole /\ clean /\ last = "short" =>
    (Declared(effective_capabilities(platform)) \cap Offered) \ {"host"} \subseteq fields

\* A short cycle, or a section that failed, never takes away a field that only
\* the script gives.
ScriptFieldsStay ==
  seen \cap {"amd", "sensors", "batteries", "disk_smart"} \subseteq fields

\* What the agent says it collects is what it collects.
FieldsAgree == MatrixIsWired /\ NothingUndeclared /\ DeclaredIsShown /\ ScriptFieldsStay
=============================================================================

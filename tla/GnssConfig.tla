----------------------------- MODULE GnssConfig -----------------------------
(***************************************************************************)
(* The configuration of the GNSS receiver at the start of the daemon:      *)
(* gnss_init (src/gnss.c) loads the default configuration of the firmware  *)
(* version (common/gnss-config.c, common/f9_defvalsets.c), adapts it to    *)
(* the configuration file, compares it with the receiver's RAM, writes and *)
(* resets the receiver if they differ, enables RTCM and starts the         *)
(* receiver.  If gnss_init fails the process ends, and is started again.   *)
(*                                                                         *)
(* The receiver keeps its settings in RAM and in its permanent memory (BBR *)
(* and Flash), which a hardware reset loads into the RAM.  A request to it *)
(* may fail, be it that only the answer is lost; MaxFaults bounds this.    *)
(*                                                                         *)
(* A setting is an id, a tuple of names, with a value.  Of the several     *)
(* hundred settings the model keeps one or two of each kind.               *)
(***************************************************************************)
EXTENDS Naturals, SequencesExt

CONSTANTS
  MaxKv,      \* CFG_SET_MAX_KV
  MaxTry,     \* GNSS_RECONFIGURE_MAX_TRY
  Confs,      \* configuration files: gnss-preferred-time-scale,
              \* gnss-cable-delay and gnss-rtcm-enabled
  MaxEdits,   \* bound: changes of the file or the receiver by others, and stops
  MaxFaults   \* bound: requests to the receiver that fail

ASSUME GnssConfigAssumption ==
  /\ MaxKv \in Nat /\ MaxTry \in Nat /\ MaxEdits \in Nat /\ MaxFaults \in Nat
  /\ \A c \in Confs : DOMAIN c = {"scale", "delay", "rtcm"} /\ c.rtcm \in BOOLEAN

-----------------------------------------------------------------------------
(* Default configurations                                                  *)

Versions == {"2.01", "2.20"}

Pair(id, val) == [id |-> id, val |-> val]

\* A line of the default configuration: the settings it stands for.
Key(name, val) == <<Pair(<<"CFG", name>>, val)>>

\* An output rate for each port, "-" to leave it alone.
Rate(message, rates) ==
  (IF rates[1] = "-" THEN << >> ELSE <<Pair(<<message, "UART1">>, rates[1])>>)
    \o (IF rates[2] = "-" THEN << >> ELSE <<Pair(<<message, "UART2">>, rates[2])>>)

\* A baud rate, and protocols; those that are not listed are left alone.
Port(name, baudrate, inprot, outprot) ==
  (IF baudrate = "-" THEN << >> ELSE <<Pair(<<name, "BAUDRATE">>, baudrate)>>)
    \o [i \in DOMAIN inprot |-> Pair(<<name, "INPROT", inprot[i]>>, "1")]
    \o [i \in DOMAIN outprot |-> Pair(<<name, "OUTPROT", outprot[i]>>, "1")]

default_configuration ==
  << Port("UART1", "115200", <<"UBX">>, <<"UBX">>),
     Port("SPI", "-", <<"UBX", "RTCM3">>, <<"UBX", "RTCM3">>),
     Rate("RTCM-3X", <<"0", "0">>), Rate("UBX-TIM-TP", <<"1", "-">>),
     Key("TP-ANT_CABLEDELAY", "50"), Key("TP-TIMEGRID_TP1", "GPS"),
     Key("NAVSPG-WKNROLLOVER", "2.01"), Key("SIGNAL-QZSS_L1S_ENA", "0") >>

default_configuration_v220 ==
  << Port("UART1", "115200", <<"UBX">>, <<"UBX">>),
     Port("SPI", "-", <<"UBX", "RTCM3">>, <<"UBX", "RTCM3">>),
     Rate("RTCM-3X", <<"0", "0">>), Rate("UBX-TIM-TP", <<"1", "-">>),
     Key("TP-ANT_CABLEDELAY", "50"), Key("TP-TIMEGRID_TP1", "GPS"),
     Key("NAVSPG-WKNROLLOVER", "2.20"), Key("SEC-CFG_LOCK", "0") >>

\* A version that is unknown counts as an old one.
Lines(version) ==
  IF version = "2.20" THEN default_configuration_v220 ELSE default_configuration

\* get_default_value_from_config: the settings of all lines.
GetDefaultValueFromConfig == [v \in Versions \cup {"none"} |-> FlattenSeq(Lines(v))]

\* _cfgDbAddKeyVal refuses a list with more than maxKv settings, or with one
\* twice.
CfgDbLoads(kv) ==
  /\ Len(kv) <= MaxKv
  /\ \A i, j \in DOMAIN kv : kv[i].id = kv[j].id => i = j

\* The configurations that come with the daemon load.
ASSUME DefaultsLoad ==
  \A v \in Versions \cup {"none"} : CfgDbLoads(GetDefaultValueFromConfig[v])

\* set_preferred_time_scale, set_cable_delay: an illegal value, or none, keeps
\* the default.
TimeScales == {"GPS", "GAL", "GLO", "BDS", "UTC"}
CableDelays == {"1", "60", "32767"}
Adapted(pair, c) ==
  CASE pair.id = <<"CFG", "TP-TIMEGRID_TP1">> /\ c.scale \in TimeScales ->
         [pair EXCEPT !.val = c.scale]
    [] pair.id = <<"CFG", "TP-ANT_CABLEDELAY">> /\ c.delay \in CableDelays ->
         [pair EXCEPT !.val = c.delay]
    [] OTHER -> pair

\* The settings that gnss_set_configuration wants.
Wanted(version, c) ==
  LET kv == GetDefaultValueFromConfig[version]
  IN  [i \in DOMAIN kv |-> Adapted(kv[i], c)]

-----------------------------------------------------------------------------
(* The receiver                                                            *)

RtcmSettings == <<Pair(<<"UART1", "OUTPROT", "RTCM3">>, "1"), Pair(<<"RTCM-3X", "UART1">>, "1")>>

\* The settings that the firmware of a version has.
Ids ==
  [v \in Versions |-> {p.id : p \in Range(GetDefaultValueFromConfig[v] \o RtcmSettings)}]

\* A layer with the settings of a list; a list with an unknown id is refused.
Known(layer, kv) == \A i \in DOMAIN kv : kv[i].id \in DOMAIN layer
Write(layer, kv) ==
  [id \in DOMAIN layer |->
     IF \E i \in DOMAIN kv : kv[i].id = id
     THEN (CHOOSE p \in Range(kv) : p.id = id).val
     ELSE layer[id]]
Same(layer, kv) == \A i \in DOMAIN kv : kv[i].id \in DOMAIN layer => layer[kv[i].id] = kv[i].val

VARIABLES
  firmware,     \* the version of the receiver
  ram, flash,   \* its settings, in use and permanent
  conf,         \* the configuration file
  pc,           \* how far gnss_init is, "down" without a daemon
  version,      \* receiver_version_major and _minor, "none" if unknown
  tries,        \* of gnss_set_configuration
  edits, faults,
  unread,       \* history: the RAM could not be read at this start
  ramOnly,      \* history: at this start the RAM was as wanted, the permanent
                \* memory was not
  settled       \* history: file and version of the last start that left the
                \* receiver configured in both layers, if nobody changed
                \* anything since

receiver == <<firmware, ram, flash>>
history  == <<unread, ramOnly, settled>>
configVars     == <<firmware, ram, flash, conf, pc, version, tries, edits, faults, unread,
              ramOnly, settled>>

Nothing == <<"none">>
wanted == Wanted(version, conf)

\* A receiver fresh from its factory.
ConfigInit ==
  /\ firmware \in Versions
  /\ ram = [id \in Ids[firmware] |-> "factory"] /\ flash = ram
  /\ conf \in Confs
  /\ pc = "down" /\ version = "none" /\ tries = 0
  /\ edits = 0 /\ faults = 0
  /\ unread = FALSE /\ ramOnly = FALSE /\ settled = Nothing

-----------------------------------------------------------------------------
(* gnss_init                                                               *)

Fault == faults < MaxFaults /\ faults' = faults + 1
NoFault == UNCHANGED faults
\* err_gnss_connect: the process ends.
Fails == pc' = "down"

Start ==
  /\ pc = "down"
  /\ pc' = "version"
  /\ tries' = 0 /\ unread' = FALSE /\ ramOnly' = FALSE
  /\ UNCHANGED <<receiver, conf, version, edits, faults, settled>>

\* gnss_connect gives up after GNSS_CONNECT_MAX_TRY tries; the version may
\* remain unknown.
GetVersion ==
  /\ pc = "version"
  /\ \/ version' = firmware /\ pc' = "check" /\ NoFault
     \/ version' = "none" /\ pc' = "check" /\ Fault
     \/ UNCHANGED version /\ Fails /\ Fault
  /\ UNCHANGED <<receiver, conf, tries, edits, history>>

\* Fault: the defaults are compared, as they are without the file.
FaultCheckConfigInRam ==
  /\ pc = "check"
  /\ \/ /\ pc' = IF Same(ram, GetDefaultValueFromConfig[version]) THEN "rtcm" ELSE "configure"
        /\ ramOnly' = (Same(ram, wanted) /\ ~Same(flash, wanted))
        /\ UNCHANGED unread /\ NoFault
     \/ /\ pc' = "rtcm" /\ unread' = TRUE /\ Fault
        /\ UNCHANGED ramOnly
  /\ UNCHANGED <<receiver, conf, version, tries, edits, settled>>

\* check_gnss_config_in_ram: a setting that the receiver does not report counts
\* as configured, and so do all of them if the RAM cannot be read.
CheckConfigInRam ==
  /\ pc = "check"
  /\ \/ /\ pc' = IF Same(ram, wanted) THEN "rtcm" ELSE "configure"
        /\ ramOnly' = (Same(ram, wanted) /\ ~Same(flash, wanted))
        /\ UNCHANGED unread /\ NoFault
     \/ /\ pc' = "rtcm" /\ unread' = TRUE /\ Fault
        /\ UNCHANGED ramOnly
  /\ UNCHANGED <<receiver, conf, version, tries, edits, settled>>

\* rxSetConfig writes the three layers, or nothing.
Written(kv) ==
  /\ ram' = Write(ram, kv) /\ flash' = Write(flash, kv)
  /\ UNCHANGED firmware

\* gnss_set_configuration, a round without success: the receiver refuses the
\* settings, or the request or its answer is lost.
ConfigureFails ==
  /\ pc = "configure"
  /\ \/ ~Known(ram, wanted) /\ NoFault /\ UNCHANGED receiver
     \/ Fault /\ UNCHANGED receiver
     \/ Known(ram, wanted) /\ Fault /\ Written(wanted)
  /\ IF tries < MaxTry THEN tries' = tries + 1 /\ UNCHANGED pc
                       ELSE Fails /\ UNCHANGED tries
  /\ UNCHANGED <<conf, version, edits, history>>

\* Fault: not to the permanent memory, which the reset brings back.
FaultConfigure ==
  /\ pc = "configure" /\ Known(ram, wanted)
  /\ ram' = Write(ram, wanted) /\ UNCHANGED <<firmware, flash>>
  /\ pc' = "reset"
  /\ UNCHANGED <<conf, version, tries, edits, faults, history>>

Configure ==
  /\ pc = "configure" /\ Known(ram, wanted)
  /\ Written(wanted)
  /\ pc' = "reset"
  /\ UNCHANGED <<conf, version, tries, edits, faults, history>>

\* Fault: a success does not end the loop.
FaultReset ==
  /\ pc = "reset"
  /\ ram' = flash
  /\ pc' = "configure"
  /\ UNCHANGED <<firmware, flash, conf, version, tries, edits, faults, history>>

\* The hardware reset after it; the tries are counted after a success, too, so
\* that one in the round after MaxTry failures ends in failure.
Reset ==
  /\ pc = "reset"
  /\ \/ ram' = flash /\ NoFault /\ (IF tries < MaxTry THEN pc' = "rtcm" ELSE Fails)
     \/ UNCHANGED ram /\ Fault /\ Fails
  /\ UNCHANGED <<firmware, flash, conf, version, tries, edits, history>>

\* gnss_set_rtcm_config; without it gnss_init goes on without RTCM.
SetRtcmConfig ==
  /\ pc = "rtcm"
  /\ \/ ~conf.rtcm /\ NoFault /\ UNCHANGED receiver
     \/ conf.rtcm /\ NoFault /\ Written(RtcmSettings)
     \/ conf.rtcm /\ Fault /\ (UNCHANGED receiver \/ Written(RtcmSettings))
  /\ pc' = "start"
  /\ UNCHANGED <<conf, version, tries, edits, history>>

\* rxReset GNSS_START, and the threads.
StartReceiver ==
  /\ pc = "start"
  /\ \/ /\ pc' = "running" /\ NoFault
        /\ settled' = IF conf.rtcm \/ unread \/ ramOnly THEN Nothing ELSE <<version, conf>>
     \/ Fails /\ Fault /\ UNCHANGED settled
  /\ UNCHANGED <<receiver, conf, version, tries, edits, unread, ramOnly>>

-----------------------------------------------------------------------------
(* Others                                                                  *)

Edit == edits < MaxEdits /\ edits' = edits + 1

\* A hardware or cold reset that a client of the monitoring socket asked for.
ActionReset ==
  /\ pc = "running" /\ ram # flash
  /\ ram' = flash
  /\ UNCHANGED <<firmware, flash, conf, pc, version, tries, edits, faults, history>>

Stop ==
  /\ pc = "running" /\ Edit
  /\ pc' = "down"
  /\ UNCHANGED <<receiver, conf, version, tries, faults, history>>

\* The administrator changes the file, or uses another tool on the receiver.
EditConf ==
  /\ pc = "down" /\ Edit
  /\ conf' \in Confs
  /\ settled' = Nothing
  /\ UNCHANGED <<receiver, pc, version, tries, faults, unread, ramOnly>>

OtherTool ==
  /\ pc = "down" /\ Edit
  /\ ram' = Write(ram, Key("TP-ANT_CABLEDELAY", "60"))
  /\ flash' \in {flash, Write(flash, Key("TP-ANT_CABLEDELAY", "60"))}
  /\ settled' = Nothing
  /\ UNCHANGED <<firmware, conf, pc, version, tries, faults, unread, ramOnly>>

GnssInit == \/ Start \/ GetVersion \/ CheckConfigInRam \/ ConfigureFails \/ Configure
            \/ Reset \/ SetRtcmConfig \/ StartReceiver
ConfigNext == GnssInit \/ ActionReset \/ Stop \/ EditConf \/ OtherTool

\* A daemon that has ended is started again, and gnss_init does not block: its
\* requests have timeouts.
ConfigSpec == ConfigInit /\ [][ConfigNext]_configVars /\ WF_configVars(GnssInit)

-----------------------------------------------------------------------------
(* Properties                                                              *)

ConfigTypeOK ==
  /\ firmware \in Versions /\ version \in Versions \cup {"none"}
  /\ DOMAIN ram = Ids[firmware] /\ DOMAIN flash = Ids[firmware]
  /\ conf \in Confs
  /\ pc \in {"down", "version", "check", "configure", "reset", "rtcm", "start", "running"}
  /\ tries \in 0 .. MaxTry /\ edits \in 0 .. MaxEdits /\ faults \in 0 .. MaxFaults
  /\ unread \in BOOLEAN /\ ramOnly \in BOOLEAN
  /\ settled \in {Nothing} \cup ((Versions \cup {"none"}) \X Confs)

\* The receiver has the settings of the file and the version, those for RTCM
\* apart.
Configured ==
  \A p \in Range(wanted) :
    p.id \in DOMAIN ram => ram[p.id] = p.val \/ (conf.rtcm /\ p.id = RtcmSettings[2].id)

\* The receiver of a running daemon has its configuration, through resets too,
\* unless its RAM could not be read at the start (a failed check passes for a
\* good one) or others had set the RAM and not the permanent memory, which is
\* never compared.
RunsConfigured == pc = "running" => Configured \/ unread \/ ramOnly

\* A start does not reset a receiver that the last one left configured for the
\* same file and version.  This is without RTCM: its settings are written over
\* default ones, so that every start with RTCM configures and resets anew.
QuietRestart ==
  [][pc = "reset" /\ ram' = flash /\ pc' # "down" => settled # <<version, conf>>]_configVars

\* When requests to the receiver fail no more, the daemon gets to run, and stays
\* so: a start that gave up, even after a success, is made good by the next one.
EventuallyRuns == <>[](pc = "running")

=============================================================================

---------------------------- MODULE ProcessProofs ----------------------------
(***************************************************************************)
(* What the process holds is what it should, for every mixer and any       *)
(* number of reloads, updates and drawings.                                *)
(*                                                                         *)
(* The invariant says of every resource when it is held: those of a        *)
(* collector from its init to its close if it is set up, those of the gui  *)
(* according to the function that is called next, and those that a call    *)
(* takes for itself never.  No call then needs, or gives back, what is not *)
(* held, and what the threads found is there between any two drawings.  Of *)
(* the Unfreed, events and errors, it says nothing: they are held or not.  *)
(* Then: which outputs volume_init() finds, by induction over the devices, *)
(* and what the two conversions give for every colour and every size.      *)
(***************************************************************************)
EXTENDS Process, WellFoundedInduction, TLAPS

\* The resources of the collectors, and those of the gui.
CSide == {"apm_dev_fd", "x", "rec_reply", "prop_reply", "query_reply", "cpus", "network.iface",
          "mixer_fd", "wifi.iface", "wifi_socket"}
GRest == {"xdisp", "con", "xfont", "pfont", "xwin", "window", "surface", "cairo"}
GMeasure == {"measure xdisp", "measure con", "measure xwin", "measure window", "measure surface",
             "measure cairo"}
GSide == GRest \cup GMeasure \cup {"group"}

HeldType == held \subseteq CSide \cup GSide \cup Unfreed

\* A step that takes and gives back nothing but events and errors.
SameHeld == \A r : r \notin Unfreed => (r \in held' <=> r \in held)

\* The n-th collector was not initialised yet; it was closed.
Before(n) == phase = "stats_init" /\ turn <= n
After(n)  == phase = "done" \/ (phase = "stats_close" /\ turn > n)

BatteryInv ==
  /\ Before(1) => ~is_setup["battery"] /\ "apm_dev_fd" \notin held
  /\ is_setup["battery"] => ("apm_dev_fd" \in held <=> ~After(1))

BrightnessInv ==
  /\ Before(2) => /\ ~is_setup["brightness"]
                  /\ "x" \notin held /\ "rec_reply" \notin held /\ "prop_reply" \notin held
  /\ is_setup["brightness"] => /\ "x" \in held <=> ~After(2)
                               /\ "rec_reply" \in held <=> ~After(2)
                               /\ "query_reply" \in held <=> ~After(2)
                               /\ "prop_reply" \notin held
  /\ ~is_setup["brightness"] => "query_reply" \notin held

CpuInv == "cpus" \in held <=> ~Before(3) /\ ~After(3)

NetworkInv ==
  /\ Before(5) => ~is_setup["network"]
  /\ "network.iface" \in held <=> is_setup["network"] /\ ~After(5)

VolumeInv ==
  /\ Before(7) => ~is_setup["volume"]
  /\ "mixer_fd" \in held <=> is_setup["volume"] /\ ~After(7)

WifiInv ==
  /\ Before(8) => ~is_setup["wifi"] /\ "wifi_socket" \notin held
  /\ "wifi.iface" \in held <=> is_setup["wifi"] /\ ~After(8)
  /\ is_setup["wifi"] => ("wifi_socket" \in held <=> ~After(8))

CInv == BatteryInv /\ BrightnessInv /\ CpuInv /\ NetworkInv /\ VolumeInv /\ WifiInv

\* What the gui has when a function is called.
HasDisplay == ~(at = "xdisp_init" /\ ~measuring) /\ at # "closed"
HasFont    == measuring \/ at \in {"xwin_init", "xwin_push", "xwin_pop", "rest", "xwin_free", "xfont_free"}
HasWindow  == ~measuring /\ at \in {"xwin_push", "xwin_pop", "rest", "xwin_free"}
HasDisplayToMeasure == measuring /\ at \in {"xwin_init", "layout", "xwin_free", "xdisp_free"}
HasWindowToMeasure  == measuring /\ at \in {"layout", "xwin_free"}

GInv ==
  /\ \A r \in {"xdisp", "con"} : r \in held <=> HasDisplay
  /\ \A r \in {"xfont", "pfont"} : r \in held <=> HasFont
  /\ \A r \in {"xwin", "window", "surface", "cairo"} : r \in held <=> HasWindow
  /\ \A r \in {"measure xdisp", "measure con"} : r \in held <=> HasDisplayToMeasure
  /\ \A r \in {"measure xwin", "measure window", "measure surface", "measure cairo"} :
       r \in held <=> HasWindowToMeasure
  /\ "group" \in held <=> at = "xwin_pop"
  /\ measuring => at \in {"xdisp_init", "xwin_init", "layout", "xwin_free", "xdisp_free"}
  /\ at = "layout" => measuring
  /\ ~HasDisplay => colormaps["xdisp"] = 0
  /\ ~HasDisplayToMeasure => colormaps["measure"] = 0

\* Which functions are called next, as far as main() is.
FInv ==
  /\ phase \in {"stats_init", "first_update", "stats_close"} => turn # 0
  /\ phase \in {"setup", "cleanup"} => turn = 0
  /\ phase \in {"stats_init", "first_update"} => at = "xdisp_init" /\ ~measuring
  /\ phase = "setup" => at \notin {"xfont_free", "closed"}
  /\ phase = "setup" /\ at \in {"xwin_free", "xdisp_free"} => measuring
  /\ phase = "running" => at # "closed"
  /\ phase = "running" /\ at \in {"xdisp_init", "xdisp_free"} => measuring
  /\ phase = "cleanup" => at \in {"xwin_free", "xfont_free", "xdisp_free", "closed"} /\ ~measuring
  /\ phase \in {"stats_close", "done"} => at = "closed" /\ ~measuring

\* The collectors hold what they held when the threads were started.
BInv ==
  phase = "running" =>
    /\ base \subseteq CSide \cup GSide \cup Unfreed
    /\ \A r \in CSide : r \in base <=> r \in held
    /\ \A r \in GSide : r \in base <=> r \in GRest

IInv ==
  /\ PTypeOK /\ UsesOnlyHeld
  /\ phase # "exited" => HeldType /\ CInv /\ GInv /\ FInv /\ BInv

-----------------------------------------------------------------------------
(* The init functions.                                                      *)

LEMMA OrderIs ==
  /\ Len(Order) = 8
  /\ Order[1] = "battery" /\ Order[2] = "brightness" /\ Order[3] = "cpus" /\ Order[4] = "memory"
  /\ Order[5] = "network" /\ Order[6] = "nprocs" /\ Order[7] = "volume" /\ Order[8] = "wifi"
BY DEF Order

LEMMA Names ==
  CollectorNames = {"battery", "brightness", "cpus", "memory", "network", "nprocs", "volume", "wifi"}
<1>1. \A c : c \in CollectorNames <=> \E n \in 1..8 : c = Order[n]
  BY DEF CollectorNames
<1>2. 1..8 = {1, 2, 3, 4, 5, 6, 7, 8}
  OBVIOUS
<1> QED
  BY <1>1, <1>2, OrderIs

\* Only the flag of the collector itself changes.
LEMMA OneFlag ==
  ASSUME PTypeOK, NEW c \in CollectorNames, NEW ok \in BOOLEAN, SetUp(c, ok)
  PROVE  /\ is_setup' \in [CollectorNames -> BOOLEAN]
         /\ is_setup'[c] = ok
         /\ \A d \in CollectorNames : d # c => is_setup'[d] = is_setup[d]
BY DEF PTypeOK, SetUp

\* What a call takes for itself is not held between two calls.
LEMMA NotKept ==
  ASSUME HeldType
  PROVE  \A r \in {"reply", "ioctlfd", "ifgr_groups", "buf", "swapdev", "xatom_reply", "layout"} :
           r \notin held
BY DEF HeldType, CSide, GSide, GRest, GMeasure, Unfreed

\* Neither side is of what nothing frees.
LEMMA SidesFreed == \A r \in CSide \cup GSide : r \notin Unfreed
BY DEF CSide, GSide, GRest, GMeasure, Unfreed

\* What an init function does to what is held: it was not held, and is held afterwards
\* as the invariant says.
LEMMA InitBattery ==
  ASSUME UsesOnlyHeld, BatteryInv, Before(1), battery_init
  PROVE  /\ UsesOnlyHeld'
         /\ \A r : r # "apm_dev_fd" => (r \in held' <=> r \in held)
         /\ \E ok \in BOOLEAN : SetUp("battery", ok) /\ (ok => "apm_dev_fd" \in held')
<1>1. CASE Calls({}, {}, {}) /\ SetUp("battery", FALSE)
  BY <1>1 DEF Calls, Assigns, UsesOnlyHeld, Unfreed
<1>2. CASE Calls({}, apm_dev_fd, {}) /\ \E ok \in BOOLEAN : SetUp("battery", ok)
  BY <1>2 DEF Calls, Assigns, UsesOnlyHeld, Unfreed, BatteryInv, apm_dev_fd
<1> QED
  BY <1>1, <1>2 DEF battery_init

LEMMA InitBrightness ==
  ASSUME UsesOnlyHeld, HeldType, BrightnessInv, Before(2), brightness_init
  PROVE  /\ UsesOnlyHeld'
         /\ \A r : r \notin {"x", "rec_reply", "prop_reply", "query_reply"} \cup Unfreed =>
              (r \in held' <=> r \in held)
         /\ \E ok \in BOOLEAN :
              /\ SetUp("brightness", ok)
              /\ ok => {"x", "rec_reply", "query_reply"} \subseteq held' /\ "prop_reply" \notin held'
              /\ ~ok => "query_reply" \notin held'
<1>0. /\ "x" \notin held /\ "rec_reply" \notin held /\ "prop_reply" \notin held
      /\ "query_reply" \notin held /\ "reply" \notin held
  BY NotKept DEF BrightnessInv
<1>1. CASE Calls({}, {"x"}, {}) /\ SetUp("brightness", FALSE)
  BY <1>0, <1>1 DEF Calls, Assigns, UsesOnlyHeld, Unfreed
<1>2. ASSUME NEW answer \in PropAnswers,
             Assigns({"error"}, {}, {"x", "reply", "rec_reply"} \cup answer, {"reply"}),
             SetUp("brightness", FALSE)
      PROVE  /\ UsesOnlyHeld'
             /\ \A r : r \notin {"x", "rec_reply", "prop_reply", "query_reply"} \cup Unfreed =>
                  (r \in held' <=> r \in held)
             /\ "query_reply" \notin held'
  <2>1. answer \subseteq {"prop_reply", "error"}
    BY DEF PropAnswers
  <2>2. \A r : r \in held' <=>
          (r \in held \ {"error"} \/ r \in {"x", "reply", "rec_reply"} \cup answer) /\ r # "reply"
    BY <1>2 DEF Assigns
  <2>3. lost' \subseteq Unfreed
    BY <1>0, <1>2, <2>1 DEF Assigns, UsesOnlyHeld, Unfreed
  <2>4. misused' = {}
    BY <1>2 DEF Assigns, UsesOnlyHeld
  <2>5. \A r : r \notin {"x", "rec_reply", "prop_reply", "query_reply"} \cup Unfreed =>
               (r \in held' <=> r \in held)
    BY <1>0, <2>1, <2>2 DEF Unfreed
  <2>6. "query_reply" \notin held'
    BY <1>0, <2>1, <2>2
  <2> QED
    BY <2>3, <2>4, <2>5, <2>6 DEF UsesOnlyHeld
<1>3. CASE /\ Assigns({"error"}, {}, {"x", "reply", "rec_reply", "prop_reply", "query_reply"},
                      {"reply", "prop_reply"})
           /\ SetUp("brightness", TRUE)
  BY <1>0, <1>3 DEF Assigns, UsesOnlyHeld, Unfreed
<1> QED
  BY <1>1, <1>2, <1>3 DEF brightness_init

LEMMA InitCpu ==
  ASSUME UsesOnlyHeld, CpuInv, Before(3), cpu_init
  PROVE  /\ UsesOnlyHeld'
         /\ \A r : r # "cpus" => (r \in held' <=> r \in held)
         /\ "cpus" \in held' /\ \E ok \in BOOLEAN : SetUp("cpus", ok)
BY DEF Calls, Assigns, UsesOnlyHeld, Unfreed, CpuInv, cpu_init

\* get_egress() gives back what it takes.
LEMMA NoEgressGives ==
  ASSUME UsesOnlyHeld, HeldType, NoEgress
  PROVE  UsesOnlyHeld' /\ \A r : r \in held' <=> r \in held
<1>1. "ioctlfd" \notin held /\ "ifgr_groups" \notin held
  BY NotKept
<1>2. ASSUME NEW lookup \in {ioctlfd, ifgr}, Calls({}, lookup, lookup)
      PROVE  UsesOnlyHeld' /\ \A r : r \in held' <=> r \in held
  BY <1>1, <1>2 DEF Calls, Assigns, UsesOnlyHeld, Unfreed, ioctlfd, ifgr
<1> QED
  BY <1>2 DEF NoEgress

LEMMA InitNetwork ==
  ASSUME UsesOnlyHeld, HeldType, NetworkInv, Before(5), net_init
  PROVE  /\ UsesOnlyHeld'
         /\ \A r : r # "network.iface" => (r \in held' <=> r \in held)
         /\ \E ok \in BOOLEAN : SetUp("network", ok) /\ ("network.iface" \in held' <=> ok)
<1>0. "ioctlfd" \notin held /\ "ifgr_groups" \notin held /\ "buf" \notin held /\ "network.iface" \notin held
  BY NotKept DEF NetworkInv
<1>1. CASE NoEgress /\ SetUp("network", FALSE)
  BY <1>0, <1>1, NoEgressGives
<1>2. CASE Egress({"network.iface"} \cup buf, buf) /\ SetUp("network", TRUE)
  BY <1>0, <1>2 DEF Calls, Assigns, UsesOnlyHeld, Unfreed, Egress, ifgr, ioctlfd, buf
<1> QED
  BY <1>1, <1>2 DEF net_init

LEMMA InitVolume ==
  ASSUME UsesOnlyHeld, VolumeInv, Before(7), volume_init
  PROVE  /\ UsesOnlyHeld'
         /\ \A r : r # "mixer_fd" => (r \in held' <=> r \in held)
         /\ \E ok \in BOOLEAN : SetUp("volume", ok) /\ ("mixer_fd" \in held' <=> ok)
<1>0. "mixer_fd" \notin held
  BY DEF VolumeInv
<1>1. CASE Calls({}, {}, {}) /\ SetUp("volume", FALSE)
  BY <1>0, <1>1 DEF Calls, Assigns, UsesOnlyHeld, Unfreed
<1>2. CASE Calls({}, mixer_fd, mixer_fd) /\ SetUp("volume", FALSE)
  BY <1>0, <1>2 DEF Calls, Assigns, UsesOnlyHeld, Unfreed, mixer_fd
<1>3. CASE Calls({}, mixer_fd, {}) /\ SetUp("volume", TRUE)
  BY <1>0, <1>3 DEF Calls, Assigns, UsesOnlyHeld, Unfreed, mixer_fd
<1> QED
  BY <1>1, <1>2, <1>3 DEF volume_init

LEMMA InitWifi ==
  ASSUME UsesOnlyHeld, HeldType, WifiInv, Before(8), wifi_init
  PROVE  /\ UsesOnlyHeld'
         /\ \A r : r \notin {"wifi.iface", "wifi_socket"} => (r \in held' <=> r \in held)
         /\ \E ok \in BOOLEAN : /\ SetUp("wifi", ok)
                                /\ "wifi.iface" \in held' <=> ok
                                /\ ok => "wifi_socket" \in held'
<1>0. /\ "ioctlfd" \notin held /\ "ifgr_groups" \notin held
      /\ "wifi.iface" \notin held /\ "wifi_socket" \notin held
  BY NotKept DEF WifiInv
<1>1. CASE NoEgress /\ SetUp("wifi", FALSE)
  BY <1>0, <1>1, NoEgressGives
<1>2. CASE Egress(iface, iface) /\ SetUp("wifi", FALSE)
  BY <1>0, <1>2 DEF Calls, Assigns, UsesOnlyHeld, Unfreed, Egress, ifgr, ioctlfd, iface
<1>3. CASE Egress(iface \cup wifi_socket, iface) /\ SetUp("wifi", FALSE)
  BY <1>0, <1>3 DEF Calls, Assigns, UsesOnlyHeld, Unfreed, Egress, ifgr, ioctlfd, iface, wifi_socket
<1>4. CASE Egress(iface \cup wifi_socket, {}) /\ SetUp("wifi", TRUE)
  BY <1>0, <1>4 DEF Calls, Assigns, UsesOnlyHeld, Unfreed, Egress, ifgr, ioctlfd, iface, wifi_socket
<1> QED
  BY <1>1, <1>2, <1>3, <1>4 DEF wifi_init

-----------------------------------------------------------------------------
(* The update and the close functions.                                      *)

\* An update uses what is held, and leaves it.
LEMMA Updates ==
  ASSUME UsesOnlyHeld, HeldType, CInv, phase \in {"first_update", "running"},
         turn \in 1..8, update(Order[turn])
  PROVE  UsesOnlyHeld' /\ SameHeld
<1>0. /\ \A n \in 1..8 : ~Before(n) /\ ~After(n)
      /\ "buf" \notin held /\ "swapdev" \notin held
  BY NotKept DEF Before, After
<1>1. ASSUME battery_update PROVE UsesOnlyHeld' /\ SameHeld
  <2>1. is_setup["battery"] => "apm_dev_fd" \in held
    BY <1>0 DEF CInv, BatteryInv
  <2> QED
    BY <1>1, <2>1 DEF battery_update, Calls, Assigns, UsesOnlyHeld, Unfreed, SameHeld, apm_dev_fd
<1>2. ASSUME brightness_update PROVE UsesOnlyHeld' /\ SameHeld
  <2>1. is_setup["brightness"] => "x" \in held /\ "rec_reply" \in held /\ "prop_reply" \notin held
    BY <1>0 DEF CInv, BrightnessInv
  <2>2. CASE ~is_setup["brightness"]
    BY <1>2, <2>2 DEF brightness_update, Calls, Assigns, UsesOnlyHeld, Unfreed, SameHeld
  <2>3. CASE is_setup["brightness"]
    <3>1. PICK answer \in PropAnswers :
            Assigns({"error"}, {"x", "rec_reply"}, answer, answer \ {"error"})
      BY <1>2, <2>3 DEF brightness_update
    <3>2. answer \subseteq {"prop_reply", "error"}
      BY DEF PropAnswers
    <3>3. misused' = {} /\ lost' \subseteq Unfreed
      BY <2>1, <2>3, <3>1, <3>2 DEF Assigns, UsesOnlyHeld, Unfreed
    <3>4. \A r : r \in held' <=> (r \in held \ {"error"} \/ r \in answer) /\ r \notin answer \ {"error"}
      BY <3>1 DEF Assigns
    <3>5. SameHeld
      BY <2>1, <2>3, <3>2, <3>4 DEF SameHeld, Unfreed
    <3> QED
      BY <3>3, <3>5 DEF UsesOnlyHeld
  <2> QED
    BY <2>2, <2>3
<1>3. ASSUME cpu_update PROVE UsesOnlyHeld' /\ SameHeld
  <2>1. "cpus" \in held
    BY <1>0 DEF CInv, CpuInv
  <2> QED
    BY <1>3, <2>1 DEF cpu_update, Calls, Assigns, UsesOnlyHeld, Unfreed, SameHeld
<1>4. ASSUME memory_update PROVE UsesOnlyHeld' /\ SameHeld
  <2>1. PICK swapdev \in {{}, {"swapdev"}} : Calls({}, swapdev, swapdev)
    BY <1>4 DEF memory_update
  <2> QED
    BY <1>0, <2>1 DEF Calls, Assigns, UsesOnlyHeld, Unfreed, SameHeld
<1>5. ASSUME net_update PROVE UsesOnlyHeld' /\ SameHeld
  <2>1. is_setup["network"] => "network.iface" \in held
    BY <1>0 DEF CInv, NetworkInv
  <2> QED
    BY <1>0, <1>5, <2>1 DEF net_update, Calls, Assigns, UsesOnlyHeld, Unfreed, SameHeld, buf
<1>6. ASSUME nprocs_update PROVE UsesOnlyHeld' /\ SameHeld
  BY <1>6 DEF nprocs_update, Calls, Assigns, UsesOnlyHeld, Unfreed, SameHeld
<1>7. ASSUME volume_update PROVE UsesOnlyHeld' /\ SameHeld
  <2>1. is_setup["volume"] => "mixer_fd" \in held
    BY <1>0 DEF CInv, VolumeInv
  <2> QED
    BY <1>7, <2>1 DEF volume_update, Calls, Assigns, UsesOnlyHeld, Unfreed, SameHeld, mixer_fd
<1>8. ASSUME wifi_update PROVE UsesOnlyHeld' /\ SameHeld
  <2>1. is_setup["wifi"] => "wifi.iface" \in held /\ "wifi_socket" \in held
    BY <1>0 DEF CInv, WifiInv
  <2> QED
    BY <1>8, <2>1 DEF wifi_update, Calls, Assigns, UsesOnlyHeld, Unfreed, SameHeld, iface, wifi_socket
<1> QED
  BY <1>1, <1>2, <1>3, <1>4, <1>5, <1>6, <1>7, <1>8 DEF update

\* What the close function of a collector gives back.
Given(c) ==
  IF c = "cpus" THEN {"cpus"}
  ELSE IF ~is_setup[c] THEN {}
  ELSE IF c = "battery" THEN {"apm_dev_fd"}
  ELSE IF c = "brightness" THEN {"x", "rec_reply", "query_reply"}
  ELSE IF c = "network" THEN {"network.iface"}
  ELSE IF c = "volume" THEN {"mixer_fd"}
  ELSE IF c = "wifi" THEN {"wifi.iface", "wifi_socket"}
  ELSE {}

\* It is held.
LEMMA Closes ==
  ASSUME UsesOnlyHeld, CInv, phase = "stats_close", turn \in 1..8, close(Order[turn])
  PROVE  UsesOnlyHeld' /\ held' = held \ Given(Order[turn])
<1>0. ~Before(turn) /\ ~After(turn)
  BY DEF Before, After
<1>1. CASE turn = 1
  BY <1>0, <1>1, OrderIs DEF close, battery_close, Calls, Assigns, UsesOnlyHeld, Unfreed, Given, apm_dev_fd, CInv, BatteryInv
<1>2. CASE turn = 2
  BY <1>0, <1>2, OrderIs DEF close, brightness_close, Calls, Assigns, UsesOnlyHeld, Unfreed, Given, CInv, BrightnessInv
<1>3. CASE turn = 3
  BY <1>0, <1>3, OrderIs DEF close, cpu_close, Calls, Assigns, UsesOnlyHeld, Unfreed, Given, CInv, CpuInv
<1>4. CASE turn = 4
  BY <1>0, <1>4, OrderIs DEF close, memory_close, Calls, Assigns, UsesOnlyHeld, Unfreed, Given
<1>5. CASE turn = 5
  BY <1>0, <1>5, OrderIs DEF close, net_close, Calls, Assigns, UsesOnlyHeld, Unfreed, Given, CInv, NetworkInv
<1>6. CASE turn = 6
  BY <1>0, <1>6, OrderIs DEF close, nprocs_close, Calls, Assigns, UsesOnlyHeld, Unfreed, Given
<1>7. CASE turn = 7
  BY <1>0, <1>7, OrderIs DEF close, volume_close, Calls, Assigns, UsesOnlyHeld, Unfreed, Given, mixer_fd, CInv, VolumeInv
<1>8. CASE turn = 8
  BY <1>0, <1>8, OrderIs
     DEF close, wifi_close, Calls, Assigns, UsesOnlyHeld, Unfreed, Given, iface, wifi_socket, CInv, WifiInv
<1> QED
  BY <1>1, <1>2, <1>3, <1>4, <1>5, <1>6, <1>7, <1>8

-----------------------------------------------------------------------------
(* Every step keeps the invariant.                                          *)

\* The gui is where it was.
LEMMA GuiSame ==
  ASSUME GInv, UNCHANGED xcore, \A r \in GSide : r \in held' <=> r \in held
  PROVE  GInv'
<1>1. /\ UNCHANGED <<at, measuring, colormaps>>
      /\ \A r \in {"xdisp", "con", "xfont", "pfont", "xwin", "window", "surface", "cairo",
                   "measure xdisp", "measure con", "measure xwin", "measure window",
                   "measure surface", "measure cairo", "group"} : r \in held' <=> r \in held
  BY DEF xcore, GSide, GRest, GMeasure
<1> QED
  BY <1>1 DEF GInv, HasDisplay, HasFont, HasWindow, HasDisplayToMeasure, HasWindowToMeasure

\* Events and errors do not matter to the two sides and to what the threads found.
LEMMA SidesSame ==
  ASSUME SameHeld
  PROVE  \A r \in CSide \cup GSide : r \in held' <=> r \in held
BY SidesFreed DEF SameHeld

LEMMA HeldTyped ==
  ASSUME HeldType, SameHeld
  PROVE  HeldType'
BY DEF HeldType, SameHeld

LEMMA BaseSame ==
  ASSUME BInv, phase' = phase, base' = base, \A r \in CSide : r \in held' <=> r \in held
  PROVE  BInv'
BY DEF BInv

\* The types of what a call of a collector changes.
LEMMA Moves ==
  ASSUME PTypeOK, turn \in 1..8
  PROVE  NextTurn(0) \in 0..8 /\ NextTurn(1) \in 1..8
BY OrderIs DEF NextTurn

\* What a call does not touch of a collector, it keeps, however far main() comes by it.
Passed(n) == (Before(n)' => Before(n)) /\ (After(n)' <=> After(n))

LEMMA BatteryKept ==
  ASSUME BatteryInv, Passed(1), is_setup'["battery"] = is_setup["battery"],
         "apm_dev_fd" \in held' <=> "apm_dev_fd" \in held
  PROVE  BatteryInv'
BY DEF BatteryInv, Passed

LEMMA BrightnessKept ==
  ASSUME BrightnessInv, Passed(2), is_setup'["brightness"] = is_setup["brightness"],
         \A r \in {"x", "rec_reply", "prop_reply", "query_reply"} : r \in held' <=> r \in held
  PROVE  BrightnessInv'
BY DEF BrightnessInv, Passed

LEMMA CpuKept ==
  ASSUME CpuInv, Before(3)' <=> Before(3), After(3)' <=> After(3), "cpus" \in held' <=> "cpus" \in held
  PROVE  CpuInv'
BY DEF CpuInv

LEMMA NetworkKept ==
  ASSUME NetworkInv, Passed(5), is_setup'["network"] = is_setup["network"],
         "network.iface" \in held' <=> "network.iface" \in held
  PROVE  NetworkInv'
BY DEF NetworkInv, Passed

LEMMA VolumeKept ==
  ASSUME VolumeInv, Passed(7), is_setup'["volume"] = is_setup["volume"],
         "mixer_fd" \in held' <=> "mixer_fd" \in held
  PROVE  VolumeInv'
BY DEF VolumeInv, Passed

LEMMA WifiKept ==
  ASSUME WifiInv, Passed(8), is_setup'["wifi"] = is_setup["wifi"],
         \A r \in {"wifi.iface", "wifi_socket"} : r \in held' <=> r \in held
  PROVE  WifiInv'
BY DEF WifiInv, Passed

\* An init function: the collectors before and after it keep what they have.
LEMMA StatsInitHeld ==
  ASSUME PTypeOK, UsesOnlyHeld, HeldType, CInv, FInv, stats_init
  PROVE  /\ UsesOnlyHeld' /\ HeldType' /\ CInv'
         /\ is_setup' \in [CollectorNames -> BOOLEAN]
         /\ \A r \in GSide : r \in held' <=> r \in held
<1> DEFINE Others(c) == \A d \in CollectorNames : d # c => is_setup'[d] = is_setup[d]
<1>0. phase = "stats_init" /\ turn \in 1..8 /\ init(Order[turn])
  BY OrderIs DEF PTypeOK, FInv, stats_init
<1>1. /\ \A m \in 1..8 : Passed(m)
      /\ \A m \in 1..8 : m # turn => (Before(m)' <=> Before(m)) /\ (After(m)' <=> After(m))
      /\ \A m \in 1..8 : m = turn => Before(m) /\ ~Before(m)' /\ ~After(m)'
  BY <1>0, OrderIs DEF stats_init, NextTurn, Before, After, Passed
<1>2. CASE turn = 1
  <2>1. battery_init
    BY <1>0, <1>2, OrderIs DEF init
  <2>2. /\ UsesOnlyHeld'
        /\ \A r : r # "apm_dev_fd" => (r \in held' <=> r \in held)
        /\ \E ok \in BOOLEAN : SetUp("battery", ok) /\ (ok => "apm_dev_fd" \in held')
    BY <1>1, <1>2, <2>1, InitBattery DEF CInv
  <2>3. /\ is_setup' \in [CollectorNames -> BOOLEAN] /\ Others("battery")
        /\ is_setup'["battery"] => "apm_dev_fd" \in held'
    BY <2>2, OneFlag, Names
  <2>4. HeldType'
    BY <2>2 DEF HeldType, CSide, GSide, Unfreed
  <2>5. BatteryInv'
    BY <1>1, <1>2, <2>2, <2>3, Names DEF BatteryInv
  <2>6. BrightnessInv' /\ CpuInv' /\ NetworkInv'
        /\ VolumeInv' /\ WifiInv'
    BY <1>1, <1>2, <2>2, <2>3, Names, BrightnessKept, CpuKept, NetworkKept, VolumeKept, WifiKept DEF CInv
  <2> QED
    BY <2>2, <2>3, <2>4, <2>5, <2>6 DEF CInv, GSide, GRest, GMeasure
<1>3. CASE turn = 2
  <2>1. brightness_init
    BY <1>0, <1>3, OrderIs DEF init
  <2>2. /\ UsesOnlyHeld'
        /\ \A r : r \notin {"x", "rec_reply", "prop_reply", "query_reply"} \cup Unfreed =>
             (r \in held' <=> r \in held)
        /\ \E ok \in BOOLEAN :
             /\ SetUp("brightness", ok)
             /\ ok => {"x", "rec_reply", "query_reply"} \subseteq held' /\ "prop_reply" \notin held'
             /\ ~ok => "query_reply" \notin held'
    BY <1>1, <1>3, <2>1, InitBrightness DEF CInv
  <2>3. /\ is_setup' \in [CollectorNames -> BOOLEAN] /\ Others("brightness")
        /\ is_setup'["brightness"] =>
             {"x", "rec_reply", "query_reply"} \subseteq held' /\ "prop_reply" \notin held'
        /\ ~is_setup'["brightness"] => "query_reply" \notin held'
    BY <2>2, OneFlag, Names
  <2>4. HeldType'
    BY <2>2 DEF HeldType, CSide, GSide, Unfreed
  <2>5. BrightnessInv'
    BY <1>1, <1>3, <2>2, <2>3, Names DEF BrightnessInv
  <2>6. BatteryInv' /\ CpuInv' /\ NetworkInv'
        /\ VolumeInv' /\ WifiInv'
    BY <1>1, <1>3, <2>2, <2>3, Names, BatteryKept, CpuKept, NetworkKept, VolumeKept, WifiKept
    DEF CInv, Unfreed
  <2> QED
    BY <2>2, <2>3, <2>4, <2>5, <2>6 DEF CInv, GSide, GRest, GMeasure, Unfreed
<1>4. CASE turn = 3
  <2>1. cpu_init
    BY <1>0, <1>4, OrderIs DEF init
  <2>2. /\ UsesOnlyHeld'
        /\ \A r : r # "cpus" => (r \in held' <=> r \in held)
        /\ "cpus" \in held' /\ \E ok \in BOOLEAN : SetUp("cpus", ok)
    BY <1>1, <1>4, <2>1, InitCpu DEF CInv
  <2>3. is_setup' \in [CollectorNames -> BOOLEAN] /\ Others("cpus")
    BY <2>2, OneFlag, Names
  <2>4. HeldType'
    BY <2>2 DEF HeldType, CSide, GSide, Unfreed
  <2>5. CpuInv'
    BY <1>1, <1>4, <2>2, <2>3, Names DEF CpuInv
  <2>6. BatteryInv' /\ BrightnessInv' /\ NetworkInv'
        /\ VolumeInv' /\ WifiInv'
    BY <1>1, <1>4, <2>2, <2>3, Names, BatteryKept, BrightnessKept, NetworkKept, VolumeKept, WifiKept DEF CInv
  <2> QED
    BY <2>2, <2>3, <2>4, <2>5, <2>6 DEF CInv, GSide, GRest, GMeasure
<1>5. CASE turn \in {4, 6}
  <2>1. \E c \in {"memory", "nprocs"} : Calls({}, {}, {}) /\ SetUp(c, TRUE)
    BY <1>0, <1>5, OrderIs DEF init, memory_init, nprocs_init
  <2>2. UsesOnlyHeld' /\ SameHeld
    BY <2>1 DEF Calls, Assigns, UsesOnlyHeld, Unfreed, SameHeld
  <2>3. /\ is_setup' \in [CollectorNames -> BOOLEAN]
        /\ \A d \in CollectorNames : d \notin {"memory", "nprocs"} => is_setup'[d] = is_setup[d]
    BY <2>1, OneFlag, Names
  <2>4. HeldType'
    BY <2>2 DEF HeldType, CSide, GSide, SameHeld
  <2>6. BatteryInv' /\ BrightnessInv' /\ CpuInv'
        /\ NetworkInv' /\ VolumeInv' /\ WifiInv'
    BY <1>1, <1>5, <2>2, <2>3, Names, BatteryKept, BrightnessKept, CpuKept, NetworkKept, VolumeKept, WifiKept
    DEF CInv, SameHeld, Unfreed
  <2> QED
    BY <2>2, <2>3, <2>4, <2>6 DEF CInv, GSide, GRest, GMeasure, SameHeld, Unfreed
<1>6. CASE turn = 5
  <2>1. net_init
    BY <1>0, <1>6, OrderIs DEF init
  <2>2. /\ UsesOnlyHeld'
        /\ \A r : r # "network.iface" => (r \in held' <=> r \in held)
        /\ \E ok \in BOOLEAN : SetUp("network", ok) /\ ("network.iface" \in held' <=> ok)
    BY <1>1, <1>6, <2>1, InitNetwork DEF CInv
  <2>3. /\ is_setup' \in [CollectorNames -> BOOLEAN] /\ Others("network")
        /\ "network.iface" \in held' <=> is_setup'["network"]
    BY <2>2, OneFlag, Names
  <2>4. HeldType'
    BY <2>2 DEF HeldType, CSide, GSide, Unfreed
  <2>5. NetworkInv'
    BY <1>1, <1>6, <2>2, <2>3, Names DEF NetworkInv
  <2>6. BatteryInv' /\ BrightnessInv' /\ CpuInv'
        /\ VolumeInv' /\ WifiInv'
    BY <1>1, <1>6, <2>2, <2>3, Names, BatteryKept, BrightnessKept, CpuKept, VolumeKept, WifiKept DEF CInv
  <2> QED
    BY <2>2, <2>3, <2>4, <2>5, <2>6 DEF CInv, GSide, GRest, GMeasure
<1>7. CASE turn = 7
  <2>1. volume_init
    BY <1>0, <1>7, OrderIs DEF init
  <2>2. /\ UsesOnlyHeld'
        /\ \A r : r # "mixer_fd" => (r \in held' <=> r \in held)
        /\ \E ok \in BOOLEAN : SetUp("volume", ok) /\ ("mixer_fd" \in held' <=> ok)
    BY <1>1, <1>7, <2>1, InitVolume DEF CInv
  <2>3. /\ is_setup' \in [CollectorNames -> BOOLEAN] /\ Others("volume")
        /\ "mixer_fd" \in held' <=> is_setup'["volume"]
    BY <2>2, OneFlag, Names
  <2>4. HeldType'
    BY <2>2 DEF HeldType, CSide, GSide, Unfreed
  <2>5. VolumeInv'
    BY <1>1, <1>7, <2>2, <2>3, Names DEF VolumeInv
  <2>6. BatteryInv' /\ BrightnessInv' /\ CpuInv'
        /\ NetworkInv' /\ WifiInv'
    BY <1>1, <1>7, <2>2, <2>3, Names, BatteryKept, BrightnessKept, CpuKept, NetworkKept, WifiKept DEF CInv
  <2> QED
    BY <2>2, <2>3, <2>4, <2>5, <2>6 DEF CInv, GSide, GRest, GMeasure
<1>8. CASE turn = 8
  <2>1. wifi_init
    BY <1>0, <1>8, OrderIs DEF init
  <2>2. /\ UsesOnlyHeld'
        /\ \A r : r \notin {"wifi.iface", "wifi_socket"} => (r \in held' <=> r \in held)
        /\ \E ok \in BOOLEAN : /\ SetUp("wifi", ok)
                               /\ "wifi.iface" \in held' <=> ok
                               /\ ok => "wifi_socket" \in held'
    BY <1>1, <1>8, <2>1, InitWifi DEF CInv
  <2>3. /\ is_setup' \in [CollectorNames -> BOOLEAN] /\ Others("wifi")
        /\ "wifi.iface" \in held' <=> is_setup'["wifi"]
        /\ is_setup'["wifi"] => "wifi_socket" \in held'
    BY <2>2, OneFlag, Names
  <2>4. HeldType'
    BY <2>2 DEF HeldType, CSide, GSide, Unfreed
  <2>5. WifiInv'
    BY <1>1, <1>8, <2>2, <2>3, Names DEF WifiInv
  <2>6. BatteryInv' /\ BrightnessInv' /\ CpuInv'
        /\ NetworkInv' /\ VolumeInv'
    BY <1>1, <1>8, <2>2, <2>3, Names, BatteryKept, BrightnessKept, CpuKept, NetworkKept, VolumeKept DEF CInv
  <2> QED
    BY <2>2, <2>3, <2>4, <2>5, <2>6 DEF CInv, GSide, GRest, GMeasure
<1> QED
  BY <1>0, <1>2, <1>3, <1>4, <1>5, <1>6, <1>7, <1>8

\* A function of the gui: it finds what it needs, and leaves what the next one needs.
GuiKeeps == UsesOnlyHeld' /\ HeldType' /\ GInv' /\ \A r \in CSide : r \in held' <=> r \in held

LEMMA GuiCalls ==
  ASSUME PTypeOK, UsesOnlyHeld, HeldType, GInv, FInv, NEW reload_ \in BOOLEAN,
         \/ xdisp_init \/ xfont_init \/ xwin_init \/ measure \/ xwin_free
         \/ xfont_free(reload_) \/ xdisp_free \/ xwin_push \/ xwin_pop,
         at = "xdisp_free" => measuring \/ phase = "cleanup"
  PROVE  GuiKeeps
<1>0. /\ measuring \in BOOLEAN /\ colormaps \in [Connections -> Nat]
      /\ "layout" \notin held /\ "xatom_reply" \notin held
  BY NotKept DEF PTypeOK
<1>1. CASE xdisp_init
  <2>1. UsesOnlyHeld' /\ HeldType' /\ \A r \in CSide : r \in held' <=> r \in held
    BY <1>0, <1>1
    DEF xdisp_init, Calls, Assigns, UsesOnlyHeld, Unfreed, HeldType, CSide, GSide, GRest, GMeasure,
        Display, This,
        GInv, HasDisplay, HasFont, HasWindow, HasDisplayToMeasure, HasWindowToMeasure
  <2>2. GInv'
    BY <1>0, <1>1
    DEF xdisp_init, Calls, Assigns, Display, This,
        GInv, HasDisplay, HasFont, HasWindow, HasDisplayToMeasure, HasWindowToMeasure
  <2> QED
    BY <2>1, <2>2 DEF GuiKeeps
<1>2. CASE xfont_init
  <2>1. UsesOnlyHeld' /\ HeldType' /\ \A r \in CSide : r \in held' <=> r \in held
    BY <1>0, <1>2
    DEF xfont_init, Calls, Assigns, UsesOnlyHeld, Unfreed, HeldType, CSide, GSide, GRest, GMeasure,
        Font,
        GInv, HasDisplay, HasFont, HasWindow, HasDisplayToMeasure, HasWindowToMeasure
  <2>2. ~measuring
    BY <1>0, <1>2 DEF xfont_init, GInv
  <2>3. ASSUME at' = "xwin_init", ~measuring' PROVE GInv'
    BY <1>2, <2>2, <2>3
    DEF xfont_init, Calls, Assigns, Font,
        GInv, HasDisplay, HasFont, HasWindow, HasDisplayToMeasure, HasWindowToMeasure
  <2>4. ASSUME at' = "xdisp_init", measuring' PROVE GInv'
    BY <1>2, <2>2, <2>4
    DEF xfont_init, Calls, Assigns, Font,
        GInv, HasDisplay, HasFont, HasWindow, HasDisplayToMeasure, HasWindowToMeasure
  <2>5. GInv'
    BY <1>2, <2>2, <2>3, <2>4 DEF xfont_init
  <2> QED
    BY <2>1, <2>5 DEF GuiKeeps
<1>3. CASE xwin_init
  <2>1. UsesOnlyHeld' /\ HeldType' /\ \A r \in CSide : r \in held' <=> r \in held
    BY <1>0, <1>3
    DEF xwin_init, Calls, Assigns, UsesOnlyHeld, Unfreed, HeldType, CSide, GSide, GRest, GMeasure,
        Con, Window, This, Connections,
        GInv, HasDisplay, HasFont, HasWindow, HasDisplayToMeasure, HasWindowToMeasure
  <2>2. GInv'
    BY <1>0, <1>3
    DEF xwin_init, Calls, Assigns, Con, Window, This, Connections,
        GInv, HasDisplay, HasFont, HasWindow, HasDisplayToMeasure, HasWindowToMeasure
  <2> QED
    BY <2>1, <2>2 DEF GuiKeeps
<1>4. CASE measure
  <2>1. UsesOnlyHeld' /\ HeldType' /\ \A r \in CSide : r \in held' <=> r \in held
    BY <1>0, <1>4
    DEF measure, Calls, Assigns, UsesOnlyHeld, Unfreed, HeldType, CSide, GSide, GRest, GMeasure,
        Cairo, Font, Layout, This,
        GInv, HasDisplay, HasFont, HasWindow, HasDisplayToMeasure, HasWindowToMeasure
  <2>2. GInv'
    BY <1>0, <1>4
    DEF measure, Calls, Assigns, Cairo, Font, Layout, This,
        GInv, HasDisplay, HasFont, HasWindow, HasDisplayToMeasure, HasWindowToMeasure
  <2> QED
    BY <2>1, <2>2 DEF GuiKeeps
<1>5. CASE xwin_free
  <2>1. UsesOnlyHeld' /\ HeldType' /\ \A r \in CSide : r \in held' <=> r \in held
    BY <1>0, <1>5
    DEF xwin_free, Calls, Assigns, UsesOnlyHeld, Unfreed, HeldType, CSide, GSide, GRest, GMeasure,
        Con, Window, This,
        GInv, HasDisplay, HasFont, HasWindow, HasDisplayToMeasure, HasWindowToMeasure
  <2>2. GInv'
    BY <1>0, <1>5
    DEF xwin_free, Calls, Assigns, Con, Window, This,
        GInv, HasDisplay, HasFont, HasWindow, HasDisplayToMeasure, HasWindowToMeasure
  <2> QED
    BY <2>1, <2>2 DEF GuiKeeps
<1>6. CASE xfont_free(reload_)
  <2>1. UsesOnlyHeld' /\ HeldType' /\ \A r \in CSide : r \in held' <=> r \in held
    BY <1>0, <1>6
    DEF xfont_free, Calls, Assigns, UsesOnlyHeld, Unfreed, HeldType, CSide, GSide, GRest, GMeasure,
        Font,
        GInv, HasDisplay, HasFont, HasWindow, HasDisplayToMeasure, HasWindowToMeasure
  <2>2. GInv'
    BY <1>0, <1>6
    DEF xfont_free, Calls, Assigns, Font,
        GInv, HasDisplay, HasFont, HasWindow, HasDisplayToMeasure, HasWindowToMeasure
  <2> QED
    BY <2>1, <2>2 DEF GuiKeeps
<1>7. CASE xdisp_free
  <2>1. UsesOnlyHeld' /\ HeldType' /\ \A r \in CSide : r \in held' <=> r \in held
    BY <1>0, <1>7
    DEF xdisp_free, Calls, Assigns, UsesOnlyHeld, Unfreed, HeldType, CSide, GSide, GRest, GMeasure,
        Display, Served, This, Connections,
        GInv, HasDisplay, HasFont, HasWindow, HasDisplayToMeasure, HasWindowToMeasure
  <2>2. GInv'
    BY <1>0, <1>7
    DEF xdisp_free, Calls, Assigns, Display, Served, This, Connections,
        GInv, HasDisplay, HasFont, HasWindow, HasDisplayToMeasure, HasWindowToMeasure
  <2> QED
    BY <2>1, <2>2 DEF GuiKeeps
<1>8. CASE xwin_push
  <2>1. UsesOnlyHeld' /\ HeldType' /\ \A r \in CSide : r \in held' <=> r \in held
    BY <1>0, <1>8
    DEF xwin_push, Calls, Assigns, UsesOnlyHeld, Unfreed, HeldType, CSide, GSide, GRest, GMeasure,
        Cairo, Group, This,
        GInv, HasDisplay, HasFont, HasWindow, HasDisplayToMeasure, HasWindowToMeasure
  <2>2. GInv'
    BY <1>0, <1>8
    DEF xwin_push, Calls, Assigns, Cairo, Group, This,
        GInv, HasDisplay, HasFont, HasWindow, HasDisplayToMeasure, HasWindowToMeasure
  <2> QED
    BY <2>1, <2>2 DEF GuiKeeps
<1>9. CASE xwin_pop
  <2>1. ~measuring
    BY <1>0, <1>9 DEF xwin_pop, GInv
  <2>2. "cairo" \in held /\ "con" \in held /\ "group" \in held
    BY <1>9, <2>1 DEF xwin_pop, GInv, HasDisplay, HasWindow
  <2>3. Cairo(This) \cup Con(This) = {"cairo", "con"}
    BY <2>1 DEF Cairo, Con, This
  <2>4. UsesOnlyHeld' /\ held' = held \ {"group"}
    BY <1>9, <2>2, <2>3 DEF xwin_pop, Calls, Assigns, UsesOnlyHeld, Unfreed, Group
  <2>5. HeldType' /\ \A r \in CSide : r \in held' <=> r \in held
    BY <2>4 DEF HeldType, CSide
  <2>6. GInv'
    BY <1>9, <2>1, <2>4
    DEF xwin_pop,
        GInv, HasDisplay, HasFont, HasWindow, HasDisplayToMeasure, HasWindowToMeasure
  <2> QED
    BY <2>4, <2>5, <2>6 DEF GuiKeeps
<1> QED
  BY <1>1, <1>2, <1>3, <1>4, <1>5, <1>6, <1>7, <1>8, <1>9

-----------------------------------------------------------------------------
(* Every step keeps the invariant.                                          *)

LEMMA CollectorsKept ==
  ASSUME CInv, is_setup' = is_setup, \A r \in CSide : r \in held' <=> r \in held,
         \A n \in 1..8 : (Before(n)' <=> Before(n)) /\ (After(n)' <=> After(n))
  PROVE  CInv'
<1>1. \A r \in {"apm_dev_fd", "x", "rec_reply", "prop_reply", "query_reply", "cpus", "network.iface",
                "mixer_fd", "wifi.iface", "wifi_socket"} : r \in held' <=> r \in held
  BY DEF CSide
<1>2. BatteryInv' /\ BrightnessInv'
  BY <1>1, BatteryKept, BrightnessKept DEF CInv, Passed
<1>3. CpuInv' /\ NetworkInv'
  BY <1>1, CpuKept, NetworkKept DEF CInv, Passed
<1>4. VolumeInv' /\ WifiInv'
  BY <1>1, VolumeKept, WifiKept DEF CInv, Passed
<1> QED
  BY <1>2, <1>3, <1>4 DEF CInv

LEMMA InitKept == Init => IInv
<1> SUFFICES ASSUME Init PROVE IInv
  OBVIOUS
<1>1. /\ held = {} /\ misused = {} /\ lost = {} /\ phase = "stats_init" /\ turn = 1
      /\ at = "xdisp_init" /\ measuring = FALSE /\ colormaps = [con \in Connections |-> 0]
      /\ is_setup = [c \in CollectorNames |-> FALSE]
  BY DEF Init, CollectorsInit, XcoreInit
<1>2. PTypeOK
  <2>1. is_setup \in [CollectorNames -> BOOLEAN] /\ colormaps \in [Connections -> Nat]
    BY <1>1
  <2>2. measuring \in BOOLEAN
    BY <1>1
  <2>3. phase \in {"stats_init", "first_update", "setup", "running", "cleanup", "stats_close", "done",
                   "exited"} /\ at \in MayFail /\ turn \in 0..Len(Order)
    BY <1>1, OrderIs DEF MayFail
  <2> QED
    BY <2>1, <2>2, <2>3 DEF PTypeOK
<1>3. CInv
  BY <1>1, Names
  DEF CInv, BatteryInv, BrightnessInv, CpuInv, NetworkInv, VolumeInv, WifiInv, Before, After
<1>4. GInv
  BY <1>1
  DEF GInv, HasDisplay, HasFont, HasWindow, HasDisplayToMeasure, HasWindowToMeasure, Connections
<1> QED
  BY <1>1, <1>2, <1>3, <1>4 DEF IInv, UsesOnlyHeld, HeldType, FInv, BInv

LEMMA StatsInitKept ==
  ASSUME IInv, stats_init
  PROVE  IInv'
<1>1. /\ UsesOnlyHeld' /\ HeldType' /\ CInv'
      /\ is_setup' \in [CollectorNames -> BOOLEAN]
      /\ \A r \in GSide : r \in held' <=> r \in held
  BY StatsInitHeld DEF IInv, stats_init
<1>2. phase = "stats_init" /\ turn \in 1..8 /\ UNCHANGED xcore /\ GInv /\ PTypeOK /\ FInv
  BY OrderIs DEF IInv, PTypeOK, FInv, stats_init
<1>3. turn' \in 1..8 /\ phase' \in {"stats_init", "first_update"}
  BY <1>2, Moves, OrderIs DEF stats_init
<1>4. GInv'
  BY <1>1, <1>2, GuiSame
<1>5. PTypeOK'
  BY <1>1, <1>2, <1>3, OrderIs DEF PTypeOK, xcore
<1>6. FInv' /\ BInv'
  BY <1>2, <1>3 DEF FInv, BInv, xcore
<1> QED
  BY <1>1, <1>4, <1>5, <1>6 DEF IInv, UsesOnlyHeld

LEMMA FirstUpdateKept ==
  ASSUME IInv, first_update
  PROVE  IInv'
<1>1. phase = "first_update" /\ turn \in 1..8 /\ update(Order[turn]) /\ UNCHANGED xcore
  BY OrderIs DEF IInv, PTypeOK, FInv, first_update
<1>2. UsesOnlyHeld' /\ SameHeld /\ is_setup' = is_setup
  BY <1>1, Updates DEF IInv, update, collectors
<1>3. /\ turn' \in 0..8 /\ phase' \in {"first_update", "setup"}
      /\ phase' = "first_update" => turn' # 0
      /\ phase' = "setup" => turn' = 0
  BY <1>1, OrderIs DEF first_update, NextTurn
<1>4. CInv'
  BY <1>1, <1>2, <1>3, SidesSame, CollectorsKept DEF IInv, Before, After
<1>5. GInv' /\ HeldType'
  BY <1>1, <1>2, SidesSame, HeldTyped, GuiSame DEF IInv
<1>6. PTypeOK'
  BY <1>1, <1>2, <1>3, OrderIs DEF IInv, PTypeOK, xcore
<1>7. FInv' /\ BInv'
  BY <1>1, <1>3 DEF IInv, FInv, BInv, xcore
<1> QED
  BY <1>2, <1>4, <1>5, <1>6, <1>7 DEF IInv, UsesOnlyHeld

\* The types of what the functions of the gui change.
LEMMA GuiTyped ==
  ASSUME PTypeOK,
         \/ xdisp_init
         \/ xfont_init
         \/ xwin_init
         \/ measure
         \/ xwin_free
         \/ xfont_free(phase = "running")
         \/ xdisp_free
         \/ xwin_push
         \/ xwin_pop
  PROVE  /\ at' \in MayFail \cup {"layout", "xwin_free", "xfont_free", "xdisp_free", "xwin_pop",
                                 "rest", "closed"}
         /\ measuring' \in BOOLEAN
         /\ colormaps' \in [Connections -> Nat]
<1>1. /\ measuring \in BOOLEAN /\ colormaps \in [Connections -> Nat]
  BY DEF PTypeOK
<1>2. This \in Connections
  BY DEF This, Connections
<1>3. measuring' \in BOOLEAN
  BY <1>1 DEF xdisp_init, xfont_init, xwin_init, measure, xwin_free, xfont_free, xdisp_free, xwin_push, xwin_pop
<1>4. colormaps' \in [Connections -> Nat]
  BY <1>1, <1>2 DEF xdisp_init, xfont_init, xwin_init, measure, xwin_free, xfont_free, xdisp_free, xwin_push, xwin_pop
<1>5. at' \in MayFail \cup {"layout", "xwin_free", "xfont_free", "xdisp_free", "xwin_pop", "rest", "closed"}
  BY DEF xdisp_init, xfont_init, xwin_init, measure, xwin_free, xfont_free, xdisp_free, xwin_push, xwin_pop, MayFail
<1> QED
  BY <1>3, <1>4, <1>5

LEMMA GuiKept ==
  ASSUME IInv, Gui
  PROVE  IInv'
<1>0. /\ phase \in {"setup", "running", "cleanup"} /\ UNCHANGED <<collectors, phase, turn, base>>
      /\ PTypeOK /\ UsesOnlyHeld /\ HeldType /\ CInv /\ GInv /\ FInv /\ BInv
  BY DEF IInv, Gui
<1>1. \/ xdisp_init
      \/ xfont_init
      \/ xwin_init
      \/ measure
      \/ xwin_free
      \/ xfont_free(phase = "running")
      \/ xdisp_free
      \/ xwin_push
      \/ xwin_pop
  BY DEF Gui
<1>2. at = "xdisp_free" => measuring \/ phase = "cleanup"
  BY <1>0 DEF FInv
<1>3. GuiKeeps
  BY <1>0, <1>1, <1>2, GuiCalls
<1>4. CInv'
  BY <1>0, <1>3, CollectorsKept DEF GuiKeeps, Before, After, collectors
<1>5. PTypeOK'
  BY <1>0, <1>1, GuiTyped DEF PTypeOK, collectors
<1>6. BInv'
  BY <1>0, <1>3 DEF BInv, GuiKeeps
<1>7. FInv'
  <2>1. phase' \notin {"stats_init", "first_update", "stats_close", "done"}
    BY <1>0
  <2>2. phase' \in {"setup", "cleanup"} => turn' = 0
    BY <1>0 DEF FInv
  <2>3. CASE phase = "setup"
    <3>1. /\ at' \notin {"xfont_free", "closed"}
          /\ at' \in {"xwin_free", "xdisp_free"} => measuring'
      BY <1>0, <1>1, <2>3
      DEF FInv, GInv, xdisp_init, xfont_init, xwin_init, measure, xwin_free, xfont_free, xdisp_free,
          xwin_push, xwin_pop
    <3> QED
      BY <1>0, <2>2, <2>3, <3>1 DEF FInv
  <2>4. CASE phase = "running"
    <3>1. /\ at' # "closed"
          /\ at' \in {"xdisp_init", "xdisp_free"} => measuring'
      BY <1>0, <1>1, <2>4
      DEF FInv, GInv, xdisp_init, xfont_init, xwin_init, measure, xwin_free, xfont_free, xdisp_free,
          xwin_push, xwin_pop
    <3> QED
      BY <1>0, <2>4, <3>1 DEF FInv
  <2>5. CASE phase = "cleanup"
    <3>0. at \in {"xwin_free", "xfont_free", "xdisp_free", "closed"} /\ ~measuring
      BY <1>0, <2>5 DEF FInv
    <3>1. xwin_free \/ xfont_free(phase = "running") \/ xdisp_free
      BY <1>1, <3>0
      DEF xdisp_init, xfont_init, xwin_init, measure, xwin_push, xwin_pop
    <3>2. at' \in {"xfont_free", "xdisp_free", "closed"}
      BY <2>5, <3>0, <3>1 DEF xwin_free, xfont_free, xdisp_free
    <3>3. ~measuring'
      BY <3>0, <3>1 DEF xwin_free, xfont_free, xdisp_free
    <3> QED
      BY <1>0, <2>2, <2>5, <3>2, <3>3 DEF FInv
  <2> QED
    BY <1>0, <2>3, <2>4, <2>5
<1> QED
  BY <1>3, <1>4, <1>5, <1>6, <1>7 DEF IInv, UsesOnlyHeld, GuiKeeps

LEMMA PthreadCreateKept ==
  ASSUME IInv, pthread_create
  PROVE  IInv'
<1>1. /\ phase = "setup" /\ phase' = "running" /\ at = "rest" /\ base' = held
      /\ held' = held /\ misused' = misused /\ lost' = lost /\ is_setup' = is_setup
      /\ UNCHANGED xcore /\ turn' = turn
      /\ PTypeOK /\ UsesOnlyHeld /\ HeldType /\ CInv /\ GInv /\ FInv
  BY DEF IInv, pthread_create, resources, collectors
<1>2. PTypeOK'
  BY <1>1 DEF PTypeOK, xcore
<1>3. HeldType' /\ GInv'
  BY <1>1, GuiSame DEF HeldType
<1>4. CInv'
  BY <1>1, CollectorsKept DEF Before, After
<1>5. ~measuring
  BY <1>1 DEF GInv
<1>6. \A r \in GSide : r \in held <=> r \in GRest
  BY <1>1, <1>5
  DEF GSide, GRest, GMeasure, GInv, HasDisplay, HasFont, HasWindow, HasDisplayToMeasure,
      HasWindowToMeasure
<1>7. BInv'
  BY <1>1, <1>6 DEF BInv, HeldType
<1>8. FInv'
  BY <1>1, <1>5 DEF FInv, xcore
<1> QED
  BY <1>1, <1>2, <1>3, <1>4, <1>7, <1>8 DEF IInv, UsesOnlyHeld

\* An event is waited for: the connection is there, and only the event is new.
LEMMA EventKept ==
  ASSUME IInv, xcb_wait_for_event
  PROVE  IInv'
<1>1. /\ phase = "running" /\ phase' = "running" /\ base' = base /\ turn' = turn
      /\ is_setup' = is_setup /\ UNCHANGED xcore
      /\ PTypeOK /\ UsesOnlyHeld /\ HeldType /\ CInv /\ GInv /\ FInv /\ BInv
  BY DEF IInv, xcb_wait_for_event, collectors
<1>2. "xdisp" \in held /\ "con" \in held
  BY <1>1 DEF FInv, GInv, HasDisplay
<1>3. UsesOnlyHeld' /\ SameHeld
  BY <1>1, <1>2
  DEF xcb_wait_for_event, Calls, Assigns, Display, UsesOnlyHeld, Unfreed, SameHeld
<1>4. PTypeOK'
  BY <1>1 DEF PTypeOK, xcore
<1>5. HeldType' /\ BInv' /\ GInv'
  BY <1>1, <1>3, SidesSame, HeldTyped, BaseSame, GuiSame
<1>6. CInv'
  BY <1>1, <1>3, SidesSame, CollectorsKept DEF Before, After
<1>7. FInv'
  BY <1>1 DEF FInv, xcore
<1> QED
  BY <1>3, <1>4, <1>5, <1>6, <1>7 DEF IInv

\* A drawing or a reload begins: what is held at rest is what its first function needs.
LEMMA DrawReloadKept ==
  ASSUME IInv, draw \/ reload
  PROVE  IInv'
<1>1. /\ phase = "running" /\ phase' = "running" /\ base' = base /\ turn' = turn
      /\ held' = held /\ misused' = misused /\ lost' = lost /\ is_setup' = is_setup
      /\ at = "rest" /\ at' \in {"xwin_push", "xwin_free"}
      /\ measuring' = measuring /\ colormaps' = colormaps
      /\ PTypeOK /\ UsesOnlyHeld /\ HeldType /\ CInv /\ GInv /\ FInv /\ BInv
  BY DEF IInv, draw, reload, gui_draw, resources, collectors
<1>2. PTypeOK'
  BY <1>1 DEF PTypeOK, MayFail
<1>3. HeldType' /\ BInv'
  BY <1>1 DEF HeldType, BInv
<1>4. CInv'
  BY <1>1, CollectorsKept DEF Before, After
<1>5. ~measuring
  BY <1>1 DEF GInv
<1>6. GInv'
  BY <1>1, <1>5
  DEF GInv, HasDisplay, HasFont, HasWindow, HasDisplayToMeasure, HasWindowToMeasure
<1>7. FInv'
  BY <1>1, <1>5 DEF FInv
<1> QED
  BY <1>1, <1>2, <1>3, <1>4, <1>6, <1>7 DEF IInv, UsesOnlyHeld

LEMMA StatsUpdateKept ==
  ASSUME IInv, timer \/ stats_update
  PROVE  IInv'
<1>1. /\ phase = "running" /\ phase' = "running" /\ base' = base
      /\ UNCHANGED xcore /\ is_setup' = is_setup
      /\ PTypeOK /\ UsesOnlyHeld /\ HeldType /\ CInv /\ GInv /\ FInv /\ BInv
  BY DEF IInv, timer, stats_update, update, collectors
<1>2. UsesOnlyHeld' /\ SameHeld /\ turn' \in 0..8
  <2>1. CASE timer
    BY <1>1, <2>1 DEF timer, resources, UsesOnlyHeld, SameHeld
  <2>2. CASE stats_update
    <3>1. turn \in 1..8 /\ update(Order[turn])
      BY <1>1, <2>2, OrderIs DEF stats_update, PTypeOK
    <3> QED
      BY <1>1, <2>2, <3>1, Updates, Moves DEF stats_update
  <2> QED
    BY <2>1, <2>2
<1>3. PTypeOK'
  BY <1>1, <1>2, OrderIs DEF PTypeOK, xcore
<1>4. HeldType' /\ BInv' /\ GInv'
  BY <1>1, <1>2, SidesSame, HeldTyped, BaseSame, GuiSame
<1>5. CInv'
  BY <1>1, <1>2, SidesSame, CollectorsKept DEF Before, After
<1>6. FInv'
  BY <1>1 DEF FInv, xcore
<1> QED
  BY <1>2, <1>3, <1>4, <1>5, <1>6 DEF IInv, UsesOnlyHeld

LEMMA PthreadJoinKept ==
  ASSUME IInv, pthread_join
  PROVE  IInv'
<1>1. /\ phase = "running" /\ phase' = "cleanup" /\ turn = 0 /\ turn' = turn
      /\ held' = held /\ misused' = misused /\ lost' = lost /\ is_setup' = is_setup
      /\ at = "rest" /\ at' = "xwin_free" /\ measuring' = measuring /\ colormaps' = colormaps
      /\ PTypeOK /\ UsesOnlyHeld /\ HeldType /\ CInv /\ GInv /\ FInv
  BY DEF IInv, pthread_join, resources, collectors
<1>2. PTypeOK'
  BY <1>1 DEF PTypeOK
<1>3. CInv'
  BY <1>1, CollectorsKept DEF Before, After
<1>4. ~measuring
  BY <1>1 DEF GInv
<1>5. GInv'
  BY <1>1, <1>4
  DEF GInv, HasDisplay, HasFont, HasWindow, HasDisplayToMeasure, HasWindowToMeasure
<1>6. HeldType' /\ FInv' /\ BInv'
  BY <1>1, <1>4 DEF HeldType, FInv, BInv
<1> QED
  BY <1>1, <1>2, <1>3, <1>5, <1>6 DEF IInv, UsesOnlyHeld

LEMMA StatsCloseKept ==
  ASSUME IInv, stats_close
  PROVE  IInv'
<1>0. /\ UNCHANGED xcore /\ is_setup' = is_setup
      /\ PTypeOK /\ UsesOnlyHeld /\ phase # "exited"
      /\ HeldType /\ CInv /\ GInv /\ FInv
  BY DEF IInv, stats_close, close, collectors
<1>1. CASE phase = "cleanup"
  <2>1. /\ at = "closed" /\ turn' = 1 /\ phase' = "stats_close" /\ held' = held /\ misused' = misused /\ lost' = lost
    BY <1>1 DEF stats_close, resources
  <2>2. CInv'
    <3>1. \A n \in 1..8 : ~Before(n) /\ ~Before(n)' /\ ~After(n) /\ ~After(n)'
      BY <1>1, <2>1 DEF Before, After
    <3> QED
      BY <1>0, <2>1, <3>1, CollectorsKept
  <2>3. GInv' /\ HeldType'
    BY <1>0, <2>1, GuiSame DEF HeldType
  <2>4. PTypeOK'
    BY <1>0, <2>1, OrderIs DEF PTypeOK, xcore
  <2>5. FInv' /\ BInv'
    BY <1>0, <1>1, <2>1 DEF FInv, BInv, xcore
  <2> QED
    BY <1>0, <2>1, <2>2, <2>3, <2>4, <2>5 DEF IInv, UsesOnlyHeld
<1>2. CASE phase = "stats_close"
  <2>1. turn \in 1..8 /\ close(Order[turn])
    BY <1>0, <1>2, OrderIs DEF stats_close, PTypeOK, FInv
  <2>2. UsesOnlyHeld' /\ held' = held \ Given(Order[turn])
    BY <1>0, <1>2, <2>1, Closes
  <2>3. /\ turn < 8 => turn' = turn + 1 /\ phase' = "stats_close"
        /\ turn = 8 => turn' = 0 /\ phase' = "done"
    BY <1>2, <2>1, OrderIs DEF stats_close, NextTurn
  <2>4. /\ \A n \in 1..8 : ~Before(n) /\ ~Before(n)'
        /\ \A n \in 1..8 : After(n)' <=> After(n) \/ n = turn
        /\ ~After(turn)
    BY <1>2, <2>1, <2>3 DEF Before, After
  <2>5. BatteryInv'
    BY <1>0, <2>1, <2>2, <2>4, OrderIs DEF CInv, BatteryInv, Given
  <2>6. BrightnessInv'
    BY <1>0, <2>1, <2>2, <2>4, OrderIs DEF CInv, BrightnessInv, Given
  <2>7. CpuInv'
    BY <1>0, <2>1, <2>2, <2>4, OrderIs DEF CInv, CpuInv, Given
  <2>8. NetworkInv'
    BY <1>0, <2>1, <2>2, <2>4, OrderIs DEF CInv, NetworkInv, Given
  <2>9. VolumeInv'
    BY <1>0, <2>1, <2>2, <2>4, OrderIs DEF CInv, VolumeInv, Given
  <2>10. WifiInv'
    BY <1>0, <2>1, <2>2, <2>4, OrderIs DEF CInv, WifiInv, Given
  <2>11. HeldType'
    BY <1>0, <2>2 DEF HeldType
  <2>12. GInv'
    <3>1. \A r \in GSide : r \in held' <=> r \in held
      BY <2>2 DEF Given, GSide, GRest, GMeasure
    <3> QED
      BY <1>0, <3>1, GuiSame
  <2>13. PTypeOK'
    BY <1>0, <2>1, <2>3, OrderIs DEF PTypeOK, xcore
  <2>14. FInv' /\ BInv'
    BY <1>0, <1>2, <2>1, <2>3 DEF FInv, BInv, xcore
  <2> QED
    BY <2>2, <2>5, <2>6, <2>7, <2>8, <2>9, <2>10, <2>11, <2>12, <2>13, <2>14
    DEF IInv, UsesOnlyHeld, CInv
<1> QED
  BY <1>1, <1>2 DEF stats_close

LEMMA ExitKept ==
  ASSUME IInv, exit
  PROVE  IInv'
BY DEF IInv, exit, PTypeOK, UsesOnlyHeld, resources, collectors, xcore

LEMMA Stutter ==
  ASSUME IInv, UNCHANGED vars
  PROVE  IInv'
<1>1. /\ UNCHANGED <<held, misused, lost, is_setup, phase, turn, base>>
      /\ UNCHANGED <<at, measuring, colormaps>>
  BY DEF vars, resources, collectors, xcore
<1>2. PTypeOK' /\ UsesOnlyHeld'
  BY <1>1 DEF IInv, PTypeOK, UsesOnlyHeld
<1>3. ASSUME phase # "exited" PROVE HeldType' /\ CInv' /\ GInv' /\ FInv' /\ BInv'
  <2>1. CInv'
    BY <1>1, <1>3, CollectorsKept DEF IInv, Before, After
  <2>2. GInv'
    BY <1>1, <1>3, GuiSame DEF IInv, xcore
  <2> QED
    BY <1>1, <1>3, <2>1, <2>2 DEF IInv, HeldType, FInv, BInv
<1> QED
  BY <1>1, <1>2, <1>3 DEF IInv

-----------------------------------------------------------------------------
(* The theorems.                                                            *)

\* The invariant that the others follow from: but for events and errors, what is held is
\* known from how far main() is, which function of the gui is next, and which collectors
\* are set up.
THEOREM Invariance == Spec => []IInv
<1>1. Init => IInv
  BY InitKept
<1>2. IInv /\ [Next]_vars => IInv'
  <2> SUFFICES ASSUME IInv, [Next]_vars PROVE IInv'
    OBVIOUS
  <2>1. CASE stats_init
    BY <2>1, StatsInitKept
  <2>2. CASE first_update
    BY <2>2, FirstUpdateKept
  <2>3. CASE Gui
    BY <2>3, GuiKept
  <2>4. CASE pthread_create
    BY <2>4, PthreadCreateKept
  <2>5. CASE draw \/ reload
    BY <2>5, DrawReloadKept
  <2>6. CASE timer \/ stats_update
    BY <2>6, StatsUpdateKept
  <2>7. CASE pthread_join
    BY <2>7, PthreadJoinKept
  <2>8. CASE stats_close
    BY <2>8, StatsCloseKept
  <2>9. CASE exit
    BY <2>9, ExitKept
  <2>10. CASE xcb_wait_for_event
    BY <2>10, EventKept
  <2>11. CASE UNCHANGED vars
    BY <2>11, Stutter
  <2> QED
    BY <2>1, <2>2, <2>3, <2>4, <2>5, <2>6, <2>7, <2>8, <2>9, <2>10, <2>11 DEF Next
<1> QED
  BY <1>1, <1>2, PTL DEF Spec

\* Every variable keeps its type.
THEOREM TypeCorrect == Spec => []PTypeOK
<1>1. IInv => PTypeOK
  BY DEF IInv
<1> QED
  BY <1>1, Invariance, PTL

\* No collector and no function of the gui uses or gives back what is not held, whatever
\* the machine has, for any interleaving of the updates with drawings and reloads.  What
\* they lose are the events of thread_gui() and the errors about the backlight, no more.
THEOREM NothingMisused == Spec => []UsesOnlyHeld
<1>1. IInv => UsesOnlyHeld
  BY DEF IInv
<1> QED
  BY <1>1, Invariance, PTL

\* Between two drawings the process holds what it held at first, but for events, errors
\* and colormaps, after any number of reloads.
THEOREM Steady == Spec => []RunsSteady
<1>1. IInv => RunsSteady
  <2> SUFFICES ASSUME IInv, phase = "running", at = "rest" PROVE held \ Unfreed = base \ Unfreed
    BY DEF RunsSteady
  <2>1. HeldType /\ GInv /\ BInv
    BY DEF IInv
  <2>2. ~measuring
    BY <2>1 DEF GInv
  <2>3. \A r \in GSide : r \in held <=> r \in GRest
    BY <2>1, <2>2
    DEF GSide, GRest, GMeasure, GInv, HasDisplay, HasFont, HasWindow, HasDisplayToMeasure,
        HasWindowToMeasure
  <2>4. \A r \in CSide \cup GSide : r \in held <=> r \in base
    BY <2>1, <2>3 DEF BInv
  <2> QED
    BY <2>1, <2>4 DEF HeldType, BInv
<1> QED
  BY <1>1, Invariance, PTL

\* When main() returns, all of the gui is given back, but for the last event, and of the
\* collectors all but the last error and what the three Forgotten kept that were not set up.
THEOREM EverythingBack == Spec => []GivesBack
<1>1. IInv => GivesBack
  <2> SUFFICES ASSUME IInv, phase = "done"
               PROVE  /\ held \ Unfreed \subseteq
                            UNION {Forgotten[c] : c \in {d \in DOMAIN Forgotten : ~is_setup[d]}}
                      /\ \A con \in Connections : colormaps[con] = 0
    BY DEF GivesBack
  <2>1. HeldType /\ CInv /\ GInv /\ at = "closed" /\ ~measuring
    BY DEF IInv, FInv
  <2>2. \A n \in 1..8 : After(n) /\ ~Before(n)
    BY DEF After, Before
  <2>3. \A con \in Connections : colormaps[con] = 0
    BY <2>1 DEF GInv, HasDisplay, HasDisplayToMeasure, Connections
  <2>4. \A r \in GSide : r \notin held
    BY <2>1
    DEF GSide, GRest, GMeasure, GInv, HasDisplay, HasFont, HasWindow, HasDisplayToMeasure,
        HasWindowToMeasure
  <2>5. /\ "cpus" \notin held /\ "network.iface" \notin held /\ "mixer_fd" \notin held
        /\ "wifi.iface" \notin held /\ "query_reply" \notin held
        /\ "apm_dev_fd" \in held => ~is_setup["battery"]
        /\ \A r \in {"x", "rec_reply", "prop_reply"} : r \in held => ~is_setup["brightness"]
        /\ "wifi_socket" \in held => ~is_setup["wifi"]
    BY <2>1, <2>2
    DEF CInv, BatteryInv, BrightnessInv, CpuInv, NetworkInv, VolumeInv, WifiInv
  <2>6. ASSUME NEW r \in held \ Unfreed
        PROVE  \E c \in {"battery", "brightness", "wifi"} : ~is_setup[c] /\ r \in Forgotten[c]
    BY <2>1, <2>4, <2>5 DEF HeldType, CSide, Forgotten
  <2>7. DOMAIN Forgotten = {"battery", "brightness", "wifi"}
    BY DEF Forgotten
  <2> QED
    BY <2>3, <2>6, <2>7
<1> QED
  BY <1>1, Invariance, PTL

-----------------------------------------------------------------------------
(* Induction, and definitions by recursion.                                 *)

\* A set of numbers that has 0 and with each number the next has them all.
LEMMA Induction ==
  ASSUME NEW T, 0 \in T, \A n \in Nat : n \in T => n + 1 \in T
  PROVE  Nat \subseteq T
<1> DEFINE R == OpToRel(<, Nat)
<1> SUFFICES ASSUME Nat \ T # {} PROVE FALSE
  OBVIOUS
<1>1. PICK x \in Nat \ T : \A y \in Nat \ T : <<y, x>> \notin R
  <2>1. IsWellFoundedOn(R, Nat)
    BY NatLessThanWellFounded, Zenon
  <2>2. Nat \ T \subseteq Nat
    OBVIOUS
  <2> HIDE DEF R
  <2> QED
    BY <2>1, <2>2, WFMin, Zenon
<1>2. x - 1 \in Nat \ T
  <2>1. x # 0 /\ x - 1 \in Nat /\ (x - 1) + 1 = x
    OBVIOUS
  <2> QED
    BY <2>1
<1>3. <<x - 1, x>> \in R
  BY <1>2 DEF OpToRel
<1> QED
  BY <1>1, <1>2, <1>3

\* A rule of how to go on from first, N times, in V; and a function that goes by it.
Rule(N, V, first, step) == N \in Nat /\ first \in V /\ step \in [1..N -> [V -> V]]

GoesBy(f, N, V, first, step) ==
  /\ f \in [0..N -> V]
  /\ f[0] = first
  /\ \A n \in 1..N : f[n] = step[n][f[n - 1]]

\* For every rule there is a function that goes by it: a recursive definition defines
\* something.
LEMMA Recursion ==
  ASSUME NEW N, NEW V, NEW first, NEW step, Rule(N, V, first, step)
  PROVE  \E f : GoesBy(f, N, V, first, step)
<1> USE DEF Rule
<1> DEFINE Good(f, m) ==
             \A n \in 0..m : f[n] = IF n = 0 THEN first ELSE step[n][f[n - 1]]
           T == {m \in Nat : m <= N => \E f \in [0..m -> V] : Good(f, m)}
<1>1. 0 \in T
  <2>1. [n \in 0..0 |-> first] \in [0..0 -> V] /\ Good([n \in 0..0 |-> first], 0)
    OBVIOUS
  <2> QED
    BY <2>1
<1>2. ASSUME NEW m \in Nat, m \in T PROVE m + 1 \in T
  <2>1. ASSUME m + 1 <= N PROVE \E f \in [0..(m + 1) -> V] : Good(f, m + 1)
    <3>1. PICK f \in [0..m -> V] : Good(f, m)
      BY <1>2, <2>1
    <3> DEFINE g == [n \in 0..(m + 1) |-> IF n = m + 1 THEN step[m + 1][f[m]] ELSE f[n]]
    <3>2. m + 1 \in 1..N /\ f[m] \in V
      BY <2>1
    <3>3. step[m + 1][f[m]] \in V
      BY <3>2
    <3>4. g \in [0..(m + 1) -> V]
      BY <3>3
    <3>5. ASSUME NEW n \in 0..(m + 1)
          PROVE  g[n] = IF n = 0 THEN first ELSE step[n][g[n - 1]]
      <4>1. CASE n = m + 1
        <5>1. g[n - 1] = f[m] /\ n # 0
          BY <4>1
        <5> QED
          BY <4>1, <5>1
      <4>2. CASE n \in 0..m
        <5>1. g[n] = f[n] /\ (n # 0 => g[n - 1] = f[n - 1])
          BY <4>2
        <5>2. f[n] = IF n = 0 THEN first ELSE step[n][f[n - 1]]
          BY <3>1, <4>2
        <5> QED
          BY <5>1, <5>2
      <4> QED
        BY <4>1, <4>2
    <3> HIDE DEF g
    <3>6. Good(g, m + 1)
      BY <3>5
    <3> QED
      BY <3>4, <3>6
  <2> QED
    BY <2>1
<1>3. N \in T
  <2> HIDE DEF T
  <2> QED
    BY <1>1, <1>2, Induction
<1>4. PICK f \in [0..N -> V] : Good(f, N)
  BY <1>3
<1> QED
  BY <1>4 DEF GoesBy

-----------------------------------------------------------------------------
(* The outputs of the mixer.                                                *)

Found == [class : Nat \cup {-1}, master : Nat \cup {-1}, mute : Nat \cup {-1}]

\* What the n-th device adds to what was found among those before it.
Look(d, n, found) ==
  LET class == IF d.name = "outputs" THEN d.class ELSE found.class
  IN  [class  |-> class,
       master |-> IF d.name = "master" /\ d.class = class THEN n - 1 ELSE found.master,
       mute   |-> IF d.name = "mute" /\ d.class = class THEN n - 1 ELSE found.mute]

LEMMA Devices ==
  ASSUME NEW devs \in Mixers
  PROVE  /\ Len(devs) \in Nat
         /\ \A n \in 1..Len(devs) : devs[n].class \in Nat
         /\ \A j, k \in 1..Len(devs) : devs[j].name = "outputs" /\ devs[k].name = "outputs" => j = k
<1>1. devs \in Seq([name : STRING, class : Nat])
  BY CollectorsAssumption
<1> DEFINE D == [name : STRING, class : Nat]
<1>2. Len(devs) \in Nat /\ \A n \in 1..Len(devs) : devs[n] \in D
  <2> HIDE DEF D
  <2>1. devs \in Seq(D)
    BY <1>1 DEF D
  <2> QED
    BY <2>1
<1>3. \A n \in 1..Len(devs) : devs[n].class \in Nat
  BY <1>2
<1> QED
  BY <1>2, <1>3, CollectorsAssumption

\* The loop over the devices satisfies the equation it is defined by.
LEMMA FindUnfolds ==
  ASSUME NEW devs \in Mixers
  PROVE  \E found :
           /\ found \in [0..Len(devs) -> Found]
           /\ found = [n \in 0..Len(devs) |->
                         IF n = 0 THEN Nothing ELSE Look(devs[n], n, found[n - 1])]
           /\ find_outputs(devs) = found[Len(devs)]
<1> DEFINE N    == Len(devs)
           step == [n \in 1..N |-> [v \in Found |-> Look(devs[n], n, v)]]
<1>1. N \in Nat
  BY Devices
<1>2. Nothing \in Found
  BY DEF Nothing, Found
<1>3. step \in [1..N -> [Found -> Found]]
  <2>1. ASSUME NEW n \in 1..N, NEW v \in Found PROVE Look(devs[n], n, v) \in Found
    <3>1. devs[n].class \in Nat /\ n - 1 \in Nat
      BY <1>1, Devices
    <3>2. v.class \in Nat \cup {-1} /\ v.master \in Nat \cup {-1} /\ v.mute \in Nat \cup {-1}
      BY DEF Found
    <3> QED
      BY <3>1, <3>2 DEF Look, Found
  <2> QED
    BY <2>1
<1>4. PICK f : GoesBy(f, N, Found, Nothing, step)
  <2>1. Rule(N, Found, Nothing, step)
    BY <1>1, <1>2, <1>3 DEF Rule
  <2> HIDE DEF N, step
  <2> QED
    BY <2>1, Recursion
<1>5. \A n \in 0..N : n # 0 => n \in 1..N /\ f[n - 1] \in Found
  BY <1>1, <1>4 DEF GoesBy
<1>6. f = [n \in 0..N |-> IF n = 0 THEN Nothing ELSE Look(devs[n], n, f[n - 1])]
  BY <1>4, <1>5 DEF GoesBy
<1> DEFINE g == CHOOSE x : x = [n \in 0..N |-> IF n = 0 THEN Nothing ELSE Look(devs[n], n, x[n - 1])]
<1>7. g = [n \in 0..N |-> IF n = 0 THEN Nothing ELSE Look(devs[n], n, g[n - 1])]
  BY <1>6
<1>8. find_outputs(devs) = g[N]
  BY Zenon DEF find_outputs, Look
<1> HIDE DEF g
<1>9. g \in [0..N -> Found]
  <2> DEFINE T == {n \in Nat : n <= N => g[n] \in Found}
  <2>1. 0 \in T
    BY <1>1, <1>2, <1>7
  <2>2. ASSUME NEW n \in Nat, n \in T PROVE n + 1 \in T
    <3> SUFFICES ASSUME n + 1 <= N PROVE g[n + 1] \in Found
      OBVIOUS
    <3>1. n + 1 \in 1..N /\ (n + 1) - 1 = n /\ g[n] \in Found
      BY <1>1, <2>2
    <3>2. g[n + 1] = Look(devs[n + 1], n + 1, g[n])
      BY <1>1, <1>7, <3>1
    <3>3. step[n + 1][g[n]] \in Found
      BY <1>3, <3>1
    <3> QED
      BY <3>1, <3>2, <3>3
  <2>3. Nat \subseteq T
    <3> HIDE DEF T
    <3> QED
      BY <2>1, <2>2, Induction
  <2>4. \A n \in 0..N : g[n] \in Found
    BY <2>3
  <2>5. g = [n \in 0..N |-> g[n]]
    BY <1>7
  <2> QED
    BY <2>4, <2>5
<1> QED
  BY <1>7, <1>8, <1>9

\* The controls of that name in the class of device k, behind it and up to device n.
Later(devs, name, k, n) ==
  {m \in (k + 1)..n : devs[m].name = name /\ devs[m].class = devs[k].class}

\* What is known after n devices: nothing before there was a class "outputs", and then
\* the last controls behind it.
FoundIn(devs, n, o) ==
  /\ (\A k \in 1..n : devs[k].name # "outputs") => o = Nothing
  /\ \A k \in 1..n : devs[k].name = "outputs" =>
       /\ o.class = devs[k].class
       /\ IF Later(devs, "master", k, n) = {} THEN o.master = -1
          ELSE o.master + 1 \in Later(devs, "master", k, n)
       /\ IF Later(devs, "mute", k, n) = {} THEN o.mute = -1
          ELSE o.mute + 1 \in Later(devs, "mute", k, n)

LEMMA LookFinds ==
  ASSUME NEW devs \in Mixers, NEW n \in 1..Len(devs), NEW o \in Found, FoundIn(devs, n - 1, o)
  PROVE  FoundIn(devs, n, Look(devs[n], n, o))
<1> DEFINE d == devs[n]
           r == Look(d, n, o)
<1>0. /\ n \in Nat \ {0} /\ d.class \in Nat
      /\ \A k \in 1..n : k \in 1..(n - 1) \/ k = n
      /\ \A k \in 1..(n - 1) : k \in 1..n
      /\ \A k \in 1..n : k \in 1..Len(devs)
  BY Devices
<1>1. /\ r.class = IF d.name = "outputs" THEN d.class ELSE o.class
      /\ r.master = IF d.name = "master" /\ d.class = r.class THEN n - 1 ELSE o.master
      /\ r.mute = IF d.name = "mute" /\ d.class = r.class THEN n - 1 ELSE o.mute
      /\ r = [class |-> r.class, master |-> r.master, mute |-> r.mute]
  BY DEF Look
<1> HIDE DEF r
<1>2. \A k \in 1..(n - 1), name \in {"master", "mute"} :
        Later(devs, name, k, n) = Later(devs, name, k, n - 1)
          \cup (IF d.name = name /\ d.class = devs[k].class THEN {n} ELSE {})
  BY <1>0 DEF Later
<1>3. \A name : Later(devs, name, n, n) = {}
  BY <1>0 DEF Later
<1>4. CASE d.name = "outputs"
  <2>1. \A k \in 1..(n - 1) : devs[k].name # "outputs"
    BY <1>0, <1>4, Devices
  <2>2. o = Nothing
    BY <2>1 DEF FoundIn
  <2>3. r.class = d.class /\ r.master = -1 /\ r.mute = -1
    BY <1>1, <1>4, <2>2 DEF Nothing
  <2>4. \A k \in 1..n : devs[k].name = "outputs" => k = n
    BY <1>0, <2>1
  <2>5. n \in 1..n
    BY <1>0
  <2> QED
    BY <1>3, <1>4, <2>3, <2>4, <2>5 DEF FoundIn, r
<1>5. CASE d.name # "outputs" /\ \A k \in 1..(n - 1) : devs[k].name # "outputs"
  <2>1. o = Nothing
    BY <1>5 DEF FoundIn
  <2>2. r = Nothing
    BY <1>0, <1>1, <1>5, <2>1 DEF Nothing
  <2>3. \A k \in 1..n : devs[k].name # "outputs"
    BY <1>0, <1>5
  <2> QED
    BY <2>2, <2>3 DEF FoundIn, r
<1>6. CASE d.name # "outputs" /\ \E k \in 1..(n - 1) : devs[k].name = "outputs"
  <2>1. ASSUME NEW k \in 1..n, devs[k].name = "outputs"
        PROVE  /\ r.class = devs[k].class
               /\ IF Later(devs, "master", k, n) = {} THEN r.master = -1
                  ELSE r.master + 1 \in Later(devs, "master", k, n)
               /\ IF Later(devs, "mute", k, n) = {} THEN r.mute = -1
                  ELSE r.mute + 1 \in Later(devs, "mute", k, n)
    <3>1. k \in 1..(n - 1)
      BY <1>0, <1>6, <2>1
    <3>2. /\ o.class = devs[k].class
          /\ IF Later(devs, "master", k, n - 1) = {} THEN o.master = -1
             ELSE o.master + 1 \in Later(devs, "master", k, n - 1)
          /\ IF Later(devs, "mute", k, n - 1) = {} THEN o.mute = -1
             ELSE o.mute + 1 \in Later(devs, "mute", k, n - 1)
      BY <2>1, <3>1 DEF FoundIn
    <3>3. r.class = devs[k].class
      BY <1>1, <1>6, <3>2
    <3>4. (n - 1) + 1 = n
      BY <1>0
    <3>5. IF Later(devs, "master", k, n) = {} THEN r.master = -1
          ELSE r.master + 1 \in Later(devs, "master", k, n)
      BY <1>1, <1>2, <3>1, <3>2, <3>3, <3>4
    <3>6. IF Later(devs, "mute", k, n) = {} THEN r.mute = -1
          ELSE r.mute + 1 \in Later(devs, "mute", k, n)
      BY <1>1, <1>2, <3>1, <3>2, <3>3, <3>4
    <3> QED
      BY <3>3, <3>5, <3>6
  <2>2. \E k \in 1..n : devs[k].name = "outputs"
    BY <1>0, <1>6
  <2> QED
    BY <2>1, <2>2 DEF FoundIn, r
<1> QED
  BY <1>4, <1>5, <1>6

LEMMA OutputsFound ==
  ASSUME NEW devs \in Mixers
  PROVE  FoundIn(devs, Len(devs), find_outputs(devs)) /\ find_outputs(devs) \in Found
<1>1. PICK found :
        /\ found \in [0..Len(devs) -> Found]
        /\ found = [n \in 0..Len(devs) |->
                      IF n = 0 THEN Nothing ELSE Look(devs[n], n, found[n - 1])]
        /\ find_outputs(devs) = found[Len(devs)]
  BY FindUnfolds
<1> DEFINE T == {n \in Nat : n <= Len(devs) => FoundIn(devs, n, found[n])}
<1>0. Len(devs) \in Nat
  BY Devices
<1>2. 0 \in T
  <2>1. found[0] = Nothing
    BY <1>0, <1>1
  <2> QED
    BY <2>1 DEF FoundIn
<1>3. ASSUME NEW n \in Nat, n \in T PROVE n + 1 \in T
  <2> SUFFICES ASSUME n + 1 <= Len(devs) PROVE FoundIn(devs, n + 1, found[n + 1])
    OBVIOUS
  <2>1. n + 1 \in 1..Len(devs) /\ n + 1 \in 0..Len(devs) /\ n + 1 # 0 /\ (n + 1) - 1 = n /\ n \in 0..Len(devs)
    BY <1>0
  <2>2. FoundIn(devs, n, found[n]) /\ found[n] \in Found
    BY <1>1, <1>3, <2>1
  <2>3. found[n + 1] = Look(devs[n + 1], n + 1, found[n])
    BY <1>1, <2>1
  <2>4. FoundIn(devs, (n + 1) - 1, found[n])
    BY <2>1, <2>2
  <2> QED
    BY <2>1, <2>2, <2>3, <2>4, LookFinds
<1>4. Len(devs) \in T
  <2> HIDE DEF T
  <2> QED
    BY <1>0, <1>2, <1>3, Induction
<1>5. FoundIn(devs, Len(devs), found[Len(devs)])
  BY <1>0, <1>4
<1>6. Len(devs) \in 0..Len(devs)
  BY <1>0
<1>7. found[Len(devs)] \in Found
  BY <1>1, <1>6
<1> QED
  BY <1>1, <1>5, <1>7

\* VolumeFindsOutputs, of any mixer and what was found in it.
Controls(devs, k) ==
  /\ devs[k].name = "outputs"
  /\ Later(devs, "master", k, Len(devs)) # {} /\ Later(devs, "mute", k, Len(devs)) # {}
Complete(o) == -1 \notin {o.class, o.master, o.mute}
Finds(devs, o) ==
  /\ Complete(o) <=> \E k \in 1..Len(devs) : Controls(devs, k)
  /\ \A k \in 1..Len(devs) : Controls(devs, k) =>
       /\ o.master + 1 \in Later(devs, "master", k, Len(devs))
       /\ o.mute + 1 \in Later(devs, "mute", k, Len(devs))

LEMMA FindIsRight == ASSUME NEW devs \in Mixers PROVE Finds(devs, find_outputs(devs))
<1> DEFINE o == find_outputs(devs)
<1>1. FoundIn(devs, Len(devs), o) /\ o \in Found
  BY OutputsFound
<1> HIDE DEF o
<1>2. CASE \A k \in 1..Len(devs) : devs[k].name # "outputs"
  <2>1. o = Nothing
    BY <1>1, <1>2 DEF FoundIn
  <2>2. ~Complete(o)
    BY <2>1 DEF Complete, Nothing
  <2> QED
    BY <1>2, <2>2 DEF Finds, Controls, o
<1>3. CASE \E k \in 1..Len(devs) : devs[k].name = "outputs"
  <2>1. PICK k \in 1..Len(devs) : devs[k].name = "outputs"
    BY <1>3
  <2>2. \A j \in 1..Len(devs) : Controls(devs, j) => j = k
    BY <2>1, Devices DEF Controls
  <2>3. o.class = devs[k].class /\ devs[k].class \in Nat
    BY <1>1, <2>1, Devices DEF FoundIn
  <2>4. o.class # -1
    BY <2>3
  <2>5. IF Later(devs, "master", k, Len(devs)) = {} THEN o.master = -1
        ELSE o.master + 1 \in Later(devs, "master", k, Len(devs)) /\ o.master # -1
    <3>1. \A m \in Later(devs, "master", k, Len(devs)) : m # 0
      BY DEF Later
    <3> QED
      BY <1>1, <2>1, <3>1 DEF FoundIn
  <2>6. IF Later(devs, "mute", k, Len(devs)) = {} THEN o.mute = -1
        ELSE o.mute + 1 \in Later(devs, "mute", k, Len(devs)) /\ o.mute # -1
    <3>1. \A m \in Later(devs, "mute", k, Len(devs)) : m # 0
      BY DEF Later
    <3> QED
      BY <1>1, <2>1, <3>1 DEF FoundIn
  <2>7. Complete(o) <=> Controls(devs, k)
    BY <2>1, <2>4, <2>5, <2>6 DEF Complete, Controls
  <2> QED
    BY <2>1, <2>2, <2>5, <2>6, <2>7 DEF Finds, Controls, o
<1> QED
  BY <1>2, <1>3

\* What was found stays what the mixer has.
VInv == Finds(mixer, outputs) /\ (is_setup["volume"] => Complete(outputs))

LEMMA VolumeIs == VolumeFindsOutputs <=> VInv
BY DEF VolumeFindsOutputs, VInv, Finds, Controls, Complete, Later

LEMMA VolumeInitially == Init => VInv
<1> SUFFICES ASSUME Init PROVE VInv
  OBVIOUS
<1>1. mixer = <<>> /\ outputs = Nothing /\ Len(mixer) = 0 /\ is_setup["volume"] = FALSE
  BY Names DEF Init, CollectorsInit
<1>2. ~Complete(outputs)
  BY <1>1 DEF Nothing, Complete
<1> QED
  BY <1>1, <1>2 DEF VInv, Finds

LEMMA VolumeKeptRight == PTypeOK /\ VInv /\ [Next]_vars => VInv'
<1> SUFFICES ASSUME PTypeOK, VInv, [Next]_vars PROVE VInv'
  OBVIOUS
<1>1. CASE UNCHANGED collectors
  BY <1>1 DEF collectors, VInv
<1>2. CASE stats_init
  <2>0. "volume" \in CollectorNames
    BY Names
  <2>1. init(Order[turn])
    BY <1>2 DEF stats_init
  <2>2. CASE volume_init
    <3>1. CASE SetUp("volume", FALSE) /\ UNCHANGED <<mixer, outputs>>
      <4>1. ~is_setup'["volume"]
        BY <2>0, <3>1 DEF SetUp, PTypeOK
      <4> QED
        BY <3>1, <4>1 DEF VInv
    <3>2. CASE \E devs \in Mixers :
                 /\ mixer' = devs /\ outputs' = find_outputs(devs)
                 /\ SetUp("volume", Complete(outputs)')
      <4>1. PICK devs \in Mixers :
                 /\ mixer' = devs /\ outputs' = find_outputs(devs)
                 /\ SetUp("volume", Complete(outputs)')
        BY <3>2
      <4>2. Finds(mixer, outputs)'
        BY <4>1, FindIsRight
      <4>3. is_setup'["volume"] = Complete(outputs)'
        BY <2>0, <4>1 DEF SetUp, PTypeOK
      <4> QED
        BY <4>2, <4>3 DEF VInv
    <3>3. \/ SetUp("volume", FALSE) /\ UNCHANGED <<mixer, outputs>>
          \/ \E devs \in Mixers :
               /\ mixer' = devs /\ outputs' = find_outputs(devs)
               /\ SetUp("volume", Complete(outputs)')
      BY <2>2 DEF volume_init, Complete
    <3> QED
      BY <3>1, <3>2, <3>3
  <2>3. CASE \E c \in CollectorNames \ {"volume"} :
               UNCHANGED <<mixer, outputs>> /\ \E ok \in BOOLEAN : SetUp(c, ok)
    <3>1. is_setup'["volume"] = is_setup["volume"]
      BY <2>0, <2>3 DEF SetUp, PTypeOK
    <3> QED
      BY <2>3, <3>1 DEF VInv
  <2>4. \/ volume_init
        \/ \E c \in CollectorNames \ {"volume"} :
             UNCHANGED <<mixer, outputs>> /\ \E ok \in BOOLEAN : SetUp(c, ok)
    BY <2>1, Names DEF init, battery_init, brightness_init, cpu_init, memory_init, net_init,
       nprocs_init, wifi_init
  <2> QED
    BY <2>2, <2>3, <2>4
<1>3. CASE ~stats_init
  <2>1. UNCHANGED collectors
    BY <1>3 DEF Next, vars, first_update, update, Gui, pthread_create,
       xcb_wait_for_event, draw, reload, timer,
       stats_update, pthread_join, stats_close, close, exit, collectors
  <2> QED
    BY <1>1, <2>1
<1> QED
  BY <1>2, <1>3

\* For every mixer, the indexes that volume_init() ends up with are those of a master and
\* a mute of the class "outputs", if the class comes before them, and is_setup says so.
THEOREM VolumeRight == Spec => []VolumeFindsOutputs
BY TypeCorrect, VolumeInitially, VolumeKeptRight, VolumeIs, PTL DEF Spec

-----------------------------------------------------------------------------
(* Colours.                                                                *)

\* hex2rgba() of a colour without '#'.
Width(body) == IF Len(body) \in {3, 4} THEN 1 ELSE 2

Number(body) == [k \in 1..(Len(body) \div Width(body)) |->
                   IF Width(body) = 1 THEN body[k]
                   ELSE IF body[2 * k] \in Hexits THEN 16 * body[2 * k - 1] + body[2 * k]
                   ELSE body[2 * k - 1]]

Readable(body) ==
  /\ Len(body) \in {3, 4, 6, 8}
  /\ \A k \in 1..(Len(body) - IF Width(body) = 2 THEN 1 ELSE 0) : body[k] \in Hexits

Converted(body) ==
  IF Readable(body)
  THEN Rgba(Len(body) \div Width(body), Number(body), IF Width(body) = 1 THEN 15 ELSE 255)
  ELSE Malformed

Chars == Hexits \cup {Pound, Other}

\* The lengths, as numbers.
LEMMA Lengths ==
  \A n \in Nat :
    /\ n \in {6, 8} => n \notin {3, 4}
    /\ n \in {3, 4} => n <= 4
    /\ n = 6 => n # 8
    /\ n = 3 => n # 4
    /\ n \in {3, 4, 6, 8} => (n <= 4 <=> n \in {3, 4})
OBVIOUS

LEMMA WithPound ==
  ASSUME NEW s, s # <<>>, s[1] = Pound
  PROVE  hex2rgba(s) = Converted(Tail(s))
<1> DEFINE body == Tail(s)
<1>1. (IF s # <<>> /\ s[1] = Pound THEN Tail(s) ELSE s) = body
  OBVIOUS
<1> QED
  BY Zenon, <1>1 DEF hex2rgba, Converted, Readable, Number, Width

LEMMA WithoutPound ==
  ASSUME NEW s, s = <<>> \/ s[1] # Pound
  PROVE  hex2rgba(s) = Converted(s)
<1>1. (IF s # <<>> /\ s[1] = Pound THEN Tail(s) ELSE s) = s
  OBVIOUS
<1> QED
  BY Zenon, <1>1 DEF hex2rgba, Converted, Readable, Number, Width

\* The components of a colour of each length.
LEMMA Short ==
  ASSUME NEW s \in Seq(Hexits), Len(s) \in {3, 4}
  PROVE  Converted(s) = [r |-> 17 * s[1], g |-> 17 * s[2], b |-> 17 * s[3],
                         a |-> IF Len(s) = 4 THEN 17 * s[4] ELSE 255]
<1>1. Width(s) = 1 /\ Len(s) \div Width(s) = Len(s) /\ Readable(s)
  BY DEF Width, Readable, Hexits
<1>2. Number(s) = [k \in 1..Len(s) |-> s[k]]
  BY <1>1 DEF Number
<1>3. \A k \in 1..Len(s) : Number(s)[k] \in 0..15 /\ (Number(s)[k] * 255) \div 15 = 17 * s[k]
  BY <1>2 DEF Hexits
<1>4. Converted(s) = Rgba(Len(s), Number(s), 15)
  BY <1>1 DEF Converted
<1>5. 1 \in 1..Len(s) /\ 2 \in 1..Len(s) /\ 3 \in 1..Len(s) /\ (Len(s) = 4 => 4 \in 1..Len(s))
  OBVIOUS
<1> QED
  BY <1>3, <1>4, <1>5 DEF Rgba

LEMMA Long ==
  ASSUME NEW s \in Seq(Hexits), Len(s) \in {6, 8}
  PROVE  Converted(s) = [r |-> Two(s, 1), g |-> Two(s, 2), b |-> Two(s, 3),
                         a |-> IF Len(s) = 8 THEN Two(s, 4) ELSE 255]
<1>1. Width(s) = 2 /\ Readable(s)
  <2>1. Width(s) = 2
    BY Lengths DEF Width
  <2>2. \A k \in 1..Len(s) : s[k] \in Hexits
    OBVIOUS
  <2>3. 1..(Len(s) - 1) \subseteq 1..Len(s)
    OBVIOUS
  <2> QED
    BY <2>1, <2>2, <2>3 DEF Readable
<1> DEFINE n == Len(s) \div 2
<1>2. n \in Nat /\ 2 * n = Len(s) /\ n = IF Len(s) = 8 THEN 4 ELSE 3
  <2>1. CASE Len(s) = 6
    BY <2>1
  <2>2. CASE Len(s) = 8
    BY <2>2
  <2> QED
    BY <2>1, <2>2
<1>3. \A k \in 1..n : s[2 * k] \in Hexits /\ s[2 * k - 1] \in Hexits
  BY <1>2
<1>4. \A k \in 1..n : Number(s)[k] = Two(s, k)
  BY <1>1, <1>3 DEF Number, Two
<1>5. \A k \in 1..n : (Number(s)[k] * 255) \div 255 = Two(s, k)
  <2> TAKE k \in 1..n
  <2>1. s[2 * k] \in 0..15 /\ s[2 * k - 1] \in 0..15
    BY <1>2, <1>3 DEF Hexits
  <2>2. Two(s, k) \in Nat
    <3>1. \A x, y \in 0..15 : 16 * x + y \in Nat
      OBVIOUS
    <3> QED
      BY <2>1, <3>1 DEF Two
  <2> QED
    BY <1>4, <2>2
<1>6. Converted(s) = Rgba(n, Number(s), 255)
  BY <1>1 DEF Converted
<1>7. 1 \in 1..n /\ 2 \in 1..n /\ 3 \in 1..n /\ (Len(s) = 8 => 4 \in 1..n) /\ (n = 4 <=> Len(s) = 8)
  BY <1>2
<1> HIDE DEF n
<1> QED
  BY <1>5, <1>6, <1>7 DEF Rgba

\* A letter that is no hexit is refused.
LEMMA Refused ==
  ASSUME NEW s \in Seq(Chars), NEW k \in 1..(Len(s) - IF Len(s) > 4 THEN 1 ELSE 0), s[k] = Other
  PROVE  hex2rgba(s) = Malformed
<1>1. s # <<>> /\ Len(s) \in Nat /\ k \in 1..Len(s) /\ Other \notin Hexits /\ Other # Pound
  BY DEF Hexits, Other, Pound
<1>2. CASE s[1] = Pound
  <2> DEFINE body == Tail(s)
  <2>1. Len(body) = Len(s) - 1 /\ \A j \in 1..Len(body) : body[j] = s[j + 1]
    BY <1>1
  <2>2. k # 1 /\ k - 1 \in 1..Len(body) /\ body[k - 1] = Other
    BY <1>1, <1>2, <2>1
  <2>3. ~Readable(body)
    <3> SUFFICES ASSUME Readable(body) PROVE FALSE
      OBVIOUS
    <3> HIDE DEF body
    <3>1. k - 1 \in 1..(Len(body) - IF Width(body) = 2 THEN 1 ELSE 0)
      BY <2>1, <2>2 DEF Readable, Width
    <3> QED
      BY <3>1, <2>2, <1>1 DEF Readable
  <2> QED
    BY <1>1, <1>2, <2>3, WithPound DEF Converted
<1>3. CASE s[1] # Pound
  <2>1. ~Readable(s)
    <3> SUFFICES ASSUME Readable(s) PROVE FALSE
      OBVIOUS
    <3>1. k \in 1..(Len(s) - IF Width(s) = 2 THEN 1 ELSE 0)
      <4>1. Len(s) \in {3, 4, 6, 8}
        BY DEF Readable
      <4>2. Width(s) = IF Len(s) <= 4 THEN 1 ELSE 2
        BY <4>1, <1>1, Lengths DEF Width
      <4> QED
        BY <4>2, <1>1
    <3> QED
      BY <3>1, <1>1 DEF Readable
  <2> QED
    BY <1>3, <2>1, WithoutPound DEF Converted
<1> QED
  BY <1>2, <1>3

LEMMA AllExact ==
  ASSUME NEW s \in Seq(Chars)
  PROVE  Exact(s)
<1> SUFFICES
          /\ Other \in {s[k] : k \in 1..(Len(s) - IF Len(s) > 4 THEN 1 ELSE 0)} => hex2rgba(s) = Malformed
          /\ OfHexits(s) =>
               /\ hex2rgba(<<Pound>> \o s) = hex2rgba(s)
               /\ (hex2rgba(s) = Malformed) <=> Len(s) \notin {3, 4, 6, 8}
               /\ Len(s) \in {3, 4} => hex2rgba(s) = hex2rgba(Doubled(s))
               /\ Len(s) \in {3, 6} => hex2rgba(s).a = 255
               /\ Len(s) \in {6, 8} => /\ hex2rgba(s).r = Two(s, 1)
                                       /\ hex2rgba(s).g = Two(s, 2)
                                       /\ hex2rgba(s).b = Two(s, 3)
               /\ Len(s) = 8 => hex2rgba(s).a = Two(s, 4)
  BY Zenon DEF Exact
<1>1. s \in Seq(Chars)
  OBVIOUS
<1>2. Other \in {s[k] : k \in 1..(Len(s) - IF Len(s) > 4 THEN 1 ELSE 0)} => hex2rgba(s) = Malformed
  BY <1>1, Refused
<1>3. ASSUME OfHexits(s)
      PROVE  /\ hex2rgba(<<Pound>> \o s) = hex2rgba(s)
             /\ (hex2rgba(s) = Malformed) <=> Len(s) \notin {3, 4, 6, 8}
             /\ Len(s) \in {3, 4} => hex2rgba(s) = hex2rgba(Doubled(s))
             /\ Len(s) \in {3, 6} => hex2rgba(s).a = 255
             /\ Len(s) \in {6, 8} => /\ hex2rgba(s).r = Two(s, 1)
                                     /\ hex2rgba(s).g = Two(s, 2)
                                     /\ hex2rgba(s).b = Two(s, 3)
             /\ Len(s) = 8 => hex2rgba(s).a = Two(s, 4)
  <2>1. s \in Seq(Hexits)
    BY <1>1, <1>3 DEF OfHexits
  <2>2. hex2rgba(s) = Converted(s)
    <3>1. s = <<>> \/ s[1] # Pound
      BY <2>1 DEF Hexits, Pound
    <3> QED
      BY <3>1, WithoutPound
  <2>3. hex2rgba(<<Pound>> \o s) = hex2rgba(s)
    <3> DEFINE t == <<Pound>> \o s
    <3>1. t # <<>> /\ t[1] = Pound
      BY <2>1
    <3>2. Tail(t) = s
      BY <2>1
    <3> HIDE DEF t
    <3>3. hex2rgba(t) = Converted(s)
      BY <3>1, <3>2, WithPound
    <3> QED
      BY <3>3, <2>2 DEF t
  <2>4. CASE Len(s) \in {3, 4}
    <3>1. Doubled(s) \in Seq(Hexits) /\ Len(Doubled(s)) = 2 * Len(s)
      BY <2>1, <2>4 DEF Doubled
    <3>2. Doubled(s) = <<>> \/ Doubled(s)[1] # Pound
      BY <3>1, <2>4 DEF Hexits, Pound
    <3>3. \A k \in 1..Len(s) : Two(Doubled(s), k) = 17 * s[k]
      <4> TAKE k \in 1..Len(s)
      <4>1. 2 * k - 1 \in 1..(2 * Len(s)) /\ 2 * k \in 1..(2 * Len(s)) /\ s[k] \in 0..15
        BY <2>1, <2>4 DEF Hexits
      <4>2. (((2 * k) - 1) + 1) \div 2 = k /\ ((2 * k) + 1) \div 2 = k
        OBVIOUS
      <4> QED
        BY <4>1, <4>2 DEF Two, Doubled
    <3>4. hex2rgba(Doubled(s)) = Converted(s)
      <4> DEFINE d == Doubled(s)
      <4>1. Len(d) \in {6, 8} /\ (Len(d) = 8 <=> Len(s) = 4)
        <5>1. \A n \in Nat : n \in {3, 4} => 2 * n \in {6, 8} /\ (2 * n = 8 <=> n = 4)
          OBVIOUS
        <5> QED
          BY <2>1, <2>4, <3>1, <5>1
      <4>0. d \in Seq(Hexits) /\ (d = <<>> \/ d[1] # Pound)
        BY <3>1, <3>2
      <4> HIDE DEF d
      <4>2. hex2rgba(d) = [r |-> Two(d, 1), g |-> Two(d, 2), b |-> Two(d, 3),
                           a |-> IF Len(d) = 8 THEN Two(d, 4) ELSE 255]
        <5>1. hex2rgba(d) = Converted(d)
          BY <4>0, WithoutPound
        <5> QED
          BY <4>0, <4>1, <5>1, Long
      <4>3. 1 \in 1..Len(s) /\ 2 \in 1..Len(s) /\ 3 \in 1..Len(s) /\ (Len(s) = 4 => 4 \in 1..Len(s))
        <5>1. \A n \in Nat : n \in {3, 4} => 1 \in 1..n /\ 2 \in 1..n /\ 3 \in 1..n /\ (n = 4 => 4 \in 1..n)
          OBVIOUS
        <5> QED
          BY <2>1, <2>4, <5>1
      <4>4. /\ Two(d, 1) = 17 * s[1] /\ Two(d, 2) = 17 * s[2] /\ Two(d, 3) = 17 * s[3]
            /\ Len(s) = 4 => Two(d, 4) = 17 * s[4]
        BY <3>3, <4>3 DEF d
      <4> QED
        BY <2>1, <2>4, <4>1, <4>2, <4>4, Short DEF d
    <3>5. Converted(s) # Malformed
      <4>1. s[1] \in 0..15
        BY <2>1, <2>4 DEF Hexits
      <4>2. Converted(s).r = 17 * s[1]
        BY <2>1, <2>4, Short
      <4> QED
        BY <4>1, <4>2 DEF Malformed
    <3>6. Len(s) = 3 => Converted(s).a = 255
      BY <2>1, <2>4, Short, Lengths
    <3>7. Len(s) \notin {6, 8} /\ Len(s) # 6 /\ Len(s) # 8 /\ Len(s) \in {3, 4, 6, 8}
      BY <2>1, <2>4, Lengths
    <3>8. Len(s) \in {3, 6} => Len(s) = 3
      BY <3>7
    <3> QED
      BY <3>7, <3>8, <2>2, <2>3, <2>4, <3>4, <3>5, <3>6
  <2>5. CASE Len(s) \in {6, 8}
    <3>1. s[1] \in 0..15 /\ s[2] \in 0..15
      BY <2>1, <2>5 DEF Hexits
    <3>2. Two(s, 1) = (16 * s[1]) + s[2]
      BY DEF Two
    <3>3. /\ Converted(s).r = Two(s, 1) /\ Converted(s).g = Two(s, 2) /\ Converted(s).b = Two(s, 3)
          /\ Len(s) = 6 => Converted(s).a = 255
          /\ Len(s) = 8 => Converted(s).a = Two(s, 4)
      <4>1. Len(s) = 6 => Len(s) # 8
        BY <2>1, Lengths
      <4>2. Converted(s) = [r |-> Two(s, 1), g |-> Two(s, 2), b |-> Two(s, 3),
                            a |-> IF Len(s) = 8 THEN Two(s, 4) ELSE 255]
        BY <2>1, <2>5, Long
      <4> QED
        BY <4>1, <4>2
    <3>4. Converted(s) # Malformed
      <4>1. \A x, y \in 0..15 : 16 * x + y # -1
        OBVIOUS
      <4>2. Two(s, 1) # -1
        BY <3>1, <3>2, <4>1
      <4> QED
        BY <3>3, <4>2 DEF Malformed
    <3>5. Len(s) \notin {3, 4} /\ Len(s) # 3 /\ Len(s) \in {3, 4, 6, 8}
      BY <2>1, <2>5, Lengths
    <3>6. Len(s) \in {3, 6} => Len(s) = 6
      BY <3>5
    <3> QED
      BY <2>2, <2>3, <2>5, <3>3, <3>4, <3>5, <3>6
  <2>6. CASE Len(s) \notin {3, 4, 6, 8}
    BY <2>2, <2>3, <2>6 DEF Converted, Readable
  <2> QED
    BY <2>4, <2>5, <2>6
<1> QED
  BY <1>2, <1>3

-----------------------------------------------------------------------------
(* Sizes.                                                                  *)

\* What is left after each step is a 1024th of what was left before.
LEMMA LeftUnfolds ==
  ASSUME NEW kbytes \in Nat
  PROVE  /\ Left(kbytes)[0] = kbytes
         /\ \A n \in 1..5 : Left(kbytes)[n] = Left(kbytes)[n - 1] \div 1024
<1> DEFINE Goal(f) == f = [n \in 0..5 |-> IF n = 0 THEN kbytes ELSE f[n - 1] \div 1024]
           g == [n \in 0..5 |->
                  IF n = 0 THEN kbytes
                  ELSE IF n = 1 THEN kbytes \div 1024
                  ELSE IF n = 2 THEN (kbytes \div 1024) \div 1024
                  ELSE IF n = 3 THEN ((kbytes \div 1024) \div 1024) \div 1024
                  ELSE IF n = 4 THEN (((kbytes \div 1024) \div 1024) \div 1024) \div 1024
                  ELSE ((((kbytes \div 1024) \div 1024) \div 1024) \div 1024) \div 1024]
<1>1. Len(suffixes) = 5
  BY DEF suffixes
<1>2. Goal(g)
  <2>1. \A n \in 0..5 : n \in {0, 1, 2, 3, 4, 5}
    OBVIOUS
  <2>2. \A n \in 0..5 : g[n] = IF n = 0 THEN kbytes ELSE g[n - 1] \div 1024
    BY <2>1
  <2> QED
    BY <2>2
<1>3. Left(kbytes) = CHOOSE f : Goal(f)
  BY <1>1 DEF Left
<1>4. Goal(Left(kbytes))
  <2> HIDE DEF Goal, g
  <2> QED
    BY <1>2, <1>3
<1>5. \A n \in 0..5 : Left(kbytes)[n] = IF n = 0 THEN kbytes ELSE Left(kbytes)[n - 1] \div 1024
  <2> DEFINE f == Left(kbytes)
  <2>1. f = [n \in 0..5 |-> IF n = 0 THEN kbytes ELSE f[n - 1] \div 1024]
    BY <1>4
  <2> HIDE DEF f
  <2>2. \A n \in 0..5 : f[n] = IF n = 0 THEN kbytes ELSE f[n - 1] \div 1024
    BY <2>1
  <2> QED
    BY <2>2 DEF f
<1> QED
  BY <1>5

\* What is left, in one division.
LEMMA LeftIs ==
  ASSUME NEW kbytes \in Nat, kbytes <= INT_MAX
  PROVE  /\ Left(kbytes)[0] = kbytes
         /\ Left(kbytes)[1] = kbytes \div 1024
         /\ Left(kbytes)[2] = kbytes \div 1048576
         /\ Left(kbytes)[3] = kbytes \div 1073741824
         /\ Left(kbytes)[3] \in 0..1
         /\ Left(kbytes)[4] = 0
<1>1. kbytes <= 2147483647
  BY SMT DEF INT_MAX
<1>2. /\ (kbytes \div 1024) \div 1024 = kbytes \div 1048576
      /\ (kbytes \div 1048576) \div 1024 = kbytes \div 1073741824
      /\ kbytes \div 1073741824 \in 0..1
  BY <1>1, SMT
<1>3. /\ Left(kbytes)[0] = kbytes
      /\ Left(kbytes)[1] = Left(kbytes)[0] \div 1024
      /\ Left(kbytes)[2] = Left(kbytes)[1] \div 1024
      /\ Left(kbytes)[3] = Left(kbytes)[2] \div 1024
      /\ Left(kbytes)[4] = Left(kbytes)[3] \div 1024
  BY LeftUnfolds, SMT
<1> QED
  BY <1>2, <1>3, SMT
\* What is shown is right, for every int.
LEMMA AllRight ==
  ASSUME NEW kbytes \in Nat, kbytes <= INT_MAX
  PROVE  Right(kbytes)
<1> DEFINE left == Left(kbytes)
           Stop(n) == ~Goes(left[n], n) /\ \A m \in 0..(n - 1) : Goes(left[m], m)
           steps == IF 1024 < kbytes THEN CHOOSE n \in 0..5 : Stop(n) ELSE 0
<1>1. Len(suffixes) = 5
  BY DEF suffixes
<1>2. kbytes <= 2147483647
  BY SMT DEF INT_MAX
<1>3. fmt_memory(kbytes) = [number |-> left[steps], step |-> steps]
  BY <1>1 DEF fmt_memory
<1>4. Len(Unit) = 4 /\ DOMAIN Unit = 1..4 /\ Unit[1] = 1 /\ Unit[2] = 1024 /\ Unit[3] = 1048576 /\ Unit[4] = 1073741824
  BY SMT DEF Unit
<1> HIDE DEF steps
<1>5. /\ steps \in 0..3
      /\ steps > 0 => left[steps] > 0
      /\ left[steps] <= 1024
  <2>1. CASE ~(1024 < kbytes)
    BY <1>2, <2>1, LeftIs, SMT DEF steps
  <2>2. CASE 1024 < kbytes
    <3> HIDE DEF left
    <3>1. /\ left[0] = kbytes /\ left[1] = kbytes \div 1024 /\ left[2] = kbytes \div 1048576
          /\ left[3] = kbytes \div 1073741824 /\ left[3] \in 0..1 /\ left[4] = 0
      BY LeftIs DEF left
    <3>2. \A n \in 0..3 : Goes(left[n], n) <=> left[n] >= 1024
      BY <1>1, <1>2, <3>1, SMT DEF Goes
    <3>3. left[4] < 1024 /\ left[0] \in Nat /\ left[1] \in Nat /\ left[2] \in Nat /\ left[3] \in Nat
      BY <3>1, SMT
    <3> HIDE DEF Stop
    <3>4. PICK n \in 1..3 : /\ left[n] < 1024 /\ \A m \in 0..(n - 1) : left[m] >= 1024
      <4>1. left[0] >= 1024
        BY <2>2, <3>1, SMT
      <4>2. left[3] < 1024
        BY <3>1, SMT
      <4> QED
        BY <4>1, <4>2, <3>3, SMT
    <3>5. Stop(n)
      BY <3>2, <3>3, <3>4, SMT DEF Stop
    <3>6. steps \in 0..5 /\ Stop(steps)
      BY <2>2, <3>5 DEF steps
    <3>7. steps \in 1..3
      <4>1. ~(left[3] >= 1024) /\ left[0] >= 1024
        BY <2>2, <3>1, SMT
      <4> QED
        BY <3>2, <3>6, <4>1, SMT DEF Stop
    <3>8. left[steps] < 1024 /\ left[steps - 1] >= 1024
      BY <3>2, <3>3, <3>6, <3>7, SMT DEF Stop
    <3>9. left[steps] = left[steps - 1] \div 1024
      BY <3>7, LeftUnfolds, SMT DEF left
    <3> QED
      BY <3>3, <3>7, <3>8, <3>9, SMT
  <2> QED
    BY <2>1, <2>2
<1> QED
  BY <1>1, <1>2, <1>3, <1>4, <1>5, LeftIs, SMT DEF Right

\* Every colour of any length is converted or refused as xcore.h says: hex2rgba() takes
\* each hexit to its place on the scale, and a '#' or doubled hexits change nothing.
THEOREM ColoursExact == Spec => []ColourIsExact
<1>1. \A s \in Colours : s \in Seq(Chars)
  BY ConversionsAssumption DEF Chars
<1>2. ColourIsExact
  BY <1>1, AllExact DEF ColourIsExact
<1> QED
  BY <1>2, PTL

\* For every int of kilobytes fmt_memory() shows that many of a suffix, and the right one.
THEOREM SizesRight == Spec => []SizeIsRight
<1>1. \A kbytes \in Sizes : kbytes \in Nat /\ kbytes <= INT_MAX
  BY ConversionsAssumption
<1>2. SizeIsRight
  BY <1>1, AllRight DEF SizeIsRight
<1> QED
  BY <1>2, PTL
=============================================================================

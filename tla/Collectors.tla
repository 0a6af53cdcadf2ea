----------------------------- MODULE Collectors -----------------------------
(***************************************************************************)
(* stats/*.c: what each collector takes in its init, uses in its update    *)
(* and gives back in its close, and what is_setup says of it.  stats_init, *)
(* stats_update and stats_close call them in the Order of stats.c; who     *)
(* calls these, and when, is module Process.                               *)
(*                                                                         *)
(* Most of what the kernel and X answer is any answer.  A step that ends   *)
(* the program (err, errx, or an answer of X that is read though there was *)
(* none) is an action of Process.  The numbers the collectors read are in  *)
(* Sampling, NetChart, CpuPercents and MemoryPercents.                     *)
(***************************************************************************)
EXTENDS Resources, Integers, Sequences

CONSTANT Mixers   \* what the devices of the mixer may be: sequences of [name, class]

Order == <<"battery", "brightness", "cpus", "memory", "network", "nprocs", "volume", "wifi">>

CollectorNames == {Order[n] : n \in 1..8}

\* Names of classes are unique: one device at most is called "outputs".
ASSUME CollectorsAssumption ==
  \A devs \in Mixers :
    /\ devs \in Seq([name : STRING, class : Nat])
    /\ \A i, j \in 1..Len(devs) : devs[i].name = "outputs" /\ devs[j].name = "outputs" => i = j

VARIABLES
  is_setup,   \* per collector
  mixer,      \* the devices of the mixer that was opened
  outputs     \* outputs_class, outputs_master_idx, outputs_mute_idx

collectors == <<is_setup, mixer, outputs>>

Nothing == [class |-> -1, master |-> -1, mute |-> -1]

CollectorsInit ==
  /\ is_setup = [c \in CollectorNames |-> FALSE]
  /\ mixer = <<>>
  /\ outputs = Nothing

SetUp(c, ok) == is_setup' = [is_setup EXCEPT ![c] = ok]

-----------------------------------------------------------------------------
(* The init functions.                                                      *)

apm_dev_fd == {"apm_dev_fd"}

\* No /dev/apm; neither on AC nor on battery; on one of the two.
battery_init ==
  /\ \/ Calls({}, {}, {}) /\ SetUp("battery", FALSE)
     \/ Calls({}, apm_dev_fd, {}) /\ SetUp("battery", FALSE)
     \/ Calls({}, apm_dev_fd, {}) /\ SetUp("battery", TRUE)
  /\ UNCHANGED <<mixer, outputs>>

\* What X answers about a property: the property, an error, or nothing once the connection
\* is broken.  The error of the call before is overwritten, and nobody frees either.
PropAnswers == {{"prop_reply"}, {"error"}, {}}

\* The atom has no answer; the property has none, or another than was asked for; it has.
brightness_init ==
  /\ \/ Calls({}, {"x"}, {}) /\ SetUp("brightness", FALSE)
     \/ /\ \E answer \in PropAnswers :
             Assigns({"error"}, {}, {"x", "reply", "rec_reply"} \cup answer, {"reply"})
        /\ SetUp("brightness", FALSE)
     \/ /\ Assigns({"error"}, {}, {"x", "reply", "rec_reply", "prop_reply", "query_reply"},
                   {"reply", "prop_reply"})
        /\ SetUp("brightness", TRUE)
  /\ UNCHANGED <<mixer, outputs>>

\* With a first cpu_update().
cpu_init ==
  /\ Calls({}, {"cpus"}, {})
  /\ SetUp("cpus", TRUE)
  /\ UNCHANGED <<mixer, outputs>>

memory_init == Calls({}, {}, {}) /\ SetUp("memory", TRUE) /\ UNCHANGED <<mixer, outputs>>

nprocs_init == Calls({}, {}, {}) /\ SetUp("nprocs", TRUE) /\ UNCHANGED <<mixer, outputs>>

\* What get_egress() takes for a while: a socket, and the list of the group's members.
ioctlfd == {"ioctlfd"}
ifgr    == ioctlfd \cup {"ifgr_groups"}

\* It gives all of it back, whether it finds no group, none on the second look, or a name.
NoEgress == \E lookup \in {ioctlfd, ifgr} : Calls({}, lookup, lookup)
Egress(takes, gives) == Calls({}, ifgr \cup takes, ifgr \cup gives)

\* What net_update_bytes() takes for a while.
buf == {"buf"}

\* Without an interface to the outside; with one, and with a first net_update().
net_init ==
  /\ \/ NoEgress /\ SetUp("network", FALSE)
     \/ Egress({"network.iface"} \cup buf, buf) /\ SetUp("network", TRUE)
  /\ UNCHANGED <<mixer, outputs>>

iface       == {"wifi.iface"}
wifi_socket == {"wifi_socket"}

\* No interface to the outside; no socket; it is no card with wifi; it is one.
wifi_init ==
  /\ \/ NoEgress /\ SetUp("wifi", FALSE)
     \/ Egress(iface, iface) /\ SetUp("wifi", FALSE)
     \/ Egress(iface \cup wifi_socket, iface) /\ SetUp("wifi", FALSE)
     \/ Egress(iface \cup wifi_socket, {}) /\ SetUp("wifi", TRUE)
  /\ UNCHANGED <<mixer, outputs>>

-----------------------------------------------------------------------------
(* volume_init()                                                            *)

\* Mutant: the class is not looked at.
find_outputs_AnyClass(devs) ==
  LET found[n \in 0..Len(devs)] ==
        IF n = 0 THEN Nothing
        ELSE LET d == devs[n] IN
             [class  |-> IF d.name = "outputs" THEN d.class ELSE found[n - 1].class,
              master |-> IF d.name = "master" THEN n - 1 ELSE found[n - 1].master,
              mute   |-> IF d.name = "mute" THEN n - 1 ELSE found[n - 1].mute]
  IN  found[Len(devs)]

\* The loop over the devices; their index counts from 0.
find_outputs(devs) ==
  LET found[n \in 0..Len(devs)] ==
        IF n = 0 THEN Nothing
        ELSE LET d     == devs[n]
                 class == IF d.name = "outputs" THEN d.class ELSE found[n - 1].class
             IN  [class  |-> class,
                  master |-> IF d.name = "master" /\ d.class = class THEN n - 1 ELSE found[n - 1].master,
                  mute   |-> IF d.name = "mute" /\ d.class = class THEN n - 1 ELSE found[n - 1].mute]
  IN  found[Len(devs)]

mixer_fd == {"mixer_fd"}

\* No mixer; one without outputs, master or mute; one with them, which is closed and
\* opened again.
volume_init ==
  \/ /\ Calls({}, {}, {})
     /\ SetUp("volume", FALSE)
     /\ UNCHANGED <<mixer, outputs>>
  \/ \E devs \in Mixers :
       /\ mixer' = devs
       /\ outputs' = find_outputs(devs)
       /\ IF -1 \in {outputs'.class, outputs'.master, outputs'.mute}
          THEN Calls({}, mixer_fd, mixer_fd) /\ SetUp("volume", FALSE)
          ELSE Calls({}, mixer_fd, {}) /\ SetUp("volume", TRUE)

-----------------------------------------------------------------------------
(* The update functions.                                                    *)

battery_update == Calls(IF is_setup["battery"] THEN apm_dev_fd ELSE {}, {}, {})

\* Mutant: an answer that is not what was asked for is not freed.
brightness_update_Leaks ==
  IF ~is_setup["brightness"] THEN Calls({}, {}, {})
  ELSE \E answer \in PropAnswers, good \in BOOLEAN :
         Assigns({"error"}, {"x", "rec_reply"}, answer, IF good THEN answer \ {"error"} ELSE {})

\* outputs[0] is in rec_reply.
brightness_update ==
  IF ~is_setup["brightness"] THEN Calls({}, {}, {})
  ELSE \E answer \in PropAnswers :
         Assigns({"error"}, {"x", "rec_reply"}, answer, answer \ {"error"})

\* Without a look at is_setup.
cpu_update == Calls({"cpus"}, {}, {})

\* With swap devices, and without.
memory_update ==
  \E swapdev \in {{}, {"swapdev"}} : Calls({}, swapdev, swapdev)

net_update ==
  IF is_setup["network"] THEN Calls({"network.iface"}, buf, buf) ELSE Calls({}, {}, {})

nprocs_update == Calls({}, {}, {})

volume_update == Calls(IF is_setup["volume"] THEN mixer_fd ELSE {}, {}, {})

wifi_update == Calls(IF is_setup["wifi"] THEN iface \cup wifi_socket ELSE {}, {}, {})

-----------------------------------------------------------------------------
(* The close functions.                                                     *)

battery_close == Calls({}, {}, IF is_setup["battery"] THEN apm_dev_fd ELSE {})

brightness_close ==
  Calls({}, {}, IF is_setup["brightness"] THEN {"query_reply", "rec_reply", "x"} ELSE {})

cpu_close == Calls({}, {}, {"cpus"})

memory_close == Calls({}, {}, {})

net_close == Calls({}, {}, IF is_setup["network"] THEN {"network.iface"} ELSE {})

nprocs_close == Calls({}, {}, {})

volume_close == Calls({}, {}, IF is_setup["volume"] THEN mixer_fd ELSE {})

\* Mutant: the socket stays open.
wifi_close_NoSocket == Calls({}, {}, IF is_setup["wifi"] THEN iface ELSE {})

wifi_close == Calls({}, {}, IF is_setup["wifi"] THEN iface \cup wifi_socket ELSE {})

-----------------------------------------------------------------------------
(* By name.                                                                 *)

init(c) ==
  \/ c = "battery" /\ battery_init
  \/ c = "brightness" /\ brightness_init
  \/ c = "cpus" /\ cpu_init
  \/ c = "memory" /\ memory_init
  \/ c = "network" /\ net_init
  \/ c = "nprocs" /\ nprocs_init
  \/ c = "volume" /\ volume_init
  \/ c = "wifi" /\ wifi_init

update(c) ==
  /\ \/ c = "battery" /\ battery_update
     \/ c = "brightness" /\ brightness_update
     \/ c = "cpus" /\ cpu_update
     \/ c = "memory" /\ memory_update
     \/ c = "network" /\ net_update
     \/ c = "nprocs" /\ nprocs_update
     \/ c = "volume" /\ volume_update
     \/ c = "wifi" /\ wifi_update
  /\ UNCHANGED collectors

close(c) ==
  /\ \/ c = "battery" /\ battery_close
     \/ c = "brightness" /\ brightness_close
     \/ c = "cpus" /\ cpu_close
     \/ c = "memory" /\ memory_close
     \/ c = "network" /\ net_close
     \/ c = "nprocs" /\ nprocs_close
     \/ c = "volume" /\ volume_close
     \/ c = "wifi" /\ wifi_close
  /\ UNCHANGED collectors

\* The collectors that may end the program in the function of that name.
Fatal ==
  [init   |-> {"battery", "brightness", "cpus", "network", "volume", "wifi"},
   update |-> {"battery", "cpus", "memory", "network", "nprocs", "volume"}]
=============================================================================

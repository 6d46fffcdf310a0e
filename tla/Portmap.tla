------------------------------ MODULE Portmap ------------------------------
(***************************************************************************)
(* ugpibd-portmap (src/bin/portmap.rs, src/vxi11/portmap.rs): who answers  *)
(* a client's GETPORT for the VXI-11 core channel.  The program asks       *)
(* whether a portmapper answers on port 111; if one does it registers      *)
(* there, keeps the registration and withdraws it when it is stopped, and  *)
(* if none does it serves the port itself.                                 *)
(*                                                                         *)
(* Calls are UDP datagrams on the loopback interface, in order, each call  *)
(* from a socket of its own.  They are lost (a full buffer), answered      *)
(* late, or refused when nobody has the port.  rpcbind is external.        *)
(***************************************************************************)
EXTENDS Naturals, Sequences

CONSTANTS
    Mine, Other,    \* the core port, and one that another program registers
    MaxUdpFaults,   \* datagrams lost and answers late
    MaxRestarts     \* times rpcbind goes away

VARIABLES
    rpcbind,    \* is the system portmapper running
    mapped,     \* the port it has for the core program; 0 is none
    wire,       \* calls on their way to port 111
    mail,       \* what the socket in use has received
    mpos,       \* where the program is
    attempts,   \* how often the call may be sent again
    withdrawn,  \* it was stopped, and the portmapper answered its UNSET
    udpFaults, restarts

portVars == <<rpcbind, mapped, wire, mail, mpos, attempts, withdrawn, udpFaults, restarts>>

(* Where the program waits for an answer, and the call it sent.            *)
Proc == [probe |-> "null", register |-> "set", check |-> "getport",
         reregister |-> "set", withdraw |-> "unset"]
Calling == DOMAIN Proc
Xid == [set |-> 1, unset |-> 1, null |-> 2, getport |-> 3]
Maintaining == {"resting", "check", "reregister"}

PortmapTypeOK ==
    /\ rpcbind \in BOOLEAN /\ mapped \in {0, Mine, Other}
    /\ \A i \in DOMAIN wire : wire[i].proc \in {"null", "set", "unset", "getport"}
    /\ mpos \in Calling \cup {"start", "resting", "bind", "serving", "failed", "stopped", "killed"}
    /\ attempts \in 0..2 /\ withdrawn \in BOOLEAN

(* A registration may be there already: another program's, or that of an   *)
(* earlier ugpibd-portmap that was killed.                                 *)
PortmapInit ==
    /\ rpcbind \in BOOLEAN
    /\ mapped \in (IF rpcbind THEN {0, Mine, Other} ELSE {0})
    /\ wire = <<>> /\ mail = <<>>
    /\ mpos = "start" /\ attempts = 0 /\ withdrawn = FALSE
    /\ udpFaults = 0 /\ restarts = 0

-----------------------------------------------------------------------------
(* The responder of serve mode (dispatch), as a function of a call.        *)

NoReply == [stat |-> "none"]
Success(body) == [stat |-> "success", body |-> body]
Status(stat) == [stat |-> stat]

(* decode_call: what is no call has no answer; another RPC version has.    *)
dispatch(call, table) ==
    CASE call.form \in {"garbled", "reply"} -> NoReply
      [] call.form = "rpc_version" -> Status("rpc_mismatch")
      [] call.form = "other_prog" -> Status("prog_unavail")
      [] call.form = "other_vers" -> Status("prog_mismatch")
      [] call.proc = "null" -> Success(0)
      [] call.proc = "getport" -> IF call.wanted \in DOMAIN table THEN Success(table[call.wanted])
                                  ELSE IF call.wanted = "garbage" THEN Status("garbage_args")
                                  ELSE Success(0)
      [] call.proc = "dump" -> Success(table)
      [] call.proc \in {"set", "unset"} -> Success(FALSE)
      [] call.proc = "callit" -> NoReply
      [] OTHER -> Status("proc_unavail")

(* The table of run_serving: the core channel and the portmapper itself.   *)
Mappings == [core_tcp |-> Mine, pmap_tcp |-> 111, pmap_udp |-> 111]
GetPort == [form |-> "call", proc |-> "getport", wanted |-> "core_tcp"]

-----------------------------------------------------------------------------
(* rpcbind, external: it takes a registration unless the program has a     *)
(* different one, removes any, and loses all when it goes.                 *)

Result(proc) ==
    CASE proc = "null" -> 0
      [] proc = "getport" -> mapped
      [] proc = "set" -> IF mapped \in {0, Mine} THEN TRUE ELSE FALSE
      [] proc = "unset" -> mapped # 0

After(proc) ==
    CASE proc = "set" -> IF mapped = 0 THEN Mine ELSE mapped
      [] proc = "unset" -> 0
      [] OTHER -> mapped

Fault == udpFaults < MaxUdpFaults /\ udpFaults' = udpFaults + 1
Delivers(m) == mail' = IF Head(wire).current THEN Append(mail, m) ELSE mail
Datagram(xid, what) == [xid |-> xid, what |-> what]
Refusal == Datagram(0, "refused")

Served ==
    /\ wire # <<>> /\ rpcbind
    /\ LET proc == Head(wire).proc
       IN  /\ mapped' = After(proc)
           /\ \/ Delivers(Datagram(Xid[proc], Result(proc))) /\ UNCHANGED udpFaults
              \/ UNCHANGED mail /\ Fault
    /\ wire' = Tail(wire)
    /\ UNCHANGED <<rpcbind, mpos, attempts, withdrawn, restarts>>

(* Nobody has the port, and the sender is told; or the call is lost.       *)
Undelivered ==
    /\ wire # <<>> /\ wire' = Tail(wire)
    /\ \/ ~rpcbind /\ Delivers(Refusal) /\ UNCHANGED udpFaults
       \/ UNCHANGED mail /\ Fault
    /\ UNCHANGED <<rpcbind, mapped, mpos, attempts, withdrawn, restarts>>

RpcbindGoes ==
    /\ rpcbind /\ restarts < MaxRestarts
    /\ rpcbind' = FALSE /\ mapped' = 0 /\ restarts' = restarts + 1
    /\ UNCHANGED <<wire, mail, mpos, attempts, withdrawn, udpFaults>>

RpcbindStarts ==
    /\ ~rpcbind /\ mpos # "serving"
    /\ rpcbind' = TRUE
    /\ UNCHANGED <<mapped, wire, mail, mpos, attempts, withdrawn, udpFaults, restarts>>

(* Another program registers the core channel.                             *)
OtherRegisters ==
    /\ rpcbind /\ mapped = 0 /\ restarts < MaxRestarts
    /\ mapped' = Other /\ restarts' = restarts + 1
    /\ UNCHANGED <<rpcbind, wire, mail, mpos, attempts, withdrawn, udpFaults>>

-----------------------------------------------------------------------------
(* Calls.                                                                  *)

Sent(proc) == [proc |-> proc, current |-> TRUE]

BeginOnOneSocket(at, n) ==
    /\ wire' = Append(wire, Sent(Proc[at]))
    /\ mail' = IF mail = <<>> THEN mail ELSE Tail(mail)
    /\ mpos' = at /\ attempts' = n

(* A call begins with a socket of its own, so nothing sent before is       *)
(* answered to it.                                                         *)
Begin(at, n) ==
    /\ wire' = Append([i \in DOMAIN wire |-> [wire[i] EXCEPT !.current = FALSE]], Sent(Proc[at]))
    /\ mail' = <<>>
    /\ mpos' = at /\ attempts' = n

probe == Begin("probe", 1)
set_registration(at) == Begin(at, 2)
getport == Begin("check", 0)

Proceeds(at) == mpos' = at /\ mail' = <<>> /\ attempts' = 0 /\ UNCHANGED wire

Again ==
    /\ attempts > 0 /\ attempts' = attempts - 1
    /\ wire' = Append(wire, Sent(Proc[mpos]))
    /\ mail' = <<>> /\ UNCHANGED mpos

(* What follows a call that was answered, and one that was not.            *)
AnsweredTrusting(what) ==
    CASE mpos = "probe" -> set_registration("register")
      [] mpos = "register" -> Proceeds(IF what = TRUE THEN "resting" ELSE "failed")
      [] mpos = "check" -> IF what \in {0, Mine} THEN Proceeds("resting") ELSE set_registration("reregister")
      [] mpos = "reregister" -> Proceeds("resting")
      [] mpos = "withdraw" -> Proceeds("stopped")

Answered(what) ==
    CASE mpos = "probe" -> set_registration("register")
      [] mpos = "register" -> Proceeds(IF what = TRUE THEN "resting" ELSE "failed")
      [] mpos = "check" -> IF what = Mine THEN Proceeds("resting") ELSE set_registration("reregister")
      [] mpos = "reregister" -> Proceeds("resting")
      [] mpos = "withdraw" -> Proceeds("stopped")

GivenUp ==
    CASE mpos = "probe" -> Proceeds("bind")
      [] mpos = "register" -> Proceeds("failed")
      [] mpos \in {"check", "reregister"} -> Proceeds("resting")
      [] mpos = "withdraw" -> Proceeds("stopped")

(* A refusal, or a reply with another xid, is an error; the probe asks     *)
(* again after a refusal.                                                  *)
Receive ==
    /\ mpos \in Calling /\ mail # <<>>
    /\ LET m == Head(mail)
       IN  IF m.xid = Xid[Proc[mpos]]
           THEN Answered(m.what) /\ withdrawn' = (mpos = "withdraw")
           ELSE /\ IF mpos = "probe" /\ m = Refusal /\ attempts > 0 THEN Again ELSE GivenUp
                /\ UNCHANGED withdrawn
    /\ UNCHANGED <<rpcbind, mapped, udpFaults, restarts>>

(* The wait is over: nothing came of the call, or its answer is late.      *)
Timeout ==
    /\ mpos \in Calling /\ mail = <<>>
    /\ IF \E i \in DOMAIN wire : wire[i].current THEN Fault ELSE UNCHANGED udpFaults
    /\ Again \/ (attempts = 0 /\ GivenUp)
    /\ UNCHANGED <<rpcbind, mapped, withdrawn, restarts>>

-----------------------------------------------------------------------------
(* The program.                                                            *)

Start ==
    /\ mpos = "start" /\ probe
    /\ UNCHANGED <<rpcbind, mapped, withdrawn, udpFaults, restarts>>

(* The tick of maintain_registration.                                      *)
Tick ==
    /\ mpos = "resting" /\ getport
    /\ UNCHANGED <<rpcbind, mapped, withdrawn, udpFaults, restarts>>

run_serving ==
    /\ mpos = "bind"
    /\ Proceeds(IF rpcbind THEN "failed" ELSE "serving")
    /\ UNCHANGED <<rpcbind, mapped, withdrawn, udpFaults, restarts>>

(* The select of run_registered drops maintain_registration in whatever    *)
(* call it is, and the registration is withdrawn.                          *)
StopSignal ==
    /\ \/ mpos \in Maintaining /\ set_registration("withdraw")
       \/ mpos = "serving" /\ Proceeds("stopped")
    /\ UNCHANGED <<rpcbind, mapped, withdrawn, udpFaults, restarts>>

(* The handler is installed by the select: before, the signal kills.       *)
Killed ==
    /\ mpos \in {"start", "probe", "register", "bind"}
    /\ Proceeds("killed")
    /\ UNCHANGED <<rpcbind, mapped, withdrawn, udpFaults, restarts>>

(* Restart=on-failure.                                                     *)
Restart ==
    /\ mpos = "failed" /\ Proceeds("start")
    /\ UNCHANGED <<rpcbind, mapped, withdrawn, udpFaults, restarts>>

PortmapStep == Start \/ Tick \/ run_serving \/ Receive \/ Timeout \/ Restart
Rpcbind == Served \/ Undelivered

PortmapNext == PortmapStep \/ Rpcbind \/ RpcbindGoes \/ RpcbindStarts \/ OtherRegisters \/ StopSignal \/ Killed

(* The program runs, datagrams arrive, and a restarting rpcbind comes      *)
(* back.                                                                   *)
PortmapFairness == WF_portVars(PortmapStep /\ UNCHANGED udpFaults)
                   /\ WF_portVars(Rpcbind /\ UNCHANGED udpFaults) /\ WF_portVars(RpcbindStarts)

PortmapSpec == PortmapInit /\ [][PortmapNext]_portVars /\ PortmapFairness

-----------------------------------------------------------------------------
(* Properties.                                                             *)

Lookup == IF mpos = "serving" THEN dispatch(GetPort, Mappings).body
          ELSE IF rpcbind THEN mapped ELSE 0

(* Clients find no core channel though the program is to see that they do. *)
Unknown == Lookup \notin {Mine, Other} /\ mpos \notin {"withdraw", "stopped", "killed"}

(* A registration that was withdrawn is gone for good: no call of the      *)
(* maintenance the stop interrupted arrives after the UNSET that was       *)
(* answered, and no earlier answer was taken for that one ("withdrawing it *)
(* on shutdown").                                                          *)
Withdrawn == withdrawn => mapped # Mine
=============================================================================

------------------------------ MODULE Loopback ------------------------------
(***************************************************************************)
(* The loopback server of the HTTP hand-offs                               *)
(* (transport/loopback/loopback.go): either a base URL that the shared     *)
(* transport serves, or a listener of its own that is bound on first use.  *)
(*                                                                         *)
(* Every method is one critical section of the server's mutex, except      *)
(* Stop, which shuts down after its unlock what it took under the lock.    *)
(* Those who hand out a URL call EnsureLoopback and then URLFor or Origin, *)
(* with anybody's calls in between.                                        *)
(*                                                                         *)
(* A port is the address of a listener.  External: the operating system    *)
(* binds any port that is not bound, or fails.  A URL is its origin here;  *)
(* path and token are left out.                                            *)
(***************************************************************************)
EXTENDS Integers, Sequences

CONSTANTS
  Ports,   \* what net.Listen can bind
  Bases,   \* base URLs of the shared transport, without a trailing slash
  Trusted  \* origins somebody may add to the accepted ones

(* "none" stands for no URL and no listener. *)
ASSUME LoopbackAssumption == "none" \notin Ports \cup Bases

VARIABLES
  baseURL,         \* l.baseURL, or "none"
  listener,        \* the port of l.listener and l.srv, or "none"
  trustedOrigins,  \* l.trustedOrigins
  bound,           \* ports something listens on
  stopping         \* ports whose server a Stop has taken and not shut down

loopback == <<baseURL, listener, trustedOrigins, bound, stopping>>

LoopbackTypeOK ==
  /\ baseURL \in Bases \cup {"none"}
  /\ listener \in Ports \cup {"none"}
  /\ trustedOrigins \in Seq(Trusted)
  /\ bound \subseteq Ports
  /\ stopping \subseteq Ports

LoopbackInit ==
  /\ baseURL = "none"
  /\ listener = "none"
  /\ trustedOrigins = <<>>
  /\ bound = {}
  /\ stopping = {}

SetBaseURL(url) ==
  /\ baseURL' = url
  /\ UNCHANGED <<listener, trustedOrigins, bound, stopping>>

-----------------------------------------------------------------------------
(* EnsureLoopback: what is served needs no listener. *)
ServedByBase == baseURL # "none"

Served == baseURL # "none" \/ listener # "none"

Bind(p) ==
  /\ p \notin bound
  /\ listener' = p
  /\ bound' = bound \cup {p}
  /\ UNCHANGED <<baseURL, trustedOrigins, stopping>>

EnsureLoopback == \/ Served /\ UNCHANGED loopback
                  \/ ~Served /\ \E p \in Ports : Bind(p)

BindFails == ~Served /\ UNCHANGED loopback

-----------------------------------------------------------------------------
(* Stop, under the lock and after it. *)
StopTakes ==
  /\ listener # "none"
  /\ stopping' = stopping \cup {listener}
  /\ listener' = "none"
  /\ UNCHANGED <<baseURL, trustedOrigins, bound>>

Shutdown(p) ==
  /\ p \in stopping
  /\ stopping' = stopping \ {p}
  /\ bound' = bound \ {p}
  /\ UNCHANGED <<baseURL, listener, trustedOrigins>>

-----------------------------------------------------------------------------
(* The port of no listener, which the code uses before there is one. *)
Placeholder == "127.0.0.1:0"

Origins == Bases \cup Ports \cup {Placeholder}

loopbackAddr == IF listener # "none" THEN listener ELSE Placeholder

(* Origin, and URLFor, whose path is left out. *)
Origin == IF baseURL # "none" THEN baseURL ELSE loopbackAddr

AddTrustedOrigins(o) ==
  /\ trustedOrigins' = IF \E i \in DOMAIN trustedOrigins : trustedOrigins[i] = o
                         THEN trustedOrigins ELSE Append(trustedOrigins, o)
  /\ UNCHANGED <<baseURL, listener, bound, stopping>>

=============================================================================

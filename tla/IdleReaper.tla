----------------------------- MODULE IdleReaper -----------------------------
(***************************************************************************)
(* When the server closes a tunnel for being idle: the activity clock and  *)
(* the stream counter of a TunnelSession (tunnel_manager.rs), the public   *)
(* traffic that moves them (proxy.rs) and reap_idle_tunnels, which judges  *)
(* all tunnels of a kind first and removes them one by one afterwards.     *)
(***************************************************************************)
EXTENDS Integers, FiniteSets

CONSTANTS
  Http, Tcp,     \* tunnels, published from the start
  Visitors,      \* public connections
  IdleTimeout,   \* server.tunnel_idle_timeout_secs, positive (config.rs)
  MaxTime,       \* bound on the clock
  NoTunnel

Tunnels == Http \cup Tcp

ASSUME ReaperAssumption ==
  /\ IdleTimeout \in Nat \ {0} /\ MaxTime \in Nat
  /\ Http \cap Tcp = {} /\ NoTunnel \notin Tunnels
  /\ IsFiniteSet(Visitors)

VARIABLES
  now,             \* Instant::now()
  last_activity,
  active_streams,
  published,       \* tunnels the registry holds
  visit, target,   \* what each visitor does, and on which tunnel
  phase,           \* "sleep", or the kind of tunnel being reaped
  started,         \* the `now` that reap_idle_tunnels was called with
  candidates,      \* tunnels judged idle and not visited yet
  last_in_use      \* history, read by no action: when a request or a stream
                   \* of the tunnel last came to its end

idleVars == <<now, last_activity, active_streams, published, visit, target, phase,
              started, candidates, last_in_use>>

ReaperInit ==
  /\ now = 0
  /\ last_activity = [t \in Tunnels |-> 0]
  /\ active_streams = [t \in Tunnels |-> 0]
  /\ published = Tunnels
  /\ visit = [v \in Visitors |-> "out"]
  /\ target = [v \in Visitors |-> NoTunnel]
  /\ phase = "sleep" /\ started = 0 /\ candidates = {}
  /\ last_in_use = [t \in Tunnels |-> 0]

touch(t) == last_activity' = [last_activity EXCEPT ![t] = now]

(* Mutant: open streams do not count. *)
IdleDespiteStreams(t, at) == at - last_activity[t] >= IdleTimeout

(* is_idle *)
Idle(t, at) == active_streams[t] = 0 /\ at - last_activity[t] >= IdleTimeout

reaperVars == <<phase, started, candidates>>

Tick ==
  /\ now < MaxTime /\ now' = now + 1
  /\ UNCHANGED <<last_activity, active_streams, published, visit, target, reaperVars,
                 last_in_use>>

-----------------------------------------------------------------------------
(* HTTP: the tunnel is looked up, and touched once basic auth has passed.  *)
(* The request is not counted as a stream and does not touch at its end.   *)

HttpRequest(v, t) ==
  /\ visit[v] = "out" /\ t \in published \cap Http
  /\ visit' = [visit EXCEPT ![v] = "auth"] /\ target' = [target EXCEPT ![v] = t]
  /\ UNCHANGED <<now, last_activity, active_streams, published, reaperVars, last_in_use>>

HttpAuthorized(v) ==
  /\ visit[v] = "auth"
  /\ visit' = [visit EXCEPT ![v] = "in"] /\ touch(target[v])
  /\ UNCHANGED <<now, active_streams, published, target, reaperVars, last_in_use>>

HttpUnauthorized(v) ==
  /\ visit[v] = "auth"
  /\ visit' = [visit EXCEPT ![v] = "done"]
  /\ UNCHANGED <<now, last_activity, active_streams, published, target, reaperVars,
                 last_in_use>>

HttpResponse(v) ==
  /\ visit[v] = "in" /\ target[v] \in Http
  /\ visit' = [visit EXCEPT ![v] = "done"]
  /\ last_in_use' = [last_in_use EXCEPT ![target[v]] = now]
  /\ UNCHANGED <<now, last_activity, active_streams, published, target, reaperVars>>

(* TCP: the listener accepts and touches; the spawned task counts itself,  *)
(* and touches again after each change of the counter.                     *)

TcpAccept(v, t) ==
  /\ visit[v] = "out" /\ t \in published \cap Tcp
  /\ visit' = [visit EXCEPT ![v] = "accepted"] /\ target' = [target EXCEPT ![v] = t]
  /\ touch(t)
  /\ UNCHANGED <<now, active_streams, published, reaperVars, last_in_use>>

CountStream(v, from, to, d) ==
  /\ visit[v] = from /\ target[v] \in Tcp
  /\ visit' = [visit EXCEPT ![v] = to]
  /\ active_streams' = [active_streams EXCEPT ![target[v]] = @ + d]
  /\ last_in_use' = IF d < 0 THEN [last_in_use EXCEPT ![target[v]] = now] ELSE last_in_use
  /\ UNCHANGED <<now, last_activity, published, target, reaperVars>>

TouchStream(v, from, to) ==
  /\ visit[v] = from
  /\ visit' = [visit EXCEPT ![v] = to] /\ touch(target[v])
  /\ UNCHANGED <<now, active_streams, published, target, reaperVars, last_in_use>>

(* Mutants: the end of a stream does not touch, or is not counted. *)
stream_finished_untouched(v) == CountStream(v, "in", "done", -1)
stream_finished_uncounted(v) == target[v] \in Tcp /\ TouchStream(v, "in", "done")

stream_started(v) == CountStream(v, "accepted", "starting", 1) \/ TouchStream(v, "starting", "in")
stream_finished(v) == CountStream(v, "in", "ending", -1) \/ TouchStream(v, "ending", "done")

-----------------------------------------------------------------------------
(* reap_idle_tunnels: HTTP tunnels, then TCP tunnels, against the time at  *)
(* which the whole pass began.                                             *)

ScanHttp ==
  /\ phase = "sleep" /\ phase' = "http"
  /\ started' = now
  /\ candidates' = {t \in published \cap Http : Idle(t, now)}
  /\ UNCHANGED <<now, last_activity, active_streams, published, visit, target, last_in_use>>

ScanTcp ==
  /\ phase = "http" /\ candidates = {} /\ phase' = "tcp"
  /\ candidates' = {t \in published \cap Tcp : Idle(t, started)}
  /\ UNCHANGED <<now, last_activity, active_streams, published, visit, target, started,
                 last_in_use>>

(* unregister_tunnel_if_owner, shutdown_tcp_tunnel_if_owner: not judged    *)
(* again; nothing happens when the tunnel has gone in the meantime.        *)
Reap(t) ==
  /\ t \in candidates
  /\ candidates' = candidates \ {t}
  /\ published' = published \ {t}
  /\ UNCHANGED <<now, last_activity, active_streams, visit, target, phase, started,
                 last_in_use>>

ScanEnds ==
  /\ phase = "tcp" /\ candidates = {} /\ phase' = "sleep"
  /\ UNCHANGED <<now, last_activity, active_streams, published, visit, target, started,
                 candidates, last_in_use>>

(* The client of a tunnel disconnects. *)
SessionEnds(t) ==
  /\ t \in published /\ published' = published \ {t}
  /\ UNCHANGED <<now, last_activity, active_streams, visit, target, reaperVars, last_in_use>>

-----------------------------------------------------------------------------
ReaperStep == ScanHttp \/ ScanTcp \/ ScanEnds \/ \E t \in Tunnels : Reap(t)

VisitorStep(v) ==
  \/ \E t \in Tunnels : HttpRequest(v, t) \/ TcpAccept(v, t)
  \/ HttpAuthorized(v) \/ HttpUnauthorized(v) \/ HttpResponse(v)
  \/ stream_started(v) \/ stream_finished(v)

ReaperNext ==
  \/ Tick \/ ReaperStep
  \/ \E v \in Visitors : VisitorStep(v)
  \/ \E t \in Tunnels : SessionEnds(t)

ReaperSpec == ReaperInit /\ [][ReaperNext]_idleVars

(* Time passes and the interval of control.rs:45 ticks for ever. *)
ReaperFairness == WF_idleVars(Tick) /\ WF_idleVars(ReaperStep)

FairReaperSpec == ReaperSpec /\ ReaperFairness

-----------------------------------------------------------------------------
ReaperTypeOK ==
  /\ now \in 0..MaxTime /\ started \in 0..now
  /\ last_activity \in [Tunnels -> 0..now] /\ last_in_use \in [Tunnels -> 0..now]
  /\ active_streams \in [Tunnels -> Nat]
  /\ published \subseteq Tunnels /\ candidates \subseteq Tunnels
  /\ visit \in [Visitors -> {"out", "auth", "accepted", "starting", "in", "ending", "done"}]
  /\ target \in [Visitors -> Tunnels \cup {NoTunnel}]
  /\ phase \in {"sleep", "http", "tcp"}

Judged == candidates' \ candidates

UnusedSince(t, at) ==
  /\ \A v \in Visitors : ~(target[v] = t /\ visit[v] = "in")
  /\ last_in_use[t] + IdleTimeout <= at

(* tunnel_manager.rs:449 "Remove tunnels with no public traffic or active  *)
(* streams for the configured idle period": a TCP tunnel judged idle has   *)
(* no stream open and had none for the whole period, however many begin    *)
(* and end around the two scans and although the tunnels are held against  *)
(* the time at which the pass began.  The only exception is the code's own *)
(* window: stream_finished decrements before it touches                    *)
(* (tunnel_manager.rs:603), and a scan in between sees no stream and the   *)
(* time at which it began, so it judges a tunnel idle that was in use a    *)
(* moment ago.  Of HTTP tunnels the comment does not hold: a request is no *)
(* stream for active_streams and touches only at its start (proxy.rs:253), *)
(* so one that takes longer than the period does not keep its tunnel.      *)
EndedStreamsCount ==
  [][\A t \in Judged \cap Tcp :
       \/ UnusedSince(t, started')
       \/ \E v \in Visitors : target[v] = t /\ visit[v] = "ending"]_idleVars

(* A TCP tunnel with a running stream is a candidate only if that stream   *)
(* began after the pass: an open stream keeps its tunnel however quiet it  *)
(* is (active_streams, tunnel_manager.rs:609).                             *)
StreamsKeepTcpTunnels ==
  \A t \in candidates \cap Tcp, v \in Visitors :
    target[v] = t /\ visit[v] = "in" => last_activity[t] >= started

HasStream(t) == t \in Tcp /\ \E v \in Visitors : target[v] = t /\ visit[v] \in {"starting", "in"}

(* docs/rgrok-spec.md:917 "Maximum tunnel idle time before server closes   *)
(* it": a tunnel that stays without traffic is closed, unless one of its   *)
(* TCP streams is really open: the counter of tunnel_manager.rs:598-606,   *)
(* which tasks of several streams change without a lock, must not drift.   *)
UnusedTunnelsClose ==
  \A t \in Tunnels : t \in published ~>
    \/ t \notin published
    \/ HasStream(t)
    \/ last_activity[t] + IdleTimeout > MaxTime

=============================================================================

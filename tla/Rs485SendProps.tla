---------------------------- MODULE Rs485SendProps ----------------------------
(***************************************************************************)
(* What sending over RS-485 is meant to guarantee.                         *)
(***************************************************************************)
EXTENDS Rs485Send

\* What a call can carry.
Requests == [channel : Channels \union {r.channel : r \in RawRequests}, data : Seq(Byte)]

\* What its caller is told; STATUS is a call that ended without a response.
Codes ==
  {"NONE", "STATUS", "NO_ERROR", "INVALID_DATA", "DRIVER_NOT_CONNECTED", "DRIVER_NO_REPLY",
   "DRIVER_TIMEOUT", "DRIVER_ERROR", "INTERNAL_ERROR"}

\* The state has its types.
TypeOK ==
  /\ disk \in [Files -> Contents] /\ path \in [Tabs -> Files \union {NoFile}]
  /\ enabled \in [Tabs -> BOOLEAN]
  /\ typed \in [Tabs -> Texts \union {<< >>}] /\ channel \in [Tabs -> Channels]
  /\ stage \in [Callers -> {"none", "service", "driver", "answer"}]
  /\ wire \in [Callers -> {"none", "sent", "transmitted", "answered", "ended", "lost"}]
  /\ asked \in [Callers -> Requests] /\ transmitted \in [Callers -> Seq(Requests)]
  /\ reply \in [Callers -> Replies]
  /\ response \in [Callers -> [success : BOOLEAN, channel : Int, code : Codes]]
  /\ calm \in [Callers -> BOOLEAN] /\ serving \in BOOLEAN /\ up \in BOOLEAN
  /\ label \in [Tabs -> {"none", "chosen", "exception", "sent", "error"}]
  /\ log \in [Tabs -> [source : Files \union {NoFile}, data : Texts \union {<< >>},
                       channel : Int, success : BOOLEAN]]
  /\ faults \in Nat /\ edits \in Nat

\* The handler of the button reports what it was told.
Tells(g, said) == stage[g] = "answer" /\ stage'[g] = "none" /\ label'[g] = said

\* "Sent" is the truth, and so are the form and the log next to it: the driver
\* transmitted the call once, on the channel of the form, and accepted it; its
\* bytes are the typed ones where the form shows any, and a chosen file's where
\* it does not.
SentIsTrue ==
  [][\A g \in Tabs : Tells(g, "sent") =>
       /\ transmitted[g] = <<[channel |-> channel[g], data |-> asked[g].data]>>
       /\ Accepted(reply[g])
       /\ asked[g].data = IF typed[g] # << >> THEN typed[g] ELSE disk[path[g]]
       /\ log'[g] = [source |-> path[g], data |-> typed[g], success |-> TRUE,
                     channel |-> reply[g].response.channel]]_vars

\* A failure is no false alarm: as long as nothing dies, a call the driver
\* accepted is never reported as failed, nor its driver as not connected; and
\* data reported as invalid never reached the driver.  A failure without an
\* error code is the driver's own: it refused without one.
FailureIsTrue ==
  \A c \in Callers : stage[c] = "answer" /\ ~response[c].success =>
    /\ calm[c] => ~Accepted(reply[c])
    /\ response[c].code = "INVALID_DATA" => wire[c] = "none" /\ transmitted[c] = << >>
    /\ response[c].code = "NO_ERROR" => ~reply[c].response.success

\* One press transmits at most once, whatever dies on the way, and a press that
\* the client refuses transmits nothing.
OncePerPress ==
  \A c \in Callers :
    /\ Len(transmitted[c]) <= 1
    /\ stage[c] = "none" => transmitted[c] = << >> /\ wire[c] = "none"

\* A press is answered, although no call has a deadline.
PressReturns == \A g \in Tabs : stage[g] # "none" ~> stage[g] = "none"
=============================================================================

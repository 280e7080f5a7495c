------------------------------- MODULE Tickets -------------------------------
(***************************************************************************)
(* Resume tokens (resume.rs) over the connections of two devices: the      *)
(* issuer hands the holder a token on each session it promotes; the holder *)
(* presents it on its next connection, and what the user allowed before    *)
(* the interruption starts again without a second prompt.                  *)
(*                                                                         *)
(* Both devices may dial at a time.  A connection is preferred when the    *)
(* device with the lower id dialed it; each device picks a survivor for    *)
(* itself, in the order in which its connections become established.       *)
(***************************************************************************)
EXTENDS Naturals, FiniteSets

CONSTANTS
  Conns,     \* connections, numbered in the order they are dialed
  Lifetime,  \* TOKEN_LIFETIME
  Grant,     \* RESUME_GRANT
  MaxTime    \* bound on time

VARIABLES
  now,
  conn,      \* conn[c]: "new", "open", "closed"
  preferred, \* connections dialed by the device with the lower id
  hello,     \* hello[c]: the token the holder presents on c, 0 for none
  seen,      \* seen[d]: connections device d has seen established
  session,   \* session[d]: the connection of d's session (0: none) and since when
  issued,    \* the token the issuer would accept (0: none) and its end
  held,      \* the token the holder would present, and its end
  grant,     \* the end of the grant, 0 for none
  ticket,    \* ticket[c]: SessionTicket in flight on c, 0 for none
  uses,      \* uses[t]: how often token t was accepted
  tokens,    \* tokens issued so far
  trusted    \* the issuer trusts the holder

tokenStore == <<issued, held, grant, ticket, uses, tokens>>
links == <<conn, preferred, hello, seen, session>>
vars == <<now, links, tokenStore, trusted>>

Devices == {"issuer", "holder"}
None == [token |-> 0, until |-> 0]
NoSession == [conn |-> 0, at |-> 0]

Init ==
  /\ now = 0 /\ conn = [c \in Conns |-> "new"] /\ preferred = {} /\ hello = [c \in Conns |-> 0]
  /\ seen = [d \in Devices |-> {}] /\ session = [d \in Devices |-> NoSession]
  /\ issued = None /\ held = None /\ grant = 0
  /\ ticket = [c \in Conns |-> 0] /\ uses = [t \in Conns |-> 0] /\ tokens = 0 /\ trusted = TRUE

----------------------------------------------------------------------------
(* Connections.                                                            *)

\* held_for: the token goes into the Hello and stays held.
HeldFor == IF now < held.until THEN held.token ELSE 0

\* A connection is made by one device or the other; its Hellos are exchanged.
Dial(c) ==
  /\ conn[c] = "new" /\ \A x \in Conns : x < c => conn[x] # "new"
  /\ conn' = [conn EXCEPT ![c] = "open"] /\ hello' = [hello EXCEPT ![c] = HeldFor]
  /\ preferred' \in {preferred, preferred \cup {c}}
  /\ UNCHANGED <<now, seen, session, tokenStore, trusted>>

\* promote_session: the tie-break; "young" is less than five seconds old.
Refuses(d, c) ==
  /\ session[d].conn # 0 /\ session[d].at = now
  /\ session[d].conn \in preferred /\ c \notin preferred

Promotes(d, c) ==
  /\ session' = [session EXCEPT ![d] = [conn |-> c, at |-> now]]
  /\ conn' = [x \in Conns |-> IF x = session[d].conn THEN "closed" ELSE conn[x]]

\* Bug: the token is handed out before the tie is decided.
IssuesAlways(c) == TRUE

Issues(c) == ~Refuses("issuer", c)

\* ResumeTokens::issue: a fresh token in place of the earlier one, and the ticket.
Issue(c, valid) ==
  IF Issues(c)
  THEN /\ tokens' = tokens + 1 /\ issued' = [token |-> tokens + 1, until |-> now + Lifetime]
       /\ ticket' = [ticket EXCEPT ![c] = tokens + 1]
  ELSE /\ issued' = IF valid THEN None ELSE issued
       /\ UNCHANGED <<tokens, ticket>>

\* Bug: an accepted token stays in the store.
Kept(c) == FALSE

\* ResumeTokens::redeem: the token is removed first.
Redeemed(c) == hello[c] # 0 /\ issued.token = hello[c]

\* on_established of the issuer; the Hello is read once.
IssuerEstablished(c) ==
  /\ conn[c] # "new" /\ c \notin seen["issuer"] /\ seen' = [seen EXCEPT !["issuer"] = @ \cup {c}]
  /\ IF ~trusted
     THEN /\ conn' = [conn EXCEPT ![c] = "closed"] /\ UNCHANGED <<session, tokenStore>>
     ELSE /\ LET valid == hello[c] # 0 /\ issued.token = hello[c] /\ now < issued.until
             IN /\ grant' = IF valid THEN now + Grant ELSE grant
                /\ uses' = IF valid THEN [uses EXCEPT ![hello[c]] = @ + 1] ELSE uses
                /\ Issue(c, Redeemed(c))
          /\ IF Refuses("issuer", c)
             THEN conn' = [conn EXCEPT ![c] = "closed"] /\ UNCHANGED session
             ELSE Promotes("issuer", c)
          /\ UNCHANGED held
  /\ hello' = [hello EXCEPT ![c] = 0]
  /\ UNCHANGED <<now, preferred, trusted>>

HolderEstablished(c) ==
  /\ conn[c] # "new" /\ c \notin seen["holder"] /\ seen' = [seen EXCEPT !["holder"] = @ \cup {c}]
  /\ IF Refuses("holder", c)
     THEN conn' = [conn EXCEPT ![c] = "closed"] /\ UNCHANGED session
     ELSE Promotes("holder", c)
  /\ UNCHANGED <<now, preferred, hello, tokenStore, trusted>>

\* The network breaks the connection of a session; a device learns that its session's connection is closed.
Breaks(c) ==
  /\ conn[c] = "open" /\ \E d \in Devices : session[d].conn = c
  /\ conn' = [conn EXCEPT ![c] = "closed"]
  /\ UNCHANGED <<now, preferred, hello, seen, session, tokenStore, trusted>>
OnClosed(d) ==
  /\ session[d].conn # 0 /\ conn[session[d].conn] = "closed"
  /\ session' = [session EXCEPT ![d] = NoSession]
  /\ UNCHANGED <<now, conn, preferred, hello, seen, tokenStore, trusted>>

----------------------------------------------------------------------------
(* Tickets.                                                                *)

\* Bug: a ticket counts whichever connection it came on.
CurrentAny(c) == TRUE

Current(c) == session["holder"].conn = c

\* Body::SessionTicket at the holder.
Hold(c) ==
  /\ ticket[c] # 0 /\ c \in seen["holder"] /\ ticket' = [ticket EXCEPT ![c] = 0]
  /\ held' = IF Current(c) THEN [token |-> ticket[c], until |-> now + Lifetime] ELSE held
  /\ UNCHANGED <<now, links, issued, grant, uses, tokens, trusted>>
\* A closed connection loses it.
Lost(c) ==
  /\ ticket[c] # 0 /\ conn[c] = "closed" /\ ticket' = [ticket EXCEPT ![c] = 0]
  /\ UNCHANGED <<now, links, issued, held, grant, uses, tokens, trusted>>

\* Bug: a grant survives the trust it was given under.
ForgetTokens == UNCHANGED grant

ForgetGrants == grant' = 0

\* revoke: ResumeTokens::forget, and the session is closed.
Revoke ==
  /\ trusted /\ trusted' = FALSE /\ issued' = None /\ ForgetGrants
  /\ conn' = [x \in Conns |-> IF x = session["issuer"].conn THEN "closed" ELSE conn[x]]
  /\ session' = [session EXCEPT !["issuer"] = NoSession]
  /\ UNCHANGED <<now, preferred, hello, seen, held, ticket, uses, tokens>>
Pair ==
  /\ ~trusted /\ trusted' = TRUE
  /\ UNCHANGED <<now, links, tokenStore>>

\* ResumeTokens::prune, every second.
Live(x) == IF now + 1 < x.until THEN x ELSE None
Tick ==
  /\ now < MaxTime /\ now' = now + 1
  /\ issued' = Live(issued) /\ held' = Live(held) /\ grant' = IF now + 1 < grant THEN grant ELSE 0
  /\ UNCHANGED <<links, ticket, uses, tokens, trusted>>

Next ==
  \/ \E c \in Conns : \/ Dial(c) \/ IssuerEstablished(c) \/ HolderEstablished(c)
                       \/ Breaks(c) \/ Hold(c) \/ Lost(c)
  \/ \E d \in Devices : OnClosed(d)
  \/ Revoke \/ Pair \/ Tick

Spec == Init /\ [][Next]_vars

----------------------------------------------------------------------------

TypeOK ==
  /\ now \in 0..MaxTime /\ conn \in [Conns -> {"new", "open", "closed"}]
  /\ hello \in [Conns -> 0..Cardinality(Conns)] /\ tokens \in 0..Cardinality(Conns)
  /\ \A d \in Devices : session[d].conn \in Conns \cup {0}
  /\ grant \in 0..(MaxTime + Grant) /\ trusted \in BOOLEAN

\* A token is accepted once, also when both dials of a tie present it, and a grant ends with
\* the trust it was given under.
AcceptedOnce == (\A t \in Conns : uses[t] <= 1) /\ (now < grant => trusted)

\* Once both devices have the same session and its ticket has arrived, the token the holder
\* keeps is the one the issuer will accept: through ties, tickets that arrive late on the
\* connection that lost, and interruptions.
TicketsMatch ==
  /\ session["issuer"].conn # 0 /\ session["issuer"].conn = session["holder"].conn
  /\ conn[session["issuer"].conn] = "open" /\ ticket[session["issuer"].conn] = 0
  /\ issued # None /\ held # None
  => held.token = issued.token
=============================================================================

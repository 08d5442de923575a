----------------------------- MODULE AlbumAccess -----------------------------
(***************************************************************************)
(* Who may see an album: its password and password_version as the publish  *)
(* API and the admin CLI write them (internal/api/publish_albums.go,       *)
(* cmd/smugbox/admin.go), the grants in a browser's session cookie         *)
(* (internal/api/unlock.go, internal/auth/cookie.go) and the limit on      *)
(* unlock attempts (RateLimiter).                                          *)
(*                                                                         *)
(* Every change of an album loads the row, hashes for a third of a second, *)
(* and writes every column back; an unlock reads the row, compares for as  *)
(* long, and answers with a whole new cookie.                              *)
(***************************************************************************)
EXTENDS RateLimiter, Sequences, SequencesExt

CONSTANTS
  Album,      \* album ids; a uuid is never given twice
  SlugOf,     \* the slug each one is created under
  Password,
  Browser,
  AddressOf,  \* the address each browser's requests come from
  Proxy,      \* the address of the trusted proxy
  Forged,     \* what a client may write into X-Forwarded-For
  Writer,     \* requests of the publish API and runs of the admin CLI
  Attempt,    \* unlock requests
  Change,     \* what the PUTs and the runs of set-password ask for
  MaxGrants,
  TTL,        \* sessionTTL, in the limiter's unit of time
  MaxEvents   \* bound on requests, restarts and units of time

Slug == {SlugOf[a] : a \in Album}
Address == {AddressOf[b] : b \in Browser}
Row == [pw : Password \cup {None}, ver : Nat, listed : BOOLEAN]
Grant == [album : Album, ver : Nat]
Session == [exp : Nat, grants : Seq(Grant)]

\* A change asks for a password, "clear" or "keep", and tells whether the other
\* columns (listed stands for them) are changed as well; the CLI knows none.
ASSUME AccessAssumption ==
  /\ Change \subseteq [pw : Password \cup {"clear", "keep"}, relist : BOOLEAN, cli : BOOLEAN]
  /\ \A c \in Change : c.cli => c.pw # "keep" /\ ~c.relist
  /\ Key = (Address \cup Forged) \X Slug
  /\ MaxEvents \in Nat /\ MaxGrants \in Nat \ {0} /\ TTL \in Nat \ {0}
  /\ Proxy \notin Address /\ Forged \cap (Address \cup {Proxy}) = {}
  /\ {"clear", "keep"} \cap Password = {}
  /\ None \notin Row \cup Password \cup Album \cup Session \cup [id : Album, row : Row]

VARIABLES
  rows,    \* the albums table
  used,    \* album ids given so far
  at,      \* how far each writer and attempt is
  loaded,  \* the row a writer has loaded, with its id
  change,  \* what it is going to change
  cookie,  \* the session each browser holds
  try,     \* an attempt's browser, slug, password and cookie as sent
  found,   \* the row it found, with its id
  reply,   \* the session it answers with
  typed,   \* history: the passwords each browser has presented, with the slug
  restarts, \* of the server, to bound them
  lost     \* history: a write has overwritten a row changed since its load

table == <<rows, used>>
writing == <<loaded, change>>
unlocking == <<cookie, try, found, reply, typed>>
accessVars == <<table, at, writing, unlocking, restarts, lost>>
vars == <<limiter, accessVars>>

Protected(row) == row.pw # None
Live == {a \in Album : rows[a] # None}

NoTry == [browser |-> None, slug |-> None, pw |-> None, cookie |-> None]

\* A server may start on any table with distinct slugs, and the browsers have
\* unlocked nothing yet.
Init ==
  /\ LimiterInit
  /\ \E live \in SUBSET Album, pw \in [Album -> Password \cup {None}] :
       /\ \A a, b \in live : SlugOf[a] = SlugOf[b] => a = b
       /\ rows = [a \in Album |->
            IF a \in live THEN [pw |-> pw[a], ver |-> IF pw[a] = None THEN 0 ELSE 1, listed |-> TRUE]
            ELSE None]
       /\ \A a \in Album \ live : pw[a] = None
       /\ used = live
  /\ at = [x \in Writer \cup Attempt |-> "start"]
  /\ loaded = [w \in Writer |-> None] /\ change = [w \in Writer |-> None]
  /\ cookie = [b \in Browser |-> None]
  /\ try = [u \in Attempt |-> NoTry]
  /\ found = [u \in Attempt |-> None] /\ reply = [u \in Attempt |-> None]
  /\ typed = [b \in Browser |-> {}]
  /\ restarts = 0 /\ lost = FALSE

\* One more thing may happen besides the steps of what has begun.
More == Cardinality({x \in Writer \cup Attempt : at[x] # "start"}) + now + restarts < MaxEvents

Goto(x, pos) == at' = [at EXCEPT ![x] = pos]
-----------------------------------------------------------------------------
(***************************************************************************)
(* Changes of an album.                                                    *)
(***************************************************************************)

\* createAlbum: a fresh id and version 1 if it has a password; its slug is free.
Create(w, a, pw) ==
  /\ at[w] = "start" /\ More /\ a \notin used
  /\ \A b \in Live : SlugOf[b] # SlugOf[a]
  /\ used' = used \cup {a}
  /\ rows' = [rows EXCEPT ![a] = [pw |-> pw, ver |-> IF pw = None THEN 0 ELSE 1, listed |-> TRUE]]
  /\ Goto(w, "done")
  /\ UNCHANGED <<limiter, writing, unlocking, restarts, lost>>

\* albumFromPath, or GetAlbumBySlug of the CLI.
Load(w, a, c) ==
  /\ at[w] = "start" /\ More /\ a \in Live
  /\ Goto(w, "write")
  /\ loaded' = [loaded EXCEPT ![w] = [id |-> a, row |-> rows[a]]]
  /\ change' = [change EXCEPT ![w] = c]
  /\ UNCHANGED <<limiter, table, unlocking, restarts, lost>>

\* Mutant of UpdatedPassword: only a change of the protection bumps the version.
UpdatedNoBump(row, pw) ==
  IF pw = "keep" \/ (pw = "clear" /\ ~Protected(row)) \/ pw = row.pw THEN row
  ELSE [row EXCEPT !.pw = IF pw = "clear" THEN None ELSE pw,
                   !.ver = IF Protected(row) /\ pw # "clear" THEN @ ELSE @ + 1]

\* Mutant of UpdatedPassword: the same password is hashed anew.
UpdatedAlways(row, pw) ==
  IF pw = "keep" \/ (pw = "clear" /\ ~Protected(row)) THEN row
  ELSE [row EXCEPT !.pw = IF pw = "clear" THEN None ELSE pw, !.ver = @ + 1]

\* The password columns updateAlbum writes: removing a protection or setting
\* another password bumps the version, the same password leaves it alone.
UpdatedPassword(row, pw) ==
  IF pw = "keep" \/ (pw = "clear" /\ ~Protected(row)) \/ pw = row.pw THEN row
  ELSE [row EXCEPT !.pw = IF pw = "clear" THEN None ELSE pw, !.ver = @ + 1]

\* set-password and set-password --clear bump it always.
CliPassword(row, pw) == [row EXCEPT !.pw = IF pw = "clear" THEN None ELSE pw, !.ver = @ + 1]

Patched(row, c) ==
  LET r == IF c.cli THEN CliPassword(row, c.pw) ELSE UpdatedPassword(row, c.pw)
  IN  [r EXCEPT !.listed = IF c.relist THEN ~@ ELSE @]

\* UpdateAlbum writes every column; without the row it finds nothing to write.
Write(w) ==
  LET a == loaded[w].id
  IN /\ at[w] = "write"
     /\ IF a \in Live
        THEN /\ rows' = [rows EXCEPT ![a] = Patched(loaded[w].row, change[w])]
             /\ lost' = (lost \/ rows[a] # loaded[w].row)
        ELSE UNCHANGED <<rows, lost>>
     /\ Goto(w, "done")
     /\ loaded' = [loaded EXCEPT ![w] = None] /\ change' = [change EXCEPT ![w] = None]
     /\ UNCHANGED <<limiter, used, unlocking, restarts>>

\* deleteAlbum, by the API or the CLI.
Delete(w, a) ==
  /\ at[w] = "start" /\ More /\ a \in Live
  /\ rows' = [rows EXCEPT ![a] = None]
  /\ Goto(w, "done")
  /\ UNCHANGED <<limiter, used, writing, unlocking, restarts, lost>>
-----------------------------------------------------------------------------
(***************************************************************************)
(* Unlocking.                                                              *)
(***************************************************************************)

\* Mutant of ClientIP: the first entry is taken.
ClientIPFirst(peer, forwarded) ==
  IF peer = Proxy /\ forwarded # <<>> THEN Head(forwarded) ELSE peer

\* The address a request is limited under: X-Forwarded-For counts only when the
\* peer is the trusted proxy, and then only its last entry.
ClientIP(peer, forwarded) ==
  IF peer = Proxy /\ forwarded # <<>> THEN Last(forwarded) ELSE peer

\* The peers and headers the server may see of a browser, which may write a
\* header itself: it comes directly, or through the proxy, which appends the
\* address it has.
Arrivals(b) ==
  LET written == {<<>>} \cup {<<x>> : x \in Forged}
  IN  {<<AddressOf[b], h>> : h \in written} \cup {<<Proxy, Append(h, AddressOf[b])>> : h \in written}

Limited(b) == {ClientIP(via[1], via[2]) : via \in Arrivals(b)}

\* A browser asks for an album with the cookie it has now.
Send(u, b, s, pw) ==
  /\ at[u] = "start" /\ More
  /\ Goto(u, "arrive")
  /\ try' = [try EXCEPT ![u] = [browser |-> b, slug |-> s, pw |-> pw, cookie |-> cookie[b]]]
  /\ typed' = [typed EXCEPT ![b] = @ \cup {<<s, pw>>}]
  /\ UNCHANGED <<limiter, table, writing, cookie, found, reply, restarts, lost>>

\* The attempt ends without a cookie.
Deny(u, pos) == /\ Goto(u, pos)
                /\ try' = [try EXCEPT ![u] = NoTry]
                /\ found' = [found EXCEPT ![u] = None]
                /\ UNCHANGED <<cookie, reply, typed>>

\* The limiter lets it through, and the row is read: nothing looks at either
\* step's outcome in between.  A public album needs no password; an unknown slug
\* is compared with a hash that matches nothing.
Check(u, key) ==
  /\ \/ Refused(key) /\ Deny(u, "limited")
     \/ /\ Allowed(key)
        /\ \/ \E a \in Live : /\ SlugOf[a] = try[u].slug /\ Protected(rows[a])
                              /\ Goto(u, "compare")
                              /\ found' = [found EXCEPT ![u] = [id |-> a, row |-> rows[a]]]
                              /\ UNCHANGED <<cookie, try, reply, typed>>
           \/ /\ ~\E a \in Live : SlugOf[a] = try[u].slug /\ Protected(rows[a])
              /\ Deny(u, "done")
  /\ UNCHANGED <<table, writing, restarts, lost>>

Arrive(u) ==
  /\ at[u] = "arrive"
  /\ \E ip \in Limited(try[u].browser) : Check(u, <<ip, try[u].slug>>)

\* The grants for other albums.
Others(grants, a) ==
  LET kept[n \in 0..Len(grants)] ==
        IF n = 0 THEN <<>>
        ELSE IF grants[n].album = a THEN kept[n - 1] ELSE Append(kept[n - 1], grants[n])
  IN  kept[Len(grants)]

\* Session.Add: the newest grant for this album, and the newest MaxGrants.
Add(grants, a, ver) ==
  LET kept == Append(Others(grants, a), [album |-> a, ver |-> ver])
  IN  IF Len(kept) > MaxGrants THEN SubSeq(kept, Len(kept) - MaxGrants + 1, Len(kept)) ELSE kept

\* Decode refuses a session that has expired.
Valid(sess) == sess # None /\ sess.exp > now

\* Mutant of Answer: the version is that of the row as it is now.
AnswerReadsAgain(u) ==
  /\ at[u] = "compare"
  /\ IF try[u].pw = found[u].row.pw /\ rows[found[u].id] # None
     THEN /\ Goto(u, "reply")
          /\ reply' = [reply EXCEPT ![u] =
               [exp |-> now + TTL,
                grants |-> Add(IF Valid(try[u].cookie) THEN try[u].cookie.grants ELSE <<>>,
                               found[u].id, rows[found[u].id].ver)]]
          /\ found' = [found EXCEPT ![u] = None]
          /\ UNCHANGED <<cookie, try, typed>>
     ELSE Deny(u, "done")
  /\ UNCHANGED <<limiter, table, writing, restarts, lost>>

\* The password is compared with the row found above; a match is answered with
\* the grants of the cookie that was sent and the new one.
Answer(u) ==
  /\ at[u] = "compare"
  /\ IF try[u].pw = found[u].row.pw
     THEN /\ Goto(u, "reply")
          /\ reply' = [reply EXCEPT ![u] =
               [exp |-> now + TTL,
                grants |-> Add(IF Valid(try[u].cookie) THEN try[u].cookie.grants ELSE <<>>,
                               found[u].id, found[u].row.ver)]]
          /\ found' = [found EXCEPT ![u] = None]
          /\ UNCHANGED <<cookie, try, typed>>
     ELSE Deny(u, "done")
  /\ UNCHANGED <<limiter, table, writing, restarts, lost>>

\* The browser takes the new cookie for the old one, or never sees the answer.
Receive(u) ==
  /\ at[u] = "reply"
  /\ cookie' \in {cookie, [cookie EXCEPT ![try[u].browser] = reply[u]]}
  /\ Goto(u, "done")
  /\ try' = [try EXCEPT ![u] = NoTry] /\ reply' = [reply EXCEPT ![u] = None]
  /\ UNCHANGED <<limiter, table, writing, found, typed, restarts, lost>>

Time == More /\ Tick /\ UNCHANGED accessVars

\* The server is restarted: what it has not answered yet is gone, the limiter
\* forgets, the cookies stay good (the secret is in the database).  The CLI is a
\* process of its own and goes on.
Cli(w) == at[w] = "write" /\ change[w].cli

Restart ==
  /\ More /\ Forget
  /\ restarts' = restarts + 1
  /\ at' = [x \in Writer \cup Attempt |->
       IF at[x] \in {"start", "reply"} \/ (x \in Writer /\ Cli(x)) THEN at[x] ELSE "done"]
  /\ loaded' = [w \in Writer |-> IF Cli(w) THEN loaded[w] ELSE None]
  /\ change' = [w \in Writer |-> IF Cli(w) THEN change[w] ELSE None]
  /\ try' = [u \in Attempt |-> IF at[u] = "reply" THEN try[u] ELSE NoTry]
  /\ found' = [u \in Attempt |-> None]
  /\ UNCHANGED <<table, cookie, reply, typed, lost>>

Next ==
  \/ Time \/ Restart
  \/ \E w \in Writer :
       \/ Write(w)
       \/ \E a \in Album : \/ Delete(w, a)
                           \/ \E pw \in Password \cup {None} : Create(w, a, pw)
                           \/ \E c \in Change : Load(w, a, c)
  \/ \E u \in Attempt :
       \/ Arrive(u) \/ Answer(u) \/ Receive(u)
       \/ \E b \in Browser, s \in Slug, pw \in Password : Send(u, b, s, pw)

Spec == Init /\ [][Next]_vars
-----------------------------------------------------------------------------
(***************************************************************************)
(* What visitors see, and the properties.                                  *)
(***************************************************************************)

Granted(sess, a, ver) == [album |-> a, ver |-> ver] \in Range(sess.grants)

\* albumAccess: the photos, their files and the zip of a.
Open(b, a) == /\ a \in Live
              /\ Protected(rows[a]) => Valid(cookie[b]) /\ Granted(cookie[b], a, rows[a].ver)

\* Search: photos of listed, public albums.
Hits(a) == a \in Live /\ rows[a].listed /\ ~Protected(rows[a])

\* The cover of an album, which needs no session.
Cover(a) == IF Protected(rows[a]) THEN "blur" ELSE "thumb"

Pictures(b, a) == \/ Open(b, a) \/ Hits(a) \/ Cover(a) = "thumb"

TypeOK ==
  /\ LimiterType /\ KeysBounded
  /\ rows \in [Album -> Row \cup {None}] /\ Live \subseteq used /\ used \subseteq Album
  /\ at \in [Writer \cup Attempt -> {"start", "write", "arrive", "limited", "compare", "reply", "done"}]
  /\ \A w \in Writer : at[w] = "write" <=> loaded[w] # None
  /\ \A b \in Browser : cookie[b] # None => cookie[b] \in Session /\ Len(cookie[b].grants) <= MaxGrants
  /\ \A u \in Attempt : /\ at[u] \in {"arrive", "compare", "reply"} <=> try[u] # NoTry
                        /\ at[u] = "compare" <=> found[u] # None
                        /\ at[u] = "reply" <=> reply[u] # None
  /\ restarts \in Nat /\ lost \in BOOLEAN

\* Whoever sees pictures of a protected album has presented its present
\* password: changes, deletions, albums created anew under an old slug, and
\* unlocks under way meanwhile leave nobody an old grant that still opens it
\* ("Changing the password bumps the version and voids the grant",
\* cookie.go:20-21).  It takes that no write is lost to another one.
PasswordGuards ==
  ~lost => \A b \in Browser, a \in Live :
    Protected(rows[a]) /\ Pictures(b, a) => <<SlugOf[a], rows[a].pw>> \in typed[b]

\* Why an answer may cost b its grant for a: the cookie it was made from was
\* sent before the grant was there, had expired, or held MaxGrants newer ones,
\* or the answer was under way longer than a session lasts.
Excused(u, a) ==
  LET sent == try[u].cookie
  IN \/ sent = None \/ ~Granted(sent, a, rows[a].ver)
     \/ sent.exp <= reply[u].exp - TTL \/ ~Valid(reply[u])
     \/ Len(reply[u].grants) = MaxGrants /\ Head(sent.grants).album = a

\* An album stays open to a browser until its password changes, it is deleted,
\* the session expires, or an answer to an overlapping unlock arrives.  Saving
\* the settings with the same password shuts nobody out
\* (publish_albums.go:228-229), unlike set-password.
StaysOpen ==
  [][\A b \in Browser, a \in Live :
       Protected(rows[a]) /\ Open(b, a) /\ ~Open(b, a)' =>
         \/ rows'[a] = None \/ rows'[a].pw # rows[a].pw
         \/ now' # now \/ lost'
         \/ \E w \in Writer : Cli(w) /\ at'[w] = "done"
         \/ \E u \in Attempt : at[u] = "reply" /\ at'[u] = "done" /\ Excused(u, a)]_vars

\* An attempt is refused only when its own address has used up its bucket for
\* that album, or when MaxKeys buckets of real addresses are in use: not because
\* of what others try elsewhere, of addresses a client writes into
\* X-Forwarded-For, or of buckets nobody needs any more (unlock.go:14-19,
\* ratelimit.go:47-49).
RefusedForCause ==
  [][\A u \in Attempt : at[u] = "arrive" /\ at'[u] = "limited" =>
       \/ levels[<<AddressOf[try[u].browser], try[u].slug>>] = 0
       \/ Cardinality({k \in Address \X Slug : levels[k] < Capacity}) >= MaxKeys]_vars
=============================================================================

---------------------------- MODULE HttpRedirect ----------------------------
(***************************************************************************)
(* lab/net/httpredirect: a hook that overwrites 404 answers with a         *)
(* redirection to a url, and the proc file that configures it.  sscanf     *)
(* stores enable and then the url, one character after the other; sprintf  *)
(* reads it in the same way; neither takes a lock.  Writers that hold the  *)
(* proc file open at the same time interleave.                             *)
(***************************************************************************)
EXTENDS Naturals, Sequences

CONSTANTS
  Admins,    (* processes that write the proc file                         *)
  Chars,     (* characters of urls                                         *)
  Urls, None,(* sequences of them; no url                                  *)
  URL_SIZE   (* characters in the buffer                                   *)

ASSUME NoUrl == None \notin Urls
\* test_conntrack_fs_write refuses a line longer than the buffer, and sscanf
\* finds no end of string within one.
ASSUME UrlsFit ==
  /\ URL_SIZE \in Nat \ {0} /\ "nul" \notin Chars
  /\ \A u \in Urls : u \in Seq(Chars) /\ Len(u) < URL_SIZE

VARIABLES
  redirect_enable, redirect_url,   (* http_404redirect_enable, _url        *)
  apc, arg, put,    (* where each writer is, its url and next character    *)
  hpc, took, location,   (* where the hook is, its next character, output  *)
  asked,       (* history: the url of the last write that brought one      *)
  lone,        (* history: writers no other came across                    *)
  known,       (* history: that write was alone                            *)
  crossed      (* history: the hook met a write                            *)

config == <<redirect_enable, redirect_url>>
admin  == <<apc, arg, put, lone>>
answer == <<hpc, took, location>>
httpvars == <<config, admin, answer, asked, known, crossed>>

Nul == "nul"
Writing(a) == apc[a] # "idle"

HttpInit ==
  /\ redirect_enable = FALSE /\ redirect_url = [n \in 1..URL_SIZE |-> Nul]
  /\ apc = [a \in Admins |-> "idle"] /\ arg = [a \in Admins |-> None]
  /\ put = [a \in Admins |-> 1] /\ lone = {}
  /\ hpc = "idle" /\ took = 1 /\ location = <<>>
  /\ asked = <<>> /\ known = TRUE /\ crossed = FALSE
-----------------------------------------------------------------------------
(* test_conntrack_fs_write.  A line may bring a number only.               *)

FsWrite(a, e, u) ==
  /\ ~Writing(a)
  /\ redirect_enable' = e
  /\ arg' = [arg EXCEPT ![a] = u] /\ put' = [put EXCEPT ![a] = 1]
  /\ apc' = [apc EXCEPT ![a] = IF u = None THEN "idle" ELSE "url"]
  /\ lone' = IF u = None THEN lone
             ELSE IF \E b \in Admins : Writing(b) THEN {} ELSE {a}
  /\ crossed' = TRUE
  /\ UNCHANGED <<redirect_url, answer, asked, known>>

StoreChar(a) ==
  /\ Writing(a) /\ put[a] <= Len(arg[a])
  /\ redirect_url' = [redirect_url EXCEPT ![put[a]] = arg[a][put[a]]]
  /\ put' = [put EXCEPT ![a] = @ + 1]
  /\ UNCHANGED <<redirect_enable, apc, arg, lone, answer, asked, known, crossed>>

StoreEndAs(a, c) ==
  /\ Writing(a) /\ put[a] > Len(arg[a])
  /\ redirect_url' = [redirect_url EXCEPT ![put[a]] = c]
  /\ apc' = [apc EXCEPT ![a] = "idle"]
  /\ asked' = arg[a] /\ known' = (a \in lone)
  /\ UNCHANGED <<redirect_enable, arg, put, lone, answer, crossed>>

StoreEnd_open(a) == StoreEndAs(a, redirect_url[put[a]])
StoreEnd(a) == StoreEndAs(a, Nul)
-----------------------------------------------------------------------------
(* http404_nf_cb, for a 404 answer; every other packet passes as it is.    *)

HookTests ==
  /\ hpc \in {"idle", "passed", "sent"}
  /\ hpc' = IF redirect_enable THEN "format" ELSE "passed"
  /\ took' = 1 /\ location' = <<>>
  /\ crossed' = \E a \in Admins : Writing(a)
  /\ UNCHANGED <<config, admin, asked, known>>

HookFormats ==
  /\ hpc = "format"
  /\ IF redirect_url[took] = Nul
       THEN hpc' = "sent" /\ UNCHANGED <<took, location>>
       ELSE /\ location' = Append(location, redirect_url[took])
            /\ took' = took + 1 /\ hpc' = hpc
  /\ UNCHANGED <<config, admin, asked, known, crossed>>

HttpNext ==
  \/ \E a \in Admins :
       \/ \E e \in BOOLEAN, u \in Urls \cup {None} : FsWrite(a, e, u)
       \/ StoreChar(a) \/ StoreEnd(a)
  \/ HookTests \/ HookFormats

HttpSpec == HttpInit /\ [][HttpNext]_httpvars
-----------------------------------------------------------------------------
\* A packet that no write comes across is redirected to the url of the last
\* write, whole, unless that write itself met another one; and a packet is
\* never formatted past the buffer's end, whatever the writes do.
LocationIsAsked ==
  /\ hpc = "sent" /\ ~crossed /\ known => location = asked
  /\ hpc = "format" => took \in DOMAIN redirect_url
=============================================================================

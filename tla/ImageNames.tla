----------------------------- MODULE ImageNames -----------------------------
(***************************************************************************)
(* The names of images.  A reference is parsed from text (container/mod.rs *)
(* and cli.rs), an image is stored under a ref made from it by escaping    *)
(* (refescape.rs), a deployment keeps it as text in its origin; both are   *)
(* parsed again when images are listed, collected or pruned (deploy.rs).   *)
(*                                                                         *)
(* A text is a sequence of characters, in which a known word (a scheme, a  *)
(* transport) counts as one: none of its characters is ever escaped.       *)
(***************************************************************************)
EXTENDS Integers, SequencesExt

CONSTANTS Starts,   \* how the texts that are typed begin
          Chars,    \* the characters that may follow
          MaxTyped, \* bound on these
          Others    \* the texts of other images that may be pulled

Transports == {"registry", "oci", "oci-archive", "docker-archive", "containers-storage", "dir"}
Alphanumeric ==
    {"2", "3", "A", "E", "F", "a", "docker", "r"} \cup Transports
NUL == "NUL"

ASSUME CharsAssumption == Chars \subseteq Alphanumeric \cup {"/", "-", "_", ":", ".", NUL}
ASSUME MaxTypedAssumption == MaxTyped \in Nat

VARIABLES text,      \* the text typed so far
          typing,    \* it may go on
          refs,      \* the refs below ostree/container/image
          origin,    \* the origin of the deployment, a set of at most one text
          outcome,   \* what was done last, with which text, and whether it failed
          pulled,    \* history: the images that are stored
          deployed   \* history: the image that is deployed

vars == <<text, typing, refs, origin, outcome, pulled, deployed>>

-----------------------------------------------------------------------------
(***************************************************************************)
(* escape_for_ref, one character at a time.  A slash stays where it ends a *)
(* component that ends in a letter or digit and another one follows.       *)
(***************************************************************************)
Hex(c) == CASE c = ":" -> <<"3", "A">> [] c = "." -> <<"2", "E">> [] c = "/" -> <<"2", "F">>
EscapeC(c) == <<"_">> \o Hex(c) \o <<"_">>
Escapable(s) == s # <<>> /\ NUL \notin ToSet(s)

\* Mutation of EscapeAt.
EscapeAtPlain(s, i) ==
    CASE s[i] \in Alphanumeric \cup {"-", "_"} -> <<s[i]>>
      [] s[i] = "/" /\ i > 1 /\ s[i - 1] \in Alphanumeric /\ i < Len(s) -> <<"/">>
      [] OTHER -> EscapeC(s[i])

EscapeAt(s, i) ==
    CASE s[i] \in Alphanumeric \cup {"-"} -> <<s[i]>>
      [] s[i] = "/" /\ i > 1 /\ s[i - 1] \in Alphanumeric /\ i < Len(s) -> <<"/">>
      [] s[i] = "_" -> <<"_", "_">>
      [] OTHER -> EscapeC(s[i])
EscapeForRef(s) == FlattenSeq([i \in DOMAIN s |-> EscapeAt(s, i)])

(***************************************************************************)
(* unescape_for_ref reads plain characters, the one after an underscore,   *)
(* and the digits of a code up to the next underscore or the end.          *)
(***************************************************************************)
Coded == {":", ".", "/"}
Decode(st) ==
    LET of == {c \in Coded : Hex(c) = st.buf}
    IN  IF of = {} THEN [st EXCEPT !.mode = "invalid"]
        ELSE [st EXCEPT !.mode = "plain", !.out = Append(@, CHOOSE c \in of : TRUE)]
ReadChar(st, c) ==
    CASE st.mode = "plain" /\ c \in Alphanumeric \cup {"-", "/"} -> [st EXCEPT !.out = Append(@, c)]
      [] st.mode = "plain" /\ c = "_" -> [st EXCEPT !.mode = "quote"]
      [] st.mode = "quote" /\ c = "_" -> [st EXCEPT !.mode = "plain", !.out = Append(@, "_")]
      [] st.mode = "quote" /\ c # "_" -> [st EXCEPT !.mode = "code", !.buf = <<c>>]
      [] st.mode = "code" /\ c = "_" -> Decode(st)
      [] st.mode = "code" /\ c # "_" -> [st EXCEPT !.buf = Append(@, c)]
      [] OTHER -> [st EXCEPT !.mode = "invalid"]
UnescapeForRef(s) ==
    LET end == FoldLeft(ReadChar, [mode |-> "plain", buf |-> <<>>, out |-> <<>>], s)
        st == IF end.mode = "code" THEN Decode(end) ELSE end
    IN  IF st.mode = "invalid" THEN {} ELSE {st.out}

(***************************************************************************)
(* What libostree accepts as a ref, and when it cannot be a file beside    *)
(* the others: one is then a directory on the path of the other.           *)
(***************************************************************************)
ValidRev(s) ==
    /\ s # <<>> /\ s[1] # "/" /\ Last(s) # "/"
    /\ \A i \in DOMAIN s : s[i] \in Alphanumeric \cup {"-", "_", "/"}
    /\ \A i \in 1..(Len(s) - 1) : <<s[i], s[i + 1]>> # <<"/", "/">>
InWay(s, t) == IsPrefix(s \o <<"/">>, t) \/ IsPrefix(t \o <<"/">>, s)

-----------------------------------------------------------------------------
(***************************************************************************)
(* Parsing.  The result is a set: empty where the text is refused.         *)
(***************************************************************************)
HasColon(s) == ":" \in ToSet(s)
Before(s) == SubSeq(s, 1, SelectInSeq(s, LAMBDA c : c = ":") - 1)
After(s) == SubSeq(s, SelectInSeq(s, LAMBDA c : c = ":") + 1, Len(s))

ImageReference(transport, name) == [transport |-> transport, name |-> name]
TryTransport(s) ==
    IF s = <<"docker">> THEN {"registry"} ELSE {t \in Transports : s = <<t>>}
TryImageReference(s) ==
    IF ~HasColon(s) \/ After(s) = <<>> THEN {}
    ELSE IF Before(s) # <<"docker">>
    THEN {ImageReference(t, After(s)) : t \in TryTransport(Before(s))}
    ELSE IF IsPrefix(<<"/", "/">>, After(s))
    THEN {ImageReference("registry", SubSeq(After(s), 3, Len(After(s))))} ELSE {}

Reference(sig, remote, imgrefs) ==
    {[sig |-> sig, remote |-> remote, imgref |-> i] : i \in imgrefs}
OfRegistry(s) == TryImageReference(<<"registry", ":">> \o s)
TryOstreeImageReference(s) ==
    LET first == Before(s)
        second == After(s)
        remote == Before(second)
        rest == After(second)
    IN  CASE ~HasColon(s) -> {}
          [] first = <<"ostree-image-signed">> -> Reference("signed", <<>>, TryImageReference(second))
          [] first = <<"ostree-unverified-image">> -> Reference("insecure", <<>>, TryImageReference(second))
          [] first = <<"ostree-unverified-registry">> -> Reference("insecure", <<>>, OfRegistry(second))
          [] first = <<"ostree-remote-registry">> /\ HasColon(second) -> Reference("remote", remote, OfRegistry(rest))
          [] first = <<"ostree-remote-image">> /\ HasColon(second) ->
                Reference("remote", remote, TryImageReference(rest))
          [] OTHER -> {}

(***************************************************************************)
(* The same references as text.                                            *)
(***************************************************************************)
DisplayTransport(t) == IF t = "registry" THEN <<"docker", ":", "/", "/">> ELSE <<t, ":">>
DisplayImage(i) == DisplayTransport(i.transport) \o i.name
DisplaySource(r) ==
    CASE r.sig = "remote" -> <<"ostree-remote-image", ":">> \o r.remote
      [] r.sig = "signed" -> <<"ostree-image-signed">>
      [] r.sig = "insecure" -> <<"ostree-unverified-image">>
\* Mutation of Display.
DisplayAlternate(r) ==
    IF r.sig = "insecure" /\ r.imgref.transport = "registry" THEN DisplayImage(r.imgref)
    ELSE DisplaySource(r) \o <<":">> \o DisplayImage(r.imgref)
Display(r) ==
    IF r.sig = "insecure" /\ r.imgref.transport = "registry"
    THEN <<"ostree-unverified-registry", ":">> \o r.imgref.name
    ELSE DisplaySource(r) \o <<":">> \o DisplayImage(r.imgref)

-----------------------------------------------------------------------------
Init ==
    /\ text \in Starts /\ typing = TRUE /\ refs = {} /\ origin = {}
    /\ outcome = [op |-> "none", text |-> <<>>, ok |-> TRUE]
    /\ pulled = {} /\ deployed = {}

Type(c) ==
    /\ typing /\ Len(text) < MaxTyped + Len(CHOOSE s \in Starts : IsPrefix(s, text))
    /\ text' = Append(text, c)
    /\ UNCHANGED <<typing, refs, origin, outcome, pulled, deployed>>

(***************************************************************************)
(* A pull parses its argument, and at its end sets the ref of the image.   *)
(***************************************************************************)
RefForImage(i) == EscapeForRef(DisplayImage(i))
CanStore(i) ==
    /\ Escapable(DisplayImage(i)) /\ ValidRev(RefForImage(i))
    /\ \A r \in refs : ~InWay(r, RefForImage(i))
Result(op, t, ok) == outcome' = [op |-> op, text |-> t, ok |-> ok]
Stores(op, t, r) ==
    /\ CanStore(r.imgref)
    /\ refs' = refs \cup {RefForImage(r.imgref)}
    /\ pulled' = pulled \cup {r.imgref}
    /\ Result(op, t, TRUE)
Fails(op, t) ==
    /\ \A r \in TryOstreeImageReference(t) : ~CanStore(r.imgref)
    /\ Result(op, t, FALSE)
    /\ UNCHANGED <<refs, origin, pulled, deployed>>

Pull(t) ==
    /\ typing' = FALSE /\ UNCHANGED text
    /\ \/ \E r \in TryOstreeImageReference(t) :
             Stores("pull", t, r) /\ UNCHANGED <<origin, deployed>>
       \/ Fails("pull", t)

Deploy ==
    /\ typing' = FALSE /\ UNCHANGED text
    /\ \/ \E r \in TryOstreeImageReference(text) :
             Stores("deploy", text, r) /\ origin' = {Display(r)} /\ deployed' = {r.imgref}
       \/ Fails("deploy", text)

(***************************************************************************)
(* remove_undeployed_images: an origin that does not parse is an error, a  *)
(* listed image that does not is passed over.                              *)
(***************************************************************************)
ListImages == UNION {UnescapeForRef(r) : r \in refs}
Origins == UNION {TryOstreeImageReference(o) : o \in origin}
Undeployed == (UNION {TryImageReference(t) : t \in ListImages}) \ {r.imgref : r \in Origins}
PruneImages ==
    /\ outcome.op # "none" /\ UNCHANGED <<text, typing, origin, deployed>>
    /\ \/ /\ \A o \in origin : TryOstreeImageReference(o) # {}
          /\ refs' = refs \ {RefForImage(i) : i \in Undeployed}
          /\ pulled' = pulled \cap deployed
          /\ Result("prune", <<>>, TRUE)
       \/ /\ \E o \in origin : TryOstreeImageReference(o) = {}
          /\ Result("prune", <<>>, FALSE)
          /\ UNCHANGED <<refs, pulled>>

Next ==
    \/ \E c \in Chars : Type(c)
    \/ \E t \in Others : Pull(t)
    \/ Deploy \/ PruneImages
Spec == Init /\ [][Next]_vars

-----------------------------------------------------------------------------
(***************************************************************************)
(* The refs in the repository stand for exactly the images that are        *)
(* stored: whatever characters a name has, listing and parsing the refs    *)
(* gives back each reference once (list_images, and the collections that   *)
(* read it), the ref is valid, and a prune keeps the deployed image and    *)
(* removes all others.                                                     *)
(***************************************************************************)
RefsAreImages ==
    /\ Cardinality(refs) = Cardinality(pulled)
    /\ \A r \in refs : ValidRev(r)
    /\ UNION {TryImageReference(t) : t \in ListImages} = pulled

(***************************************************************************)
(* The origin of a deployment is read back as the reference it was written *)
(* from, with its signature policy, and a command fails only for a reason  *)
(* in its text: a text that is no reference, a NUL, a name below or above  *)
(* that of a stored image of the same transport.  The exception is a       *)
(* registry image with an empty name ("docker://"): it parses, but the     *)
(* shorthand it is displayed as does not.                                  *)
(***************************************************************************)
Nested(i, j) ==
    /\ i.transport = j.transport /\ i.name # <<>> /\ Last(i.name) \in Alphanumeric
    /\ IsPrefix(i.name \o <<"/">>, j.name) /\ Len(j.name) > Len(i.name) + 1
Reason(t) ==
    \A r \in TryOstreeImageReference(t) :
        \/ NUL \in ToSet(r.imgref.name)
        \/ \E i \in pulled : Nested(i, r.imgref) \/ Nested(r.imgref, i)
Nameless(r) == r.sig = "insecure" /\ r.imgref = ImageReference("registry", <<>>)
OriginReadBack ==
    /\ outcome.op = "deploy" /\ outcome.ok =>
          LET r == CHOOSE r \in TryOstreeImageReference(text) : TRUE
          IN  Origins = IF Nameless(r) THEN {} ELSE {r}
    /\ ~outcome.ok =>
          IF outcome.op = "prune" THEN origin = {<<"ostree-unverified-registry", ":">>}
          ELSE Reason(outcome.text)
=============================================================================

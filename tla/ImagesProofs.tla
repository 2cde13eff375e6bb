----------------------------- MODULE ImagesProofs -----------------------------
(***************************************************************************)
(* For any script, with any number of variables, images and inputs: the    *)
(* counts of images and contents are those of their uses, and a release    *)
(* never meets a structure that is gone.  And for any picture, in any of   *)
(* the formats: what a sink has written stays as it was written, and at    *)
(* the end all is written.                                                 *)
(***************************************************************************)
EXTENDS Images, ImageFiles, FiniteSetTheorems, SequenceTheorems, TLAPS

Kinds == {"unref", "destroy", "undo"}
Calls == [kind : Kinds, image : Nat, next : Nat]

Image   == [refcount : Nat, content : Nat, meta : Metas \cup {NoMeta}]
Content == [refcount : Nat, srcs : UNION {[1 .. n -> Nat] : n \in 0 .. MaxInputs}]

Types ==
    /\ allocated \in Nat /\ objects \in Nat
    /\ DOMAIN image \subseteq 1 .. allocated /\ image \in [DOMAIN image -> Image]
    /\ DOMAIN content \subseteq 1 .. allocated /\ content \in [DOMAIN content -> Content]
    /\ DOMAIN object \subseteq 1 .. objects /\ object \in [DOMAIN object -> Nat]
    /\ held \in [Names -> DOMAIN object \cup {0}]
    /\ calls \in Seq(Calls)

Releasing(n) == n \in DOMAIN calls /\ calls[n].kind # "unref"

(* The image a call releases is used by nothing but that call, and its content
   is no other image's. *)
Released(n) ==
    LET i == calls[n].image
        c == image[i].content
    IN  /\ c \in DOMAIN content /\ SharedBy(c) = {i}
        /\ \E m \in 0 .. MaxInputs : DOMAIN content[c].srcs = 1 .. m /\ calls[n].next \in 1 .. m + 1
        /\ image[i].refcount = IF calls[n].kind = "destroy" THEN 1 ELSE 0

(* No image is released twice. *)
Releases == /\ \A n \in DOMAIN calls : Releasing(n) => Released(n)
            /\ \A m, n \in DOMAIN calls :
                   Releasing(m) /\ Releasing(n) /\ calls[m].image = calls[n].image => m = n

(* An image whose content is gone, after a failed setup, is not used. *)
Lost == \A i \in DOMAIN image : image[i].content = 0 => Uses(i) = {}

IInv == Types /\ CountsExact /\ Releases /\ Lost

-----------------------------------------------------------------------------
(* The number of elements of a set that has some. *)
LEMMA SomeMember ==
    ASSUME NEW S, NEW x \in S, IsFiniteSet(S)
    PROVE  Cardinality(S) \in Nat /\ Cardinality(S) >= 1
  BY FS_CardinalityType, FS_EmptySet

LEMMA OnlyMember ==
    ASSUME NEW S, NEW x \in S, IsFiniteSet(S), Cardinality(S) <= 1
    PROVE  S = {x} /\ Cardinality(S) = 1
  <1>1. Cardinality(S) = 1
    BY SomeMember
  <1>2. PICK y : S = {y}
    BY <1>1, FS_Singleton
  <1> QED  BY <1>1, <1>2

(* The innermost call, and those it returns to. *)
LEMMA TopCall ==
    ASSUME calls \in Seq(Calls), calls # << >>
    PROVE  /\ Len(calls) \in Nat \ {0} /\ DOMAIN calls = 1 .. Len(calls)
           /\ Running \in Calls
           /\ Returned \in Seq(Calls) /\ Len(Returned) = Len(calls) - 1
           /\ DOMAIN Returned = 1 .. Len(calls) - 1
           /\ \A n \in 1 .. Len(calls) - 1 : Returned[n] = calls[n]
  <1>1. Len(calls) \in Nat \ {0} /\ DOMAIN calls = 1 .. Len(calls)
    OBVIOUS
  <1>2. Running \in Calls
    BY <1>1 DEF Running
  <1>3. \A i \in 1 .. Len(calls) - 1 : calls[i] \in Calls
    BY <1>1
  <1>4. /\ Returned \in Seq(Calls)
        /\ Len(Returned) = IF 1 <= Len(calls) - 1 THEN ((Len(calls) - 1) - 1) + 1 ELSE 0
        /\ \A i \in 1 .. ((Len(calls) - 1) - 1) + 1 : Returned[i] = calls[(1 + i) - 1]
    BY <1>1, <1>3, SubSeqProperties DEF Returned
  <1>5. PICK n, l : n = Len(calls) /\ l = Len(Returned)
    OBVIOUS
  <1>6. l = n - 1 /\ ((n - 1) - 1) + 1 = n - 1 /\ n \in Nat \ {0}
    <2>1. n \in Nat \ {0} /\ l = IF 1 <= n - 1 THEN ((n - 1) - 1) + 1 ELSE 0
      BY <1>1, <1>4, <1>5
    <2> QED  BY <2>1
  <1>7. \A i \in 1 .. n - 1 : (1 + i) - 1 = i
    BY <1>6
  <1>8. DOMAIN Returned = 1 .. Len(Returned)
    BY <1>4
  <1> QED  BY <1>1, <1>2, <1>4, <1>5, <1>6, <1>7, <1>8

LEMMA TriplesFinite ==
    ASSUME NEW A, NEW B, NEW C, IsFiniteSet(A), IsFiniteSet(B), IsFiniteSet(C)
    PROVE  IsFiniteSet(A \X B \X C)
  <1> DEFINE Pairs == (A \X B) \X C
             Triples == A \X B \X C
             f == [u \in Triples |-> << << u[1], u[2] >>, u[3] >>]
  <1>1. IsFiniteSet(Pairs)
    BY FS_Product
  <1>2. f \in [Triples -> Pairs]
    OBVIOUS
  <1>3. \A u, v \in Triples : f[u] = f[v] => u = v
    OBVIOUS
  <1>4. f \in Injection(Triples, Pairs)
    BY <1>2, <1>3 DEF Injection, IsInjective
  <1> HIDE DEF f, Pairs
  <1> QED  BY <1>1, <1>4, FS_Injection

(* The uses are finitely many. *)
LEMMA UsesFinite == ASSUME Types, NEW i PROVE IsFiniteSet(Uses(i)) /\ Cardinality(Uses(i)) \in Nat
  <1>1. /\ IsFiniteSet(1 .. objects) /\ IsFiniteSet(1 .. allocated)
        /\ IsFiniteSet(DOMAIN calls) /\ IsFiniteSet(1 .. MaxInputs)
    <2>1. DOMAIN calls = 1 .. Len(calls) /\ Len(calls) \in Nat
      BY DEF Types
    <2>2. PICK l \in Nat : l = Len(calls)
      BY <2>1
    <2>3. 1 \in Int /\ objects \in Int /\ allocated \in Int /\ l \in Int /\ MaxInputs \in Int
      BY <2>2, ImagesAssumption DEF Types
    <2>4. IsFiniteSet(1 .. objects) /\ IsFiniteSet(1 .. allocated)
      BY <2>3, FS_Interval
    <2>5. IsFiniteSet(1 .. l) /\ IsFiniteSet(1 .. MaxInputs)
      BY <2>3, FS_Interval
    <2> QED  BY <2>1, <2>2, <2>4, <2>5
  <1>2. IsFiniteSet(DOMAIN object) /\ IsFiniteSet(DOMAIN content)
    BY <1>1, FS_Subset DEF Types
  <1>3. IsFiniteSet({"value"}) /\ IsFiniteSet({"input"}) /\ IsFiniteSet({"call"}) /\ IsFiniteSet({0})
    BY FS_Singleton
  <1>4. IsFiniteSet(UsesByValue(i))
    <2>1. IsFiniteSet({"value"} \X (DOMAIN object) \X {0})
      BY <1>2, <1>3, TriplesFinite
    <2> QED  BY <2>1, FS_Subset DEF UsesByValue
  <1>5. IsFiniteSet(UsesAsInput(i))
    <2>1. IsFiniteSet({"input"} \X (DOMAIN content) \X (1 .. MaxInputs))
      BY <1>1, <1>2, <1>3, TriplesFinite
    <2> QED  BY <2>1, FS_Subset DEF UsesAsInput
  <1>6. IsFiniteSet(UsesByCall(i))
    <2>1. IsFiniteSet({"call"} \X (DOMAIN calls) \X {0})
      BY <1>1, <1>3, TriplesFinite
    <2> QED  BY <2>1, FS_Subset DEF UsesByCall
  <1>7. IsFiniteSet(Uses(i))
    BY <1>4, <1>5, <1>6, FS_Union DEF Uses
  <1> QED  BY <1>7, FS_CardinalityType

LEMMA SharersFinite == ASSUME Types, NEW c PROVE IsFiniteSet(SharedBy(c))
  <1>1. allocated \in Int /\ 1 \in Int
    BY DEF Types
  <1>2. IsFiniteSet(1 .. allocated)
    BY <1>1, FS_Interval
  <1>3. SharedBy(c) \in SUBSET (1 .. allocated)
    BY DEF SharedBy, Types
  <1> QED  BY <1>2, <1>3, FS_Subset

-----------------------------------------------------------------------------
(* Changes of one field. *)
WithCount(f, x, n) == [f EXCEPT ![x].refcount = n]

LEMMA Recounted ==
    ASSUME NEW r \in Image, NEW n \in Nat
    PROVE  LET e == [r EXCEPT !.refcount = n]
           IN  e \in Image /\ e.refcount = n /\ e.content = r.content /\ e.meta = r.meta
  BY DEF Image

LEMMA RecountedImage ==
    ASSUME NEW img, img \in [DOMAIN img -> Image], NEW i \in DOMAIN img, NEW n \in Nat
    PROVE  LET f == WithCount(img, i, n)
           IN  /\ DOMAIN f = DOMAIN img /\ f \in [DOMAIN f -> Image]
               /\ f[i].refcount = n /\ f[i].meta = img[i].meta
               /\ \A j \in DOMAIN img : f[j].content = img[j].content /\ (j # i => f[j] = img[j])
  <1> DEFINE e == [img[i] EXCEPT !.refcount = n]
             f == WithCount(img, i, n)
  <1>1. img[i] \in Image
    OBVIOUS
  <1>2. e \in Image /\ e.refcount = n /\ e.content = img[i].content /\ e.meta = img[i].meta
    BY <1>1, Recounted
  <1>3. f = [img EXCEPT ![i] = e]
    BY DEF WithCount
  <1> HIDE DEF e, f
  <1>4. /\ DOMAIN f = DOMAIN img /\ f \in [DOMAIN f -> Image] /\ f[i] = e
        /\ \A j \in DOMAIN img : j # i => f[j] = img[j]
    BY <1>2, <1>3
  <1>5. \A j \in DOMAIN img : f[j].content = img[j].content
    BY <1>2, <1>4
  <1> QED  BY <1>2, <1>4, <1>5 DEF f

(* An image whose content is gone. *)
LEMMA Disowned ==
    ASSUME NEW img, img \in [DOMAIN img -> Image], NEW i \in DOMAIN img,
           NEW f, f = [img EXCEPT ![i].content = 0]
    PROVE  /\ DOMAIN f = DOMAIN img /\ f \in [DOMAIN f -> Image]
           /\ f[i].content = 0 /\ f[i].refcount = img[i].refcount
           /\ \A j \in DOMAIN img : j # i => f[j] = img[j]
  <1> DEFINE e == [img[i] EXCEPT !.content = 0]
  <1>1. img[i] \in Image
    OBVIOUS
  <1>2. e \in Image /\ e.content = 0 /\ e.refcount = img[i].refcount
    BY <1>1 DEF Image
  <1>3. f = [img EXCEPT ![i] = e]
    OBVIOUS
  <1> HIDE DEF e
  <1> QED  BY <1>2, <1>3

LEMMA RecountedContent ==
    ASSUME NEW conts, conts \in [DOMAIN conts -> Content], NEW c \in DOMAIN conts, NEW n \in Nat
    PROVE  LET f == WithCount(conts, c, n)
           IN  /\ DOMAIN f = DOMAIN conts /\ f \in [DOMAIN f -> Content]
               /\ f[c].refcount = n
               /\ \A d \in DOMAIN conts : f[d].srcs = conts[d].srcs /\ (d # c => f[d] = conts[d])
  <1> DEFINE e == [conts[c] EXCEPT !.refcount = n]
             f == WithCount(conts, c, n)
  <1>1. conts[c] \in Content
    OBVIOUS
  <1>2. e \in Content /\ e.refcount = n /\ e.srcs = conts[c].srcs
    BY <1>1 DEF Content
  <1>3. f = [conts EXCEPT ![c] = e]
    BY DEF WithCount
  <1> HIDE DEF e, f
  <1>4. /\ DOMAIN f = DOMAIN conts /\ f \in [DOMAIN f -> Content] /\ f[c] = e
        /\ \A d \in DOMAIN conts : d # c => f[d] = conts[d]
    BY <1>2, <1>3
  <1>5. \A d \in DOMAIN conts : f[d].srcs = conts[d].srcs
    BY <1>2, <1>4
  <1> QED  BY <1>2, <1>4, <1>5 DEF f

-----------------------------------------------------------------------------
(* The return of a call. *)
Returns == Types /\ calls # << >> /\ calls' = Returned

LEMMA ReturnCalls ==
    ASSUME Returns
    PROVE  /\ calls' \in Seq(Calls)
           /\ \A n \in DOMAIN calls' : n \in DOMAIN calls /\ n # Len(calls) /\ calls'[n] = calls[n]
           /\ \A n \in DOMAIN calls : n # Len(calls) => n \in DOMAIN calls'
           /\ Len(calls) \in DOMAIN calls
           /\ \A j : UsesByCall(j)' = UsesByCall(j) \ {<< "call", Len(calls), 0 >>}
  <1>1. PICK l : l = Len(calls)
    OBVIOUS
  <1>2. /\ l \in Nat \ {0} /\ DOMAIN calls = 1 .. l /\ DOMAIN calls' = 1 .. l - 1
        /\ calls' \in Seq(Calls) /\ \A n \in 1 .. l - 1 : calls'[n] = calls[n]
    BY <1>1, TopCall DEF Returns, Types
  <1>3. /\ \A n \in DOMAIN calls' : n \in DOMAIN calls /\ n # l /\ calls'[n] = calls[n]
        /\ \A n \in DOMAIN calls : n # l => n \in DOMAIN calls'
        /\ l \in DOMAIN calls
    BY <1>2
  <1>4. ASSUME NEW j PROVE UsesByCall(j)' = UsesByCall(j) \ {<< "call", l, 0 >>}
    BY <1>3 DEF UsesByCall
  <1> QED  BY <1>1, <1>2, <1>3, <1>4

(* What an unused call leaves of the releases below it. *)
LEMMA ReturnPassed ==
    ASSUME Returns, Running.kind = "unref",
           \A n \in DOMAIN calls : Releasing(n) => image'[calls[n].image].content = image[calls[n].image].content
    PROVE  \A c, k : Passed(c, k)' <=> Passed(c, k)
  <1> SUFFICES ASSUME NEW c, NEW k PROVE Passed(c, k)' <=> Passed(c, k)
    OBVIOUS
  <1>1. ASSUME NEW n \in DOMAIN calls'
        PROVE  n \in DOMAIN calls /\ calls'[n] = calls[n]
    BY ReturnCalls
  <1>2. ASSUME NEW n \in DOMAIN calls, Releasing(n)
        PROVE  n \in DOMAIN calls' /\ calls'[n] = calls[n]
    <2>1. n # Len(calls)
      BY <1>2 DEF Running, Releasing
    <2> QED  BY <2>1, ReturnCalls
  <1>3. Passed(c, k)' => Passed(c, k)
    BY <1>1 DEF Passed, Releasing
  <1>4. Passed(c, k) => Passed(c, k)'
    BY <1>2 DEF Passed, Releasing
  <1> QED  BY <1>3, <1>4

(* A use of an image counts. *)
LEMMA Counted ==
    ASSUME IInv, NEW i, NEW u \in Uses(i)
    PROVE  /\ i \in DOMAIN image /\ image[i] \in Image /\ image[i].content \in DOMAIN content
           /\ image[i].refcount \in Nat /\ image[i].refcount >= 1
           /\ image[i].refcount <= 1 => Uses(i) = {u}
  <1>1. i \in DOMAIN image
    BY DEF IInv, CountsExact, Uses, UsesByValue, UsesAsInput, UsesByCall
  <1>2. image[i] \in Image /\ image[i].refcount \in Nat
    BY <1>1 DEF IInv, Types, Image
  <1>3. image[i].refcount = Cardinality(Uses(i))
    BY <1>1 DEF IInv, CountsExact
  <1>4. image[i].content \in DOMAIN content
    BY <1>1 DEF IInv, CountsExact, Lost
  <1>5. IsFiniteSet(Uses(i))
    BY UsesFinite DEF IInv
  <1>6. image[i].refcount >= 1
    BY <1>3, <1>5, SomeMember
  <1>7. image[i].refcount <= 1 => Uses(i) = {u}
    BY <1>3, <1>5, OnlyMember
  <1> QED  BY <1>1, <1>2, <1>4, <1>6, <1>7

LEMMA TopUses ==
    ASSUME IInv, calls # << >>, Running.kind # "undo"
    PROVE  << "call", Len(calls), 0 >> \in Uses(Running.image)
  BY TopCall DEF IInv, Types, Uses, UsesByCall, Running

(* aktive_image_unref, for an image with other uses. *)
Unused(i) == /\ IInv /\ InState({"unref"}) /\ i = Running.image /\ calls' = Returned
             /\ image[i].refcount > 1
             /\ image' = [image EXCEPT ![i].refcount = @ - 1]
             /\ UNCHANGED << content, object, held, allocated, objects >>

LEMMA StepUnused == ASSUME NEW i, Unused(i) PROVE IInv'
  <1>1. Returns /\ Running.kind = "unref" /\ IInv /\ Types /\ calls # << >>
    BY DEF Unused, InState, Returns, IInv
  <1>2. PICK u : u = << "call", Len(calls), 0 >>
    OBVIOUS
  <1>3. u \in Uses(i)
    BY <1>1, <1>2, TopUses DEF Unused
  <1>4. /\ i \in DOMAIN image /\ image[i].refcount \in Nat /\ image[i].refcount > 1 /\ image[i] \in Image
    BY <1>1, <1>3, Counted DEF Unused
  <1>5. /\ DOMAIN image' = DOMAIN image /\ image' \in [DOMAIN image' -> Image]
        /\ image'[i].refcount = image[i].refcount - 1
        /\ \A j \in DOMAIN image : image'[j].content = image[j].content /\ (j # i => image'[j] = image[j])
    <2>1. PICK n \in Nat : n = image[i].refcount - 1
      BY <1>4
    <2>2. image' = WithCount(image, i, n)
      BY <2>1 DEF Unused, WithCount
    <2>3. image \in [DOMAIN image -> Image]
      BY <1>1 DEF Types
    <2> QED  BY <1>4, <2>1, <2>2, <2>3, RecountedImage
  <1>6. Types'
    BY <1>1, <1>5, ReturnCalls DEF Unused, Types
  <1>7. \A c, k : Passed(c, k)' <=> Passed(c, k)
    BY <1>1, <1>5, ReturnPassed DEF Releasing, IInv, CountsExact
  <1>8. ASSUME NEW j PROVE Uses(j)' = Uses(j) \ {u}
    <2>1. UsesByCall(j)' = UsesByCall(j) \ {u}
      BY <1>1, <1>2, ReturnCalls
    <2>2. UsesByValue(j)' = UsesByValue(j) /\ u \notin UsesByValue(j)
      BY <1>2 DEF UsesByValue, Unused
    <2>3. UsesAsInput(j)' = UsesAsInput(j)
      BY <1>7 DEF UsesAsInput, Unused
    <2>4. u \notin UsesAsInput(j)
      BY <1>2 DEF UsesAsInput
    <2> QED  BY <2>1, <2>2, <2>3, <2>4 DEF Uses
  <1>9. \A j \in DOMAIN image : j # i => u \notin Uses(j)
    BY <1>2, <1>1 DEF Uses, UsesByCall, UsesByValue, UsesAsInput, Unused, Running
  <1>10. \A c : SharedBy(c)' = SharedBy(c)
    BY <1>5 DEF SharedBy
  <1>11. CountsExact'
    <2>1. /\ \A o \in DOMAIN object' : object'[o] \in DOMAIN image'
          /\ \A j \in DOMAIN image' : image'[j].content \in DOMAIN content' \cup {0}
      BY <1>1, <1>5 DEF Unused, IInv, CountsExact
    <2>2. \A c \in DOMAIN content' : \A k \in DOMAIN content'[c].srcs :
              Passed(c, k)' \/ content'[c].srcs[k] \in DOMAIN image'
      BY <1>1, <1>5, <1>7 DEF Unused, IInv, CountsExact
    <2>3. \A n \in DOMAIN calls' : calls'[n].image \in DOMAIN image'
      BY <1>1, <1>5, ReturnCalls DEF IInv, CountsExact
    <2>4. ASSUME NEW j \in DOMAIN image' PROVE image'[j].refcount = Cardinality(Uses(j)')
      <3>1. image[j].refcount = Cardinality(Uses(j)) /\ IsFiniteSet(Uses(j))
        BY <1>1, <1>5, UsesFinite DEF IInv, CountsExact
      <3>2. CASE j = i
        BY <1>3, <1>5, <1>8, <3>1, <3>2, FS_RemoveElement
      <3>3. CASE j # i
        <4>1. Uses(j)' = Uses(j)
          BY <1>5, <1>8, <1>9, <3>3
        <4> QED  BY <1>5, <3>1, <3>3, <4>1
      <3> QED  BY <3>2, <3>3
    <2>5. \A c \in DOMAIN content' : content'[c].refcount = Cardinality(SharedBy(c)')
      BY <1>1, <1>10 DEF Unused, IInv, CountsExact
    <2> QED  BY <2>1, <2>2, <2>3, <2>4, <2>5 DEF CountsExact
  <1>12. ASSUME NEW n \in DOMAIN calls, Releasing(n)
         PROVE  /\ calls[n].image \in DOMAIN image
                /\ image'[calls[n].image] = image[calls[n].image]
    <2>1. calls[n].image \in DOMAIN image
      BY <1>1 DEF IInv, CountsExact
    <2>2. image[calls[n].image].refcount = IF calls[n].kind = "destroy" THEN 1 ELSE 0
      BY <1>1, <1>12 DEF IInv, Releases, Released
    <2>3. calls[n].image # i
      BY <1>4, <2>2
    <2> QED  BY <1>5, <2>1, <2>3
  <1>13. Releases'
    <2>1. ASSUME NEW n \in DOMAIN calls', Releasing(n)' PROVE Released(n)'
      <3>1. n \in DOMAIN calls /\ calls'[n] = calls[n] /\ Releasing(n)
        BY <1>1, <2>1, ReturnCalls DEF Releasing
      <3>2. Released(n)
        BY <1>1, <3>1 DEF IInv, Releases
      <3>3. image'[calls[n].image] = image[calls[n].image]
        BY <1>12, <3>1
      <3> QED  BY <1>10, <3>1, <3>2, <3>3 DEF Released, Unused
    <2>2. ASSUME NEW m \in DOMAIN calls', NEW n \in DOMAIN calls', Releasing(m)', Releasing(n)',
                 calls'[m].image = calls'[n].image
          PROVE  m = n
      <3>1. /\ m \in DOMAIN calls /\ calls'[m] = calls[m] /\ Releasing(m)
            /\ n \in DOMAIN calls /\ calls'[n] = calls[n] /\ Releasing(n)
        BY <1>1, <2>2, ReturnCalls DEF Releasing
      <3> QED  BY <1>1, <2>2, <3>1 DEF IInv, Releases
    <2> QED  BY <2>1, <2>2 DEF Releases
  <1>14. Lost'
    BY <1>1, <1>5, <1>8 DEF IInv, Lost
  <1> QED  BY <1>6, <1>11, <1>13, <1>14 DEF IInv

(* The places of the inputs of a content. *)
LEMMA Places == ASSUME Types, NEW c \in DOMAIN content PROVE
    \E m \in 0 .. MaxInputs : /\ DOMAIN content[c].srcs = 1 .. m
                              /\ \A k \in 1 .. m : k \in 1 .. MaxInputs /\ k \in Nat /\ content[c].srcs[k] \in Nat
  <1>1. content[c].srcs \in UNION {[1 .. n -> Nat] : n \in 0 .. MaxInputs}
    BY DEF Types, Content
  <1>2. PICK m \in 0 .. MaxInputs : content[c].srcs \in [1 .. m -> Nat]
    BY <1>1
  <1>3. \A k \in 1 .. m : k \in 1 .. MaxInputs /\ k \in Nat
    BY ImagesAssumption
  <1> QED  BY <1>2, <1>3

(* Of an image that only a call uses, or none, nothing else is left. *)
LEMMA NoOtherUse ==
    ASSUME IInv, NEW i, NEW l, Uses(i) \subseteq {<< "call", l, 0 >>}
    PROVE  /\ \A o \in DOMAIN object : object[o] # i
           /\ \A c \in DOMAIN content : \A k \in DOMAIN content[c].srcs : Passed(c, k) \/ content[c].srcs[k] # i
           /\ \A n \in DOMAIN calls : calls[n].kind # "undo" /\ n # l => calls[n].image # i
  <1>1. UsesByValue(i) = {} /\ UsesAsInput(i) = {} /\ UsesByCall(i) \subseteq {<< "call", l, 0 >>}
    BY DEF Uses, UsesByValue, UsesAsInput
  <1>2. ASSUME NEW o \in DOMAIN object, object[o] = i PROVE FALSE
    <2>1. << "value", o, 0 >> \in UsesByValue(i)
      BY <1>2 DEF UsesByValue
    <2> QED  BY <1>1, <2>1
  <1>3. ASSUME NEW c \in DOMAIN content, NEW k \in DOMAIN content[c].srcs,
               ~ Passed(c, k), content[c].srcs[k] = i
        PROVE  FALSE
    <2>1. k \in 1 .. MaxInputs
      BY Places DEF IInv
    <2>2. << "input", c, k >> \in UsesAsInput(i)
      BY <1>3, <2>1 DEF UsesAsInput
    <2> QED  BY <1>1, <2>2
  <1>4. ASSUME NEW n \in DOMAIN calls, calls[n].kind # "undo", n # l, calls[n].image = i PROVE FALSE
    <2>1. << "call", n, 0 >> \in UsesByCall(i)
      BY <1>4 DEF UsesByCall
    <2> QED  BY <1>1, <1>4, <2>1
  <1> QED  BY <1>2, <1>3, <1>4

(* The last use of an image may be a call that is not the undo of its setup. *)
LEMMA LastUse ==
    ASSUME IInv, calls # << >>, Running.kind # "undo", NEW i, i = Running.image, image[i].refcount <= 1
    PROVE  /\ i \in DOMAIN image /\ image[i] \in Image /\ image[i].content \in DOMAIN content
           /\ image[i].refcount = 1 /\ Uses(i) = {<< "call", Len(calls), 0 >>}
           /\ \A o \in DOMAIN object : object[o] # i
           /\ \A c \in DOMAIN content : \A k \in DOMAIN content[c].srcs : Passed(c, k) \/ content[c].srcs[k] # i
           /\ \A n \in DOMAIN calls : n # Len(calls) => calls[n].image # i
  <1>1. << "call", Len(calls), 0 >> \in Uses(i)
    BY TopUses
  <1>2. /\ i \in DOMAIN image /\ image[i] \in Image /\ image[i].content \in DOMAIN content
        /\ image[i].refcount = 1 /\ Uses(i) = {<< "call", Len(calls), 0 >>}
    BY <1>1, Counted
  <1>3. ASSUME NEW n \in DOMAIN calls, calls[n].kind = "undo" PROVE calls[n].image # i
    <2>1. image[calls[n].image].refcount = 0
      BY <1>3 DEF IInv, Releases, Released, Releasing
    <2> QED  BY <1>2, <2>1
  <1> QED  BY <1>2, <1>3, NoOtherUse

(* aktive_image_destroy, with the content left to other images. *)
Gone(i) == /\ IInv /\ InState({"unref"}) /\ i = Running.image /\ calls' = Returned
           /\ image[i].refcount <= 1 /\ SharedContent(image[i].content)
           /\ content' = [content EXCEPT ![image[i].content].refcount = @ - 1]
           /\ image' = Dropped(image, i)
           /\ UNCHANGED << object, held, allocated, objects >>

LEMMA StepGone == ASSUME NEW i, Gone(i) PROVE IInv'
  <1>1. Returns /\ Running.kind = "unref" /\ IInv /\ Types /\ calls # << >>
    BY DEF Gone, InState, Returns, IInv
  <1>2. PICK u : u = << "call", Len(calls), 0 >>
    OBVIOUS
  <1>3. PICK d : d = image[i].content
    OBVIOUS
  <1>4. /\ i \in DOMAIN image /\ d \in DOMAIN content /\ Uses(i) = {u}
        /\ \A o \in DOMAIN object : object[o] # i
        /\ \A c \in DOMAIN content : \A k \in DOMAIN content[c].srcs : Passed(c, k) \/ content[c].srcs[k] # i
        /\ \A n \in DOMAIN calls : n # Len(calls) => calls[n].image # i
    BY <1>1, <1>2, <1>3, LastUse DEF Gone
  <1>5. /\ DOMAIN image' = DOMAIN image \ {i} /\ image' \in [DOMAIN image' -> Image]
        /\ \A j \in DOMAIN image' : image'[j] = image[j]
    BY <1>1 DEF Gone, Dropped, Types
  <1>6. /\ DOMAIN content' = DOMAIN content /\ content' \in [DOMAIN content' -> Content]
        /\ content[d].refcount \in Nat /\ content'[d].refcount = content[d].refcount - 1
        /\ \A c \in DOMAIN content : content'[c].srcs = content[c].srcs /\ (c # d => content'[c] = content[c])
    <2>1. content[d].refcount \in Nat
      BY <1>1, <1>4 DEF Types, Content
    <2>2. PICK n \in Nat : n = content[d].refcount - 1
      BY <1>3, <2>1 DEF Gone, SharedContent
    <2>3. content' = WithCount(content, d, n)
      BY <1>3, <2>2 DEF Gone, WithCount
    <2>4. content \in [DOMAIN content -> Content]
      BY <1>1 DEF Types
    <2> QED  BY <1>4, <2>1, <2>2, <2>3, <2>4, RecountedContent
  <1>7. Types'
    BY <1>1, <1>5, <1>6, ReturnCalls DEF Gone, Types
  <1>8. ASSUME NEW n \in DOMAIN calls, n # Len(calls)
        PROVE  calls[n].image \in DOMAIN image' /\ image'[calls[n].image] = image[calls[n].image]
    BY <1>1, <1>4, <1>5, <1>8 DEF IInv, CountsExact
  <1>9. \A n \in DOMAIN calls : Releasing(n) => n # Len(calls)
    BY <1>1 DEF Releasing, Running
  <1>10. \A c, k : Passed(c, k)' <=> Passed(c, k)
    BY <1>1, <1>8, <1>9, ReturnPassed
  <1>11. ASSUME NEW j PROVE Uses(j)' = Uses(j) \ {u}
    <2>1. UsesByCall(j)' = UsesByCall(j) \ {u}
      BY <1>1, <1>2, ReturnCalls
    <2>2. UsesByValue(j)' = UsesByValue(j) /\ u \notin UsesByValue(j)
      BY <1>2 DEF UsesByValue, Gone
    <2>3. UsesAsInput(j)' = UsesAsInput(j)
      BY <1>6, <1>10 DEF UsesAsInput
    <2>4. u \notin UsesAsInput(j)
      BY <1>2 DEF UsesAsInput
    <2> QED  BY <2>1, <2>2, <2>3, <2>4 DEF Uses
  <1>12. \A j \in DOMAIN image' : Uses(j)' = Uses(j)
    <2>1. \A j : j # i => u \notin Uses(j)
      BY <1>2, <1>1 DEF Uses, UsesByCall, UsesByValue, UsesAsInput, Gone, Running
    <2> QED  BY <1>5, <1>11, <2>1
  <1>13. \A c : SharedBy(c)' = SharedBy(c) \ {i} /\ (c # d => SharedBy(c)' = SharedBy(c))
    BY <1>3, <1>5 DEF SharedBy
  <1>14. CountsExact'
    <2>1. \A o \in DOMAIN object' : object'[o] \in DOMAIN image'
      BY <1>1, <1>4, <1>5 DEF Gone, IInv, CountsExact
    <2>2. \A c \in DOMAIN content' : \A k \in DOMAIN content'[c].srcs :
              Passed(c, k)' \/ content'[c].srcs[k] \in DOMAIN image'
      BY <1>1, <1>4, <1>5, <1>6, <1>10 DEF IInv, CountsExact
    <2>3. \A n \in DOMAIN calls' : calls'[n].image \in DOMAIN image'
      BY <1>1, <1>8, ReturnCalls
    <2>4. \A j \in DOMAIN image' : image'[j].refcount = Cardinality(Uses(j)')
      BY <1>1, <1>5, <1>12 DEF IInv, CountsExact
    <2>5. ASSUME NEW c \in DOMAIN content' PROVE content'[c].refcount = Cardinality(SharedBy(c)')
      <3>1. content[c].refcount = Cardinality(SharedBy(c))
        BY <1>1, <1>6 DEF IInv, CountsExact
      <3>2. CASE c = d
        <4>1. i \in SharedBy(d) /\ IsFiniteSet(SharedBy(d))
          BY <1>1, <1>3, <1>4, SharersFinite DEF SharedBy
        <4> QED  BY <1>6, <1>13, <3>1, <3>2, <4>1, FS_RemoveElement
      <3>3. CASE c # d
        BY <1>6, <1>13, <3>1, <3>3
      <3> QED  BY <3>2, <3>3
    <2>6. \A j \in DOMAIN image' : image'[j].content \in DOMAIN content' \cup {0}
      BY <1>1, <1>5, <1>6 DEF IInv, CountsExact
    <2> QED  BY <2>1, <2>2, <2>3, <2>4, <2>5, <2>6 DEF CountsExact
  <1>15. Releases'
    <2>1. ASSUME NEW n \in DOMAIN calls', Releasing(n)' PROVE Released(n)'
      <3>1. n \in DOMAIN calls /\ n # Len(calls) /\ calls'[n] = calls[n] /\ Releasing(n)
        BY <1>1, <2>1, ReturnCalls DEF Releasing
      <3>2. Released(n)
        BY <1>1, <3>1 DEF IInv, Releases
      <3>3. image'[calls[n].image] = image[calls[n].image] /\ calls[n].image # i
        BY <1>4, <1>8, <3>1
      <3> QED  BY <1>6, <1>13, <3>1, <3>2, <3>3 DEF Released
    <2>2. ASSUME NEW m \in DOMAIN calls', NEW n \in DOMAIN calls', Releasing(m)', Releasing(n)',
                 calls'[m].image = calls'[n].image
          PROVE  m = n
      <3>1. /\ m \in DOMAIN calls /\ calls'[m] = calls[m] /\ Releasing(m)
            /\ n \in DOMAIN calls /\ calls'[n] = calls[n] /\ Releasing(n)
        BY <1>1, <2>2, ReturnCalls DEF Releasing
      <3> QED  BY <1>1, <2>2, <3>1 DEF IInv, Releases
    <2> QED  BY <2>1, <2>2 DEF Releases
  <1>16. Lost'
    BY <1>1, <1>5, <1>12 DEF IInv, Lost
  <1> QED  BY <1>7, <1>14, <1>15, <1>16 DEF IInv

-----------------------------------------------------------------------------
(* Another call in place of the innermost one. *)
LEMMA Replaced ==
    ASSUME calls \in Seq(Calls), calls # << >>, NEW f \in Calls
    PROVE  /\ Append(Returned, f) \in Seq(Calls) /\ DOMAIN Append(Returned, f) = DOMAIN calls
           /\ Len(Append(Returned, f)) = Len(calls)
           /\ Len(calls) \in DOMAIN calls /\ Append(Returned, f)[Len(calls)] = f
           /\ \A n \in DOMAIN calls : n # Len(calls) => Append(Returned, f)[n] = calls[n]
  <1>1. PICK l, r : l = Len(calls) /\ r = Returned
    OBVIOUS
  <1>2. /\ l \in Nat \ {0} /\ DOMAIN calls = 1 .. l
        /\ r \in Seq(Calls) /\ Len(r) = l - 1
        /\ \A n \in 1 .. l - 1 : r[n] = calls[n]
    BY <1>1, TopCall
  <1>3. /\ Append(r, f) \in Seq(Calls) /\ Len(Append(r, f)) = Len(r) + 1
        /\ \A n \in 1 .. Len(r) : Append(r, f)[n] = r[n]
        /\ Append(r, f)[Len(r) + 1] = f
    BY <1>2, AppendProperties
  <1>4. Len(Append(r, f)) = l /\ Append(r, f)[l] = f /\ DOMAIN Append(r, f) = 1 .. l
    <2>1. Len(r) + 1 = l
      BY <1>2
    <2>2. DOMAIN Append(r, f) = 1 .. Len(Append(r, f))
      BY <1>3
    <2> QED  BY <1>3, <2>1, <2>2
  <1>5. \A n \in 1 .. l : n # l => n \in 1 .. l - 1 /\ n \in 1 .. Len(r)
    BY <1>2
  <1> QED  BY <1>1, <1>2, <1>3, <1>4, <1>5

(* aktive_image_destroy, when the content goes too: its release begins. *)
Begins(i) == /\ IInv /\ InState({"unref"}) /\ i = Running.image
             /\ image[i].refcount <= 1 /\ ~ SharedContent(image[i].content)
             /\ calls' = Append(Returned, Call("destroy", i))
             /\ UNCHANGED << image, content, object, held, allocated, objects >>

LEMMA StepBegins == ASSUME NEW i, Begins(i) PROVE IInv'
  <1>1. Running.kind = "unref" /\ IInv /\ Types /\ calls # << >>
    BY DEF Begins, InState, IInv
  <1>2. PICK l : l = Len(calls)
    OBVIOUS
  <1>3. PICK d : d = image[i].content
    OBVIOUS
  <1>4. /\ i \in DOMAIN image /\ image[i].content \in DOMAIN content /\ image[i].refcount = 1
        /\ \A n \in DOMAIN calls : n # l => calls[n].image # i
    BY <1>1, <1>2, LastUse DEF Begins
  <1>5. Call("destroy", i) \in Calls
    BY <1>1, <1>4 DEF Call, Calls, Kinds, Types
  <1>6. /\ calls' \in Seq(Calls) /\ DOMAIN calls' = DOMAIN calls /\ l \in DOMAIN calls
        /\ calls[l].kind = "unref" /\ calls[l].image = i
        /\ calls'[l].kind = "destroy" /\ calls'[l].image = i /\ calls'[l].next = 1
        /\ \A n \in DOMAIN calls : n # l => calls'[n] = calls[n]
    BY <1>1, <1>2, <1>5, Replaced DEF Begins, Types, Call, Running
  <1>7. Types'
    BY <1>1, <1>6 DEF Begins, Types
  <1>8. ASSUME NEW c, NEW k \in Nat, k # 0 PROVE Passed(c, k)' <=> Passed(c, k)
    <2>1. Passed(c, k) => Passed(c, k)'
      BY <1>6 DEF Passed, Begins
    <2>2. Passed(c, k)' => Passed(c, k)
      BY <1>6, <1>8 DEF Passed, Begins
    <2> QED  BY <2>1, <2>2
  <1>9. ASSUME NEW j PROVE Uses(j)' = Uses(j)
    <2>1. UsesByCall(j)' = UsesByCall(j)
      BY <1>6 DEF UsesByCall
    <2>2. UsesByValue(j)' = UsesByValue(j)
      BY DEF UsesByValue, Begins
    <2>3. UsesAsInput(j)' = UsesAsInput(j)
      BY <1>8, ImagesAssumption DEF UsesAsInput, Begins
    <2> QED  BY <2>1, <2>2, <2>3 DEF Uses
  <1>10. \A c : SharedBy(c)' = SharedBy(c)
    BY DEF SharedBy, Begins
  <1>11. CountsExact'
    <2>1. /\ \A o \in DOMAIN object' : object'[o] \in DOMAIN image'
          /\ \A j \in DOMAIN image' : image'[j].content \in DOMAIN content' \cup {0}
          /\ \A j \in DOMAIN image' : image'[j].refcount = Cardinality(Uses(j)')
          /\ \A c \in DOMAIN content' : content'[c].refcount = Cardinality(SharedBy(c)')
      BY <1>1, <1>9, <1>10 DEF Begins, IInv, CountsExact
    <2>2. ASSUME NEW c \in DOMAIN content', NEW k \in DOMAIN content'[c].srcs
          PROVE  Passed(c, k)' \/ content'[c].srcs[k] \in DOMAIN image'
      <3>1. c \in DOMAIN content /\ k \in DOMAIN content[c].srcs /\ k \in Nat /\ k # 0
        BY <1>1, <2>2, Places DEF Begins
      <3> QED  BY <1>1, <1>8, <3>1 DEF Begins, IInv, CountsExact
    <2>3. \A n \in DOMAIN calls' : calls'[n].image \in DOMAIN image'
      BY <1>1, <1>6 DEF Begins, IInv, CountsExact
    <2> QED  BY <2>1, <2>2, <2>3 DEF CountsExact
  <1>12. SharedBy(d) = {i}
    <2>1. content[d].refcount = Cardinality(SharedBy(d)) /\ content[d].refcount \in Nat
      BY <1>1, <1>3, <1>4 DEF IInv, CountsExact, Types, Content
    <2>2. Cardinality(SharedBy(d)) <= 1
      BY <1>3, <2>1 DEF Begins, SharedContent
    <2>3. i \in SharedBy(d) /\ IsFiniteSet(SharedBy(d))
      BY <1>1, <1>3, <1>4, SharersFinite DEF SharedBy
    <2> QED  BY <2>2, <2>3, OnlyMember
  <1>13. Releases'
    <2>1. ASSUME NEW n \in DOMAIN calls', Releasing(n)' PROVE Released(n)'
      <3>1. CASE n = l
        <4>1. PICK m \in 0 .. MaxInputs : DOMAIN content[d].srcs = 1 .. m
          BY <1>1, <1>3, <1>4, Places
        <4>2. 1 \in 1 .. m + 1
          BY ImagesAssumption
        <4> QED  BY <1>3, <1>4, <1>6, <1>10, <1>12, <3>1, <4>1, <4>2 DEF Released, Begins
      <3>2. CASE n # l
        <4>1. n \in DOMAIN calls /\ calls'[n] = calls[n] /\ Releasing(n)
          BY <1>6, <2>1, <3>2 DEF Releasing
        <4>2. Released(n)
          BY <1>1, <4>1 DEF IInv, Releases
        <4> QED  BY <1>10, <4>1, <4>2 DEF Released, Begins
      <3> QED  BY <3>1, <3>2
    <2>2. ASSUME NEW m \in DOMAIN calls', NEW n \in DOMAIN calls', Releasing(m)', Releasing(n)',
                 calls'[m].image = calls'[n].image
          PROVE  m = n
      <3>1. CASE m # l /\ n # l
        <4>1. /\ m \in DOMAIN calls /\ calls'[m] = calls[m] /\ Releasing(m)
              /\ n \in DOMAIN calls /\ calls'[n] = calls[n] /\ Releasing(n)
          BY <1>6, <2>2, <3>1 DEF Releasing
        <4> QED  BY <1>1, <2>2, <4>1 DEF IInv, Releases
      <3>2. CASE m = l \/ n = l
        BY <1>4, <1>6, <2>2, <3>2
      <3> QED  BY <3>1, <3>2
    <2> QED  BY <2>1, <2>2 DEF Releases
  <1>14. Lost'
    BY <1>1, <1>9 DEF IInv, Lost, Begins
  <1> QED  BY <1>7, <1>11, <1>13, <1>14 DEF IInv

-----------------------------------------------------------------------------
(* A release, and the content it is about. *)
LEMMA TopRelease ==
    ASSUME IInv, InState({"destroy", "undo"}), NEW i, i = Running.image
    PROVE  /\ Types /\ calls # << >> /\ Len(calls) \in DOMAIN calls /\ Running = calls[Len(calls)]
           /\ Releasing(Len(calls)) /\ Running \in Calls
           /\ i \in DOMAIN image /\ image[i].content \in DOMAIN content
           /\ SharedBy(image[i].content) = {i}
           /\ \E m \in 0 .. MaxInputs : DOMAIN Sources = 1 .. m /\ Running.next \in 1 .. m + 1
           /\ image[i].refcount = IF Running.kind = "destroy" THEN 1 ELSE 0
           /\ \A n \in DOMAIN calls :
                  Releasing(n) /\ image[calls[n].image].content = image[i].content => n = Len(calls)
  <1>1. /\ Types /\ calls # << >> /\ Len(calls) \in DOMAIN calls /\ Running = calls[Len(calls)]
        /\ Running \in Calls /\ Releasing(Len(calls))
    BY TopCall DEF InState, Running, Releasing, IInv, Types
  <1>2. Released(Len(calls))
    BY <1>1 DEF IInv, Releases
  <1>3. i \in DOMAIN image
    BY <1>1 DEF IInv, CountsExact
  <1>4. ASSUME NEW n \in DOMAIN calls, Releasing(n), image[calls[n].image].content = image[i].content
        PROVE  n = Len(calls)
    <2>1. calls[n].image \in DOMAIN image
      BY DEF IInv, CountsExact
    <2>2. calls[n].image \in SharedBy(image[i].content)
      BY <1>4, <2>1 DEF SharedBy
    <2>3. calls[n].image = i
      BY <1>1, <1>2, <2>2 DEF Released
    <2> QED  BY <1>1, <1>4, <2>3 DEF IInv, Releases
  <1> QED  BY <1>1, <1>2, <1>3, <1>4 DEF Released, Sources

(* The loop drops one use and makes another. *)
Drops(i, d, k) == /\ IInv /\ UnrefInput /\ i = Running.image /\ d = image[i].content /\ k = Running.next

LEMMA StepDrops == ASSUME NEW i, NEW d, NEW k, Drops(i, d, k) PROVE IInv'
  <1>1. IInv /\ Types /\ calls # << >> /\ UNCHANGED << image, content, object, held, allocated, objects >>
    BY DEF Drops, UnrefInput, InState, IInv
  <1>2. PICK l : l = Len(calls)
    OBVIOUS
  <1>3. /\ l \in DOMAIN calls /\ Running = calls[l] /\ Running \in Calls /\ Releasing(l)
        /\ calls[l].image = i /\ calls[l].next = k
        /\ i \in DOMAIN image /\ d \in DOMAIN content
        /\ SharedBy(d) = {i} /\ image[i].content = d
        /\ \A n \in DOMAIN calls : Releasing(n) /\ image[calls[n].image].content = d => n = l
    BY <1>1, <1>2, TopRelease DEF Drops, UnrefInput
  <1>4. k \in DOMAIN content[d].srcs
    BY DEF Drops, UnrefInput, Sources
  <1>5. PICK s : s = content[d].srcs[k]
    OBVIOUS
  <1>6. k \in 1 .. MaxInputs /\ k \in Nat /\ s \in Nat
    BY <1>1, <1>3, <1>4, <1>5, Places
  <1>7. ~ Passed(d, k)
    BY <1>3, <1>6 DEF Passed, Releasing
  <1>8. s \in DOMAIN image
    BY <1>1, <1>3, <1>4, <1>5, <1>7 DEF IInv, CountsExact
  <1>9. PICK g : g = [Running EXCEPT !.next = @ + 1]
    OBVIOUS
  <1>10. g \in Calls /\ g.kind = calls[l].kind /\ g.image = i /\ g.next = k + 1
    <2>1. Running \in Calls /\ Running.image = i /\ Running.next = k /\ Running.kind = calls[l].kind
      BY <1>3
    <2> QED  BY <1>6, <1>9, <2>1 DEF Calls
  <1>11. PICK q : q = Append(Returned, g)
    OBVIOUS
  <1>12. /\ q \in Seq(Calls) /\ DOMAIN q = DOMAIN calls /\ q[l] = g /\ Len(q) = l
         /\ \A n \in DOMAIN calls : n # l => q[n] = calls[n]
    BY <1>1, <1>2, <1>10, <1>11, Replaced DEF Types
  <1>13. Call("unref", s) \in Calls
    BY <1>6 DEF Call, Calls, Kinds
  <1>14. calls' = Append(q, Call("unref", s))
    BY <1>5, <1>9, <1>11 DEF Drops, UnrefInput, Sources
  <1>15. /\ l \in Nat /\ DOMAIN calls = 1 .. l /\ calls' \in Seq(Calls) /\ DOMAIN calls' = 1 .. l + 1
         /\ calls'[l + 1] = Call("unref", s)
         /\ \A n \in 1 .. l : calls'[n] = q[n]
    <2>1. l \in Nat /\ DOMAIN calls = 1 .. l
      BY <1>1, <1>2 DEF Types
    <2>2. /\ calls' \in Seq(Calls) /\ Len(calls') = l + 1 /\ calls'[l + 1] = Call("unref", s)
          /\ \A n \in 1 .. l : calls'[n] = q[n]
      BY <1>12, <1>13, <1>14, <2>1, AppendProperties
    <2>3. DOMAIN calls' = 1 .. Len(calls')
      BY <2>2
    <2> QED  BY <2>1, <2>2, <2>3
  <1>16. /\ \A n \in DOMAIN calls : /\ n \in DOMAIN calls' /\ calls'[n].kind = calls[n].kind
                                    /\ calls'[n].image = calls[n].image
                                    /\ n # l => calls'[n].next = calls[n].next
         /\ calls'[l].next = k + 1
         /\ l + 1 \in DOMAIN calls' /\ l + 1 \notin DOMAIN calls
         /\ \A n \in DOMAIN calls' : n \in DOMAIN calls \/ n = l + 1
         /\ calls'[l + 1].kind = "unref" /\ calls'[l + 1].image = s
    BY <1>3, <1>10, <1>12, <1>15 DEF Call
  <1>17. Types'
    BY <1>1, <1>15 DEF Types
  <1>18. ASSUME NEW c, NEW j \in Nat PROVE Passed(c, j)' <=> Passed(c, j) \/ (c = d /\ j = k)
    <2>1. ASSUME NEW n \in DOMAIN calls, calls[n].kind # "unref",
                 image[calls[n].image].content = c, j < calls[n].next
          PROVE  Passed(c, j)'
      <3>1. n \in DOMAIN calls' /\ calls'[n].kind = calls[n].kind /\ calls'[n].image = calls[n].image
        BY <1>16
      <3>2. j < calls'[n].next
        <4>1. CASE n # l
          BY <1>16, <2>1, <4>1
        <4>2. CASE n = l
          BY <1>3, <1>6, <1>16, <2>1, <4>2
        <4> QED  BY <4>1, <4>2
      <3> QED  BY <1>1, <2>1, <3>1, <3>2 DEF Passed
    <2>2. Passed(c, j) => Passed(c, j)'
      BY <2>1 DEF Passed
    <2>3. c = d /\ j = k => Passed(c, j)'
      BY <1>1, <1>3, <1>6, <1>16 DEF Passed, Releasing
    <2>4. ASSUME NEW n \in DOMAIN calls', calls'[n].kind # "unref",
                 image'[calls'[n].image].content = c, j < calls'[n].next
          PROVE  Passed(c, j) \/ (c = d /\ j = k)
      <3>1. n \in DOMAIN calls /\ calls[n].kind # "unref" /\ image[calls[n].image].content = c
        BY <1>1, <1>16, <2>4
      <3>2. CASE n # l
        BY <1>16, <2>4, <3>1, <3>2 DEF Passed
      <3>3. CASE n = l
        <4>1. c = d /\ j < k + 1
          BY <1>3, <1>16, <2>4, <3>1, <3>3
        <4>2. CASE j = k
          BY <4>1, <4>2
        <4>3. CASE j # k
          <5>1. j < k
            BY <1>6, <4>1, <4>3
          <5> QED  BY <1>3, <3>1, <3>3, <5>1 DEF Passed
        <4> QED  BY <4>2, <4>3
      <3> QED  BY <3>2, <3>3
    <2>5. Passed(c, j)' => Passed(c, j) \/ (c = d /\ j = k)
      BY <2>4 DEF Passed
    <2> QED  BY <2>2, <2>3, <2>5
  <1>19. PICK u, v : u = << "input", d, k >> /\ v = << "call", l + 1, 0 >>
    OBVIOUS
  <1>20. ASSUME NEW j
         PROVE  /\ Uses(j)' = IF j = s THEN (Uses(j) \ {u}) \cup {v} ELSE Uses(j)
                /\ v \notin Uses(j) /\ (u \in Uses(j) <=> j = s)
    <2>1. UsesByValue(j)' = UsesByValue(j) /\ u \notin UsesByValue(j) /\ v \notin UsesByValue(j)
      BY <1>1, <1>19 DEF UsesByValue
    <2>2. /\ UsesByCall(j)' = IF j = s THEN UsesByCall(j) \cup {v} ELSE UsesByCall(j)
          /\ u \notin UsesByCall(j) /\ v \notin UsesByCall(j)
      <3>1. u \notin UsesByCall(j) /\ v \notin UsesByCall(j)
        BY <1>16, <1>19 DEF UsesByCall
      <3>2. j = s => v \in UsesByCall(j)'
        BY <1>16, <1>19 DEF UsesByCall
      <3>3. \A w : w \in UsesByCall(j) => w \in UsesByCall(j)'
        BY <1>16 DEF UsesByCall
      <3>4. \A w : w \in UsesByCall(j)' => w \in UsesByCall(j) \/ (j = s /\ w = v)
        BY <1>16, <1>19 DEF UsesByCall
      <3> QED  BY <3>1, <3>2, <3>3, <3>4
    <2>3. /\ UsesAsInput(j)' = UsesAsInput(j) \ {u}
          /\ v \notin UsesAsInput(j) /\ (u \in UsesAsInput(j) <=> j = s)
      <3>1. v \notin UsesAsInput(j) /\ (u \in UsesAsInput(j) <=> j = s)
        BY <1>3, <1>4, <1>5, <1>6, <1>7, <1>19 DEF UsesAsInput
      <3>2. \A c : \A n \in 1 .. MaxInputs : Passed(c, n)' <=> Passed(c, n) \/ (c = d /\ n = k)
        BY <1>18, ImagesAssumption
      <3>3. UsesAsInput(j)' = UsesAsInput(j) \ {u}
        BY <1>1, <1>19, <3>2 DEF UsesAsInput
      <3> QED  BY <3>1, <3>3
    <2> QED  BY <2>1, <2>2, <2>3 DEF Uses
  <1>21. \A c : SharedBy(c)' = SharedBy(c)
    BY <1>1 DEF SharedBy
  <1>22. CountsExact'
    <2>1. /\ \A o \in DOMAIN object' : object'[o] \in DOMAIN image'
          /\ \A j \in DOMAIN image' : image'[j].content \in DOMAIN content' \cup {0}
          /\ \A c \in DOMAIN content' : content'[c].refcount = Cardinality(SharedBy(c)')
      BY <1>1, <1>21 DEF IInv, CountsExact
    <2>2. ASSUME NEW c \in DOMAIN content', NEW j \in DOMAIN content'[c].srcs
          PROVE  Passed(c, j)' \/ content'[c].srcs[j] \in DOMAIN image'
      <3>1. c \in DOMAIN content /\ j \in DOMAIN content[c].srcs /\ j \in Nat
        BY <1>1, <2>2, Places
      <3> QED  BY <1>1, <1>18, <3>1 DEF IInv, CountsExact
    <2>3. \A n \in DOMAIN calls' : calls'[n].image \in DOMAIN image'
      BY <1>1, <1>8, <1>16 DEF IInv, CountsExact
    <2>4. ASSUME NEW j \in DOMAIN image' PROVE image'[j].refcount = Cardinality(Uses(j)')
      <3>1. image'[j].refcount = Cardinality(Uses(j)) /\ IsFiniteSet(Uses(j)) /\ Cardinality(Uses(j)) \in Nat
        BY <1>1, UsesFinite DEF IInv, CountsExact
      <3>2. CASE j = s
        <4>1. /\ IsFiniteSet(Uses(j) \ {u}) /\ Cardinality(Uses(j) \ {u}) = Cardinality(Uses(j)) - 1
          BY <1>20, <3>1, <3>2, FS_RemoveElement
        <4>2. Cardinality((Uses(j) \ {u}) \cup {v}) = Cardinality(Uses(j) \ {u}) + 1
          BY <1>20, <4>1, FS_AddElement
        <4>3. Uses(j)' = (Uses(j) \ {u}) \cup {v}
          BY <1>20, <3>2
        <4>4. Cardinality((Uses(j) \ {u}) \cup {v}) = Cardinality(Uses(j))
          BY <3>1, <4>1, <4>2
        <4> QED  BY <3>1, <4>3, <4>4
      <3>3. CASE j # s
        BY <1>20, <3>1, <3>3
      <3> QED  BY <3>2, <3>3
    <2> QED  BY <2>1, <2>2, <2>3, <2>4 DEF CountsExact
  <1>23. ASSUME NEW n \in DOMAIN calls', Releasing(n)'
         PROVE  n \in DOMAIN calls /\ Releasing(n) /\ calls'[n].image = calls[n].image
    BY <1>16, <1>23 DEF Releasing
  <1>24. Releases'
    <2>1. ASSUME NEW n \in DOMAIN calls', Releasing(n)' PROVE Released(n)'
      <3>1. /\ n \in DOMAIN calls /\ calls'[n].kind = calls[n].kind
            /\ calls'[n].image = calls[n].image /\ Released(n)
        BY <1>1, <1>16, <1>23, <2>1 DEF IInv, Releases
      <3>2. \E m \in 0 .. MaxInputs : /\ DOMAIN content[image[calls[n].image].content].srcs = 1 .. m
                                      /\ calls'[n].next \in 1 .. m + 1
        <4>1. PICK m \in 0 .. MaxInputs : /\ DOMAIN content[image[calls[n].image].content].srcs = 1 .. m
                                          /\ calls[n].next \in 1 .. m + 1
          BY <3>1 DEF Released
        <4>2. CASE n = l
          <5>1. k \in 1 .. m /\ m \in Nat
            BY <1>3, <1>4, <4>1, <4>2, ImagesAssumption
          <5>2. k + 1 \in 1 .. m + 1
            BY <5>1
          <5> QED  BY <1>16, <4>1, <4>2, <5>2
        <4>3. CASE n # l
          BY <1>16, <3>1, <4>1, <4>3
        <4> QED  BY <4>2, <4>3
      <3> QED  BY <1>1, <1>21, <3>1, <3>2 DEF Released
    <2> QED  BY <1>1, <1>23, <2>1 DEF IInv, Releases
  <1>25. Lost'
    <2> SUFFICES ASSUME NEW j \in DOMAIN image', image'[j].content = 0 PROVE Uses(j)' = {}
      BY DEF Lost
    <2>1. Uses(j) = {}
      BY <1>1 DEF IInv, Lost
    <2> QED  BY <1>20, <2>1
  <1> QED  BY <1>17, <1>22, <1>24, <1>25 DEF IInv

(* The end of a release. *)
Frees(i, d) == IInv /\ FreeContent /\ i = Running.image /\ d = image[i].content

LEMMA StepFrees == ASSUME NEW i, NEW d, Frees(i, d) PROVE IInv'
  <1>1. IInv /\ Types /\ Returns /\ calls # << >> /\ UNCHANGED << object, held, allocated, objects >>
    BY DEF Frees, FreeContent, InState, IInv, Returns
  <1>2. PICK l, kind : l = Len(calls) /\ kind = Running.kind
    OBVIOUS
  <1>3. /\ l \in DOMAIN calls /\ Running = calls[l] /\ Running \in Calls /\ Releasing(l)
        /\ calls[l].image = i /\ kind \in {"destroy", "undo"}
        /\ i \in DOMAIN image /\ d \in DOMAIN content
        /\ SharedBy(d) = {i} /\ image[i].content = d
        /\ image[i].refcount = IF kind = "destroy" THEN 1 ELSE 0
        /\ \A n \in DOMAIN calls : Releasing(n) /\ image[calls[n].image].content = d => n = l
    BY <1>1, <1>2, TopRelease DEF Frees, FreeContent, InState
  <1>4. PICK m \in 0 .. MaxInputs : DOMAIN content[d].srcs = 1 .. m /\ Running.next \in 1 .. m + 1
    BY TopRelease DEF Frees, FreeContent, Sources
  <1>5. \A k \in DOMAIN content[d].srcs : Passed(d, k)
    <2>1. Running.next \notin 1 .. m /\ Running.next \in Nat /\ m \in Nat
      BY <1>3, <1>4, ImagesAssumption DEF Frees, FreeContent, Sources, Calls
    <2>2. \A k \in 1 .. m : k < Running.next
      BY <1>4, <2>1
    <2> QED  BY <1>3, <1>4, <2>2 DEF Passed, Releasing
  <1>6. /\ DOMAIN content' = DOMAIN content \ {d} /\ content' \in [DOMAIN content' -> Content]
        /\ \A c \in DOMAIN content' : content'[c] = content[c]
    BY <1>1, <1>3 DEF Frees, FreeContent, Dropped, Types
  <1>7. Uses(i) \subseteq {<< "call", l, 0 >>}
    <2>1. CASE kind = "destroy"
      BY <1>1, <1>2, <1>3, <2>1, LastUse DEF Frees
    <2>2. CASE kind = "undo"
      <3>1. Cardinality(Uses(i)) = 0 /\ IsFiniteSet(Uses(i))
        BY <1>1, <1>3, <2>2, UsesFinite DEF IInv, CountsExact
      <3> QED  BY <3>1, FS_EmptySet
    <2> QED  BY <1>3, <2>1, <2>2
  <1>8. /\ \A o \in DOMAIN object : object[o] # i
        /\ \A c \in DOMAIN content : \A k \in DOMAIN content[c].srcs : Passed(c, k) \/ content[c].srcs[k] # i
        /\ \A n \in DOMAIN calls : n # l => calls[n].image # i
    <2>1. \A n \in DOMAIN calls : calls[n].kind = "undo" /\ n # l => calls[n].image # i
      BY <1>1, <1>3 DEF IInv, Releases, Releasing
    <2> QED  BY <1>1, <1>7, <2>1, NoOtherUse
  <1>9. /\ \A j \in DOMAIN image : j # i => j \in DOMAIN image' /\ image'[j] = image[j]
        /\ \A j \in DOMAIN image' : j \in DOMAIN image
        /\ image' \in [DOMAIN image' -> Image]
        /\ i \in DOMAIN image' => /\ kind = "undo" /\ image'[i].content = 0
                                  /\ image'[i].refcount = image[i].refcount
    <2>1. CASE kind = "destroy"
      <3>1. image' = Dropped(image, i)
        BY <1>2, <2>1 DEF Frees, FreeContent
      <3> QED  BY <1>1, <2>1, <3>1 DEF Dropped, Types
    <2>2. CASE kind = "undo"
      <3>1. image' = [image EXCEPT ![i].content = 0]
        BY <1>2, <2>2 DEF Frees, FreeContent
      <3>2. image \in [DOMAIN image -> Image]
        BY <1>1 DEF Types
      <3> QED  BY <1>3, <2>2, <3>1, <3>2, Disowned
    <2> QED  BY <1>3, <2>1, <2>2
  <1>10. Types'
    <2>1. DOMAIN image' \subseteq 1 .. allocated /\ DOMAIN content' \subseteq 1 .. allocated
      BY <1>1, <1>6, <1>9 DEF Types
    <2>2. calls' \in Seq(Calls)
      BY <1>1, ReturnCalls
    <2> QED  BY <1>1, <1>6, <1>9, <2>1, <2>2 DEF Types
  <1>11. ASSUME NEW n \in DOMAIN calls'
         PROVE  /\ n \in DOMAIN calls /\ n # l /\ calls'[n] = calls[n]
                /\ calls[n].image \in DOMAIN image /\ calls[n].image \in DOMAIN image'
                /\ image'[calls[n].image] = image[calls[n].image]
    <2>1. n \in DOMAIN calls /\ n # l /\ calls'[n] = calls[n]
      BY <1>1, <1>2, ReturnCalls
    <2>2. calls[n].image \in DOMAIN image /\ calls[n].image # i
      BY <1>1, <1>8, <2>1 DEF IInv, CountsExact
    <2> QED  BY <1>9, <2>1, <2>2
  <1>12. \A n \in DOMAIN calls : n # l => n \in DOMAIN calls'
    BY <1>1, <1>2, ReturnCalls
  <1>13. ASSUME NEW c, NEW k, c # d PROVE Passed(c, k)' <=> Passed(c, k)
    <2>1. Passed(c, k)' => Passed(c, k)
      BY <1>11 DEF Passed
    <2>2. \A n \in DOMAIN calls : image[calls[n].image].content = c => n # l
      BY <1>3, <1>13
    <2>3. Passed(c, k) => Passed(c, k)'
      BY <1>11, <1>12, <2>2 DEF Passed
    <2> QED  BY <2>1, <2>3
  <1>14. ASSUME NEW j PROVE Uses(j)' = Uses(j) \ {<< "call", l, 0 >>}
    <2>1. UsesByCall(j)' = UsesByCall(j) \ {<< "call", l, 0 >>}
      BY <1>1, <1>2, ReturnCalls
    <2>2. UsesByValue(j)' = UsesByValue(j) /\ << "call", l, 0 >> \notin UsesByValue(j)
      BY <1>1 DEF UsesByValue
    <2>3. UsesAsInput(j)' = UsesAsInput(j) /\ << "call", l, 0 >> \notin UsesAsInput(j)
      BY <1>5, <1>6, <1>13 DEF UsesAsInput
    <2> QED  BY <2>1, <2>2, <2>3 DEF Uses
  <1>15. Uses(i)' = {} /\ \A j : j # i => Uses(j)' = Uses(j)
    <2>1. ASSUME NEW j, j # i PROVE << "call", l, 0 >> \notin Uses(j)
      BY <1>3, <2>1 DEF Uses, UsesByCall, UsesByValue, UsesAsInput
    <2> QED  BY <1>7, <1>14, <2>1
  <1>16. ASSUME NEW c \in DOMAIN content' PROVE SharedBy(c)' = SharedBy(c)
    <2>1. c # d /\ c # 0
      BY <1>1, <1>6 DEF Types
    <2> QED  BY <1>3, <1>9, <2>1 DEF SharedBy
  <1>17. CountsExact'
    <2>1. \A o \in DOMAIN object' : object'[o] \in DOMAIN image'
      BY <1>1, <1>8, <1>9 DEF IInv, CountsExact
    <2>2. \A c \in DOMAIN content' : \A k \in DOMAIN content'[c].srcs :
              Passed(c, k)' \/ content'[c].srcs[k] \in DOMAIN image'
      BY <1>1, <1>6, <1>8, <1>9, <1>13 DEF IInv, CountsExact
    <2>3. \A n \in DOMAIN calls' : calls'[n].image \in DOMAIN image'
      BY <1>11
    <2>4. ASSUME NEW j \in DOMAIN image' PROVE image'[j].refcount = Cardinality(Uses(j)')
      <3>1. CASE j = i
        BY <1>3, <1>9, <1>15, <3>1, FS_EmptySet
      <3>2. CASE j # i
        BY <1>1, <1>9, <1>15, <3>2 DEF IInv, CountsExact
      <3> QED  BY <3>1, <3>2
    <2>5. \A c \in DOMAIN content' : content'[c].refcount = Cardinality(SharedBy(c)')
      BY <1>1, <1>6, <1>16 DEF IInv, CountsExact
    <2>6. ASSUME NEW j \in DOMAIN image' PROVE image'[j].content \in DOMAIN content' \cup {0}
      <3>1. CASE j = i
        BY <1>9, <3>1
      <3>2. CASE j # i
        <4>1. j \in DOMAIN image /\ image'[j] = image[j]
          BY <1>9, <3>2
        <4>2. image[j].content # d
          BY <1>3, <3>2, <4>1 DEF SharedBy
        <4> QED  BY <1>1, <1>6, <4>1, <4>2 DEF IInv, CountsExact
      <3> QED  BY <3>1, <3>2
    <2> QED  BY <2>1, <2>2, <2>3, <2>4, <2>5, <2>6 DEF CountsExact
  <1>18. Releases'
    <2>1. ASSUME NEW n \in DOMAIN calls', Releasing(n)' PROVE Released(n)'
      <3>1. n \in DOMAIN calls /\ calls'[n] = calls[n] /\ Releasing(n) /\ n # l
        BY <1>11, <2>1 DEF Releasing
      <3>2. Released(n)
        BY <1>1, <3>1 DEF IInv, Releases
      <3>3. PICK c : c = image[calls[n].image].content
        OBVIOUS
      <3>4. c # d /\ c \in DOMAIN content
        BY <1>3, <3>1, <3>2, <3>3 DEF Released
      <3>5. c \in DOMAIN content' /\ content'[c] = content[c] /\ SharedBy(c)' = SharedBy(c)
        BY <1>6, <1>16, <3>4
      <3> QED  BY <1>11, <3>1, <3>2, <3>3, <3>5 DEF Released
    <2>2. ASSUME NEW m1 \in DOMAIN calls', NEW n \in DOMAIN calls', Releasing(m1)', Releasing(n)',
                 calls'[m1].image = calls'[n].image
          PROVE  m1 = n
      BY <1>1, <1>11, <2>2 DEF IInv, Releases, Releasing
    <2> QED  BY <2>1, <2>2 DEF Releases
  <1>19. Lost'
    <2> SUFFICES ASSUME NEW j \in DOMAIN image', image'[j].content = 0 PROVE Uses(j)' = {}
      BY DEF Lost
    <2> QED  BY <1>1, <1>9, <1>15 DEF IInv, Lost
  <1> QED  BY <1>10, <1>17, <1>18, <1>19 DEF IInv

-----------------------------------------------------------------------------
(* Between calls: the same for values, images and contents given as
   arguments, with no call that uses any. *)
ValuesIn(objs, i)  == {u \in {"value"} \X (DOMAIN objs) \X {0} : objs[u[2]] = i}
InputsIn(conts, i) == {u \in {"input"} \X (DOMAIN conts) \X (1 .. MaxInputs) :
                          u[3] \in DOMAIN conts[u[2]].srcs /\ conts[u[2]].srcs[u[3]] = i}
UsesIn(objs, conts, i) == ValuesIn(objs, i) \cup InputsIn(conts, i)
Sharers(img, c)        == {i \in DOMAIN img : img[i].content = c}

HeapTypes(objs, img, conts, a, b) ==
    /\ a \in Nat /\ b \in Nat
    /\ DOMAIN img \subseteq 1 .. a /\ img \in [DOMAIN img -> Image]
    /\ DOMAIN conts \subseteq 1 .. a /\ conts \in [DOMAIN conts -> Content]
    /\ DOMAIN objs \subseteq 1 .. b /\ objs \in [DOMAIN objs -> Nat]

HeapKnown(objs, img, conts) ==
    /\ \A o \in DOMAIN objs : objs[o] \in DOMAIN img
    /\ \A c \in DOMAIN conts : \A k \in DOMAIN conts[c].srcs : conts[c].srcs[k] \in DOMAIN img
    /\ \A i \in DOMAIN img : img[i].content \in DOMAIN conts \cup {0}

HeapCounts(objs, img, conts) ==
    /\ \A i \in DOMAIN img : img[i].refcount = Cardinality(UsesIn(objs, conts, i))
    /\ \A c \in DOMAIN conts : conts[c].refcount = Cardinality(Sharers(img, c))
    /\ \A i \in DOMAIN img : img[i].content = 0 => UsesIn(objs, conts, i) = {}

Heap(objs, img, conts, a, b) == /\ HeapTypes(objs, img, conts, a, b)
                                /\ HeapKnown(objs, img, conts)
                                /\ HeapCounts(objs, img, conts)

LEMMA HeapFinite ==
    ASSUME NEW objs, NEW img, NEW conts, NEW a, NEW b, HeapTypes(objs, img, conts, a, b), NEW i
    PROVE  /\ IsFiniteSet(UsesIn(objs, conts, i)) /\ Cardinality(UsesIn(objs, conts, i)) \in Nat
           /\ IsFiniteSet(Sharers(img, i)) /\ Cardinality(Sharers(img, i)) \in Nat
  <1>1. a \in Int /\ b \in Int /\ 1 \in Int /\ MaxInputs \in Int
    BY ImagesAssumption DEF HeapTypes
  <1>2. IsFiniteSet(1 .. a) /\ IsFiniteSet(1 .. b) /\ IsFiniteSet(1 .. MaxInputs)
    BY <1>1, FS_Interval
  <1>3. IsFiniteSet(DOMAIN objs) /\ IsFiniteSet(DOMAIN conts)
    BY <1>2, FS_Subset DEF HeapTypes
  <1>4. Sharers(img, i) \in SUBSET (1 .. a)
    BY DEF Sharers, HeapTypes
  <1>5. IsFiniteSet(Sharers(img, i))
    BY <1>2, <1>4, FS_Subset
  <1>6. IsFiniteSet({"value"}) /\ IsFiniteSet({"input"}) /\ IsFiniteSet({0})
    BY FS_Singleton
  <1>7. IsFiniteSet(ValuesIn(objs, i))
    <2>1. IsFiniteSet({"value"} \X (DOMAIN objs) \X {0})
      BY <1>3, <1>6, TriplesFinite
    <2> QED  BY <2>1, FS_Subset DEF ValuesIn
  <1>8. IsFiniteSet(InputsIn(conts, i))
    <2>1. IsFiniteSet({"input"} \X (DOMAIN conts) \X (1 .. MaxInputs))
      BY <1>2, <1>3, <1>6, TriplesFinite
    <2> QED  BY <2>1, FS_Subset DEF InputsIn
  <1>9. IsFiniteSet(UsesIn(objs, conts, i))
    BY <1>7, <1>8, FS_Union DEF UsesIn
  <1> QED  BY <1>5, <1>9, FS_CardinalityType

LEMMA HeapBetween ==
    ASSUME IInv, calls = << >>
    PROVE  Heap(object, image, content, allocated, objects)
  <1>1. DOMAIN calls = {}
    OBVIOUS
  <1>2. \A c, k : ~ Passed(c, k)
    BY <1>1 DEF Passed
  <1>3. ASSUME NEW i PROVE UsesIn(object, content, i) = Uses(i) /\ Sharers(image, i) = SharedBy(i)
    <2>1. UsesByValue(i) = ValuesIn(object, i) /\ Sharers(image, i) = SharedBy(i)
      BY DEF UsesByValue, ValuesIn, Sharers, SharedBy
    <2>2. UsesAsInput(i) = InputsIn(content, i)
      BY <1>2 DEF UsesAsInput, InputsIn
    <2>3. UsesByCall(i) = {}
      BY <1>1 DEF UsesByCall
    <2> QED  BY <2>1, <2>2, <2>3 DEF Uses, UsesIn
  <1>4. HeapTypes(object, image, content, allocated, objects)
    BY DEF IInv, Types, HeapTypes
  <1>5. HeapKnown(object, image, content)
    BY <1>2 DEF IInv, CountsExact, HeapKnown
  <1>6. HeapCounts(object, image, content)
    BY <1>3 DEF IInv, CountsExact, Lost, HeapCounts
  <1> QED  BY <1>4, <1>5, <1>6 DEF Heap

(* After the script has changed them, with no release. *)
LEMMA AfterNone ==
    ASSUME HeapTypes(object, image, content, allocated, objects)',
           HeapKnown(object, image, content)', HeapCounts(object, image, content)',
           held' \in [Names -> DOMAIN object' \cup {0}], calls' = << >>
    PROVE  IInv'
  <1>1. DOMAIN calls' = {} /\ calls' \in Seq(Calls)
    OBVIOUS
  <1>2. \A c, k : ~ Passed(c, k)'
    BY <1>1 DEF Passed
  <1>3. ASSUME NEW i PROVE UsesIn(object, content, i)' = Uses(i)' /\ Sharers(image, i)' = SharedBy(i)'
    <2>1. UsesByValue(i)' = ValuesIn(object, i)' /\ Sharers(image, i)' = SharedBy(i)'
      BY DEF UsesByValue, ValuesIn, Sharers, SharedBy
    <2>2. UsesAsInput(i)' = InputsIn(content, i)'
      BY <1>2 DEF UsesAsInput, InputsIn
    <2>3. UsesByCall(i)' = {}
      BY <1>1 DEF UsesByCall
    <2> QED  BY <2>1, <2>2, <2>3 DEF Uses, UsesIn
  <1>4. Types'
    BY <1>1 DEF Types, HeapTypes
  <1>5. CountsExact' /\ Lost'
    BY <1>1, <1>3 DEF CountsExact, Lost, HeapKnown, HeapCounts
  <1>6. Releases'
    BY <1>1 DEF Releases
  <1> QED  BY <1>4, <1>5, <1>6 DEF IInv

(* After a value was dropped: in its place there is the call that releases it. *)
LEMMA AfterDrop ==
    ASSUME NEW objs, NEW old \in DOMAIN objs,
           HeapTypes(objs, image', content', allocated', objects'),
           HeapKnown(objs, image', content'), HeapCounts(objs, image', content'),
           object' = Dropped(objs, old), calls' = << Call("unref", objs[old]) >>,
           held' \in [Names -> DOMAIN object' \cup {0}]
    PROVE  IInv'
  <1>1. PICK s : s = objs[old]
    OBVIOUS
  <1>2. s \in Nat /\ s \in DOMAIN image'
    BY <1>1 DEF HeapTypes, HeapKnown
  <1>3. Call("unref", s) \in Calls
    BY <1>2 DEF Call, Calls, Kinds
  <1>4. /\ calls' \in Seq(Calls) /\ DOMAIN calls' = {1}
        /\ calls'[1].kind = "unref" /\ calls'[1].image = s
    BY <1>1, <1>3 DEF Call
  <1>5. \A c, k : ~ Passed(c, k)'
    BY <1>4 DEF Passed
  <1>6. /\ DOMAIN object' = DOMAIN objs \ {old} /\ object' \in [DOMAIN object' -> Nat]
        /\ \A o \in DOMAIN object' : object'[o] = objs[o]
    BY DEF Dropped, HeapTypes
  <1>7. PICK u, v : u = << "value", old, 0 >> /\ v = << "call", 1, 0 >>
    OBVIOUS
  <1>8. ASSUME NEW i
        PROVE  /\ Uses(i)' = IF i = s THEN (UsesIn(objs, content', i) \ {u}) \cup {v} ELSE UsesIn(objs, content', i)
               /\ v \notin UsesIn(objs, content', i) /\ (u \in UsesIn(objs, content', i) <=> i = s)
    <2>1. UsesByCall(i)' = IF i = s THEN {v} ELSE {}
      BY <1>4, <1>7 DEF UsesByCall
    <2>2. /\ UsesByValue(i)' = ValuesIn(objs, i) \ {u}
          /\ v \notin ValuesIn(objs, i) /\ (u \in ValuesIn(objs, i) <=> i = s)
      BY <1>1, <1>6, <1>7 DEF UsesByValue, ValuesIn
    <2>3. /\ UsesAsInput(i)' = InputsIn(content', i)
          /\ v \notin InputsIn(content', i) /\ u \notin InputsIn(content', i)
      BY <1>5, <1>7 DEF UsesAsInput, InputsIn
    <2> QED  BY <2>1, <2>2, <2>3 DEF Uses, UsesIn
  <1>9. Types'
    BY <1>4, <1>6 DEF Types, HeapTypes
  <1>10. CountsExact'
    <2>1. ASSUME NEW i \in DOMAIN image' PROVE image'[i].refcount = Cardinality(Uses(i)')
      <3>1. /\ image'[i].refcount = Cardinality(UsesIn(objs, content', i))
            /\ IsFiniteSet(UsesIn(objs, content', i)) /\ Cardinality(UsesIn(objs, content', i)) \in Nat
        BY HeapFinite DEF HeapCounts
      <3>2. PICK U : U = UsesIn(objs, content', i)
        OBVIOUS
      <3>3. CASE i = s
        <4>1. IsFiniteSet(U \ {u}) /\ Cardinality(U \ {u}) = Cardinality(U) - 1
          BY <1>8, <3>1, <3>2, <3>3, FS_RemoveElement
        <4>2. Cardinality((U \ {u}) \cup {v}) = Cardinality(U \ {u}) + 1
          BY <1>8, <3>2, <4>1, FS_AddElement
        <4>3. Uses(i)' = (U \ {u}) \cup {v}
          BY <1>8, <3>2, <3>3
        <4>4. Cardinality((U \ {u}) \cup {v}) = Cardinality(U)
          BY <3>1, <3>2, <4>1, <4>2
        <4> QED  BY <3>1, <3>2, <4>3, <4>4
      <3>4. CASE i # s
        BY <1>8, <3>1, <3>4
      <3> QED  BY <3>3, <3>4
    <2>2. \A c : SharedBy(c)' = Sharers(image', c)
      BY DEF SharedBy, Sharers
    <2>3. /\ \A o \in DOMAIN object' : object'[o] \in DOMAIN image'
          /\ \A n \in DOMAIN calls' : calls'[n].image \in DOMAIN image'
      BY <1>2, <1>4, <1>6 DEF HeapKnown
    <2>4. /\ \A c \in DOMAIN content' : \A k \in DOMAIN content'[c].srcs : content'[c].srcs[k] \in DOMAIN image'
          /\ \A j \in DOMAIN image' : image'[j].content \in DOMAIN content' \cup {0}
      BY DEF HeapKnown
    <2>5. \A c \in DOMAIN content' : content'[c].refcount = Cardinality(SharedBy(c)')
      BY <2>2 DEF HeapCounts
    <2> QED  BY <2>1, <2>3, <2>4, <2>5 DEF CountsExact
  <1>11. Releases'
    BY <1>4 DEF Releases, Releasing
  <1>12. Lost'
    <2> SUFFICES ASSUME NEW i \in DOMAIN image', image'[i].content = 0 PROVE Uses(i)' = {}
      BY DEF Lost
    <2>1. UsesIn(objs, content', i) = {}
      BY DEF HeapCounts
    <2> QED  BY <1>8, <2>1
  <1> QED  BY <1>9, <1>10, <1>11, <1>12 DEF IInv

(* The assignment of one of the values. *)
LEMMA AfterAssign ==
    ASSUME NEW objs, NEW w \in Names, NEW o \in DOMAIN objs \cup {0},
           Heap(objs, image', content', allocated', objects'),
           held \in [Names -> DOMAIN objs \cup {0}], Assign(objs, w, o)
    PROVE  IInv'
  <1> DEFINE old == held[w]
             last == old # 0 /\ old # o /\ \A v \in Names \ {w} : held[v] # old
  <1>1. 0 \notin DOMAIN objs /\ objs = [x \in DOMAIN objs |-> objs[x]]
    BY DEF Heap, HeapTypes
  <1>2. held' = [held EXCEPT ![w] = o]
    BY DEF Assign
  <1>3. CASE last
    <2>1. object' = Dropped(objs, old) /\ calls' = << Call("unref", objs[old]) >>
      BY <1>3 DEF Assign, FreeImage
    <2>2. old \in DOMAIN objs /\ DOMAIN object' = DOMAIN objs \ {old}
      BY <1>3, <2>1 DEF Dropped
    <2>3. held' \in [Names -> DOMAIN object' \cup {0}]
      BY <1>2, <1>3, <2>2
    <2> HIDE DEF old, last
    <2> QED  BY <2>1, <2>2, <2>3, AfterDrop DEF Heap
  <1>4. CASE ~ last
    <2>1. object' = objs /\ calls' = << >>
      BY <1>4 DEF Assign
    <2>2. held' \in [Names -> DOMAIN object' \cup {0}]
      BY <1>2, <2>1
    <2> HIDE DEF old, last
    <2> QED  BY <2>1, <2>2, AfterNone DEF Heap
  <1> QED  BY <1>3, <1>4

-----------------------------------------------------------------------------
(* aktive_new_image_obj: a value more, and a reference. *)
LEMMA HeapValue ==
    ASSUME NEW objs, NEW img, NEW conts, NEW a, NEW b, Heap(objs, img, conts, a, b),
           NEW i \in DOMAIN img, img[i].content # 0
    PROVE  /\ Heap(Added(objs, b + 1, i), aktive_image_ref(img, i), conts, a, b + 1)
           /\ DOMAIN Added(objs, b + 1, i) = DOMAIN objs \cup {b + 1}
  <1>0. PICK objs2, img2 : objs2 = Added(objs, b + 1, i) /\ img2 = aktive_image_ref(img, i)
    OBVIOUS
  <1>1. /\ HeapTypes(objs, img, conts, a, b) /\ HeapKnown(objs, img, conts) /\ HeapCounts(objs, img, conts)
        /\ a \in Nat /\ b \in Nat /\ img \in [DOMAIN img -> Image]
    BY DEF Heap, HeapTypes
  <1>2. PICK n \in Nat : n = img[i].refcount
    BY <1>1 DEF Image
  <1>3. /\ DOMAIN img2 = DOMAIN img /\ img2 \in [DOMAIN img2 -> Image] /\ img2[i].refcount = n + 1
        /\ \A j \in DOMAIN img : img2[j].content = img[j].content /\ (j # i => img2[j] = img[j])
    <2>1. PICK p \in Nat : p = n + 1
      BY <1>2
    <2>2. img2 = WithCount(img, i, p)
      BY <1>0, <1>2, <2>1 DEF aktive_image_ref, WithCount
    <2> QED  BY <1>1, <2>1, <2>2, RecountedImage
  <1>4. /\ DOMAIN objs2 = DOMAIN objs \cup {b + 1} /\ b + 1 \notin DOMAIN objs
        /\ objs2[b + 1] = i /\ \A o \in DOMAIN objs : objs2[o] = objs[o]
    BY <1>0, <1>1 DEF Added, HeapTypes
  <1>5. HeapTypes(objs2, img2, conts, a, b + 1)
    <2>1. DOMAIN objs2 \subseteq 1 .. b + 1
      BY <1>1, <1>4 DEF HeapTypes
    <2>2. objs2 \in [DOMAIN objs2 -> Nat]
      BY <1>0, <1>1, <1>4 DEF Added, HeapTypes
    <2> QED  BY <1>1, <1>3, <2>1, <2>2 DEF HeapTypes
  <1>6. HeapKnown(objs2, img2, conts)
    BY <1>1, <1>3, <1>4 DEF HeapKnown
  <1>7. PICK u : u = << "value", b + 1, 0 >>
    OBVIOUS
  <1>8. ASSUME NEW j
        PROVE  /\ UsesIn(objs2, conts, j) = IF j = i THEN UsesIn(objs, conts, j) \cup {u} ELSE UsesIn(objs, conts, j)
               /\ u \notin UsesIn(objs, conts, j)
    <2>1. /\ ValuesIn(objs2, j) = IF j = i THEN ValuesIn(objs, j) \cup {u} ELSE ValuesIn(objs, j)
          /\ u \notin ValuesIn(objs, j)
      BY <1>4, <1>7 DEF ValuesIn
    <2>2. u \notin InputsIn(conts, j)
      BY <1>7 DEF InputsIn
    <2> QED  BY <2>1, <2>2 DEF UsesIn
  <1>9. HeapCounts(objs2, img2, conts)
    <2>1. ASSUME NEW j \in DOMAIN img2 PROVE img2[j].refcount = Cardinality(UsesIn(objs2, conts, j))
      <3>1. img[j].refcount = Cardinality(UsesIn(objs, conts, j)) /\ IsFiniteSet(UsesIn(objs, conts, j))
        BY <1>1, <1>3, HeapFinite DEF HeapCounts
      <3>2. CASE j = i
        <4>1. PICK U : U = UsesIn(objs, conts, j)
          OBVIOUS
        <4>2. u \notin U /\ IsFiniteSet(U) /\ Cardinality(U) = n
          BY <1>2, <1>8, <3>1, <3>2, <4>1
        <4>3. Cardinality(U \cup {u}) = n + 1
          BY <4>2, FS_AddElement
        <4>4. UsesIn(objs2, conts, j) = U \cup {u}
          BY <1>8, <3>2, <4>1
        <4> QED  BY <1>3, <3>2, <4>3, <4>4
      <3>3. CASE j # i
        BY <1>3, <1>8, <3>1, <3>3
      <3> QED  BY <3>2, <3>3
    <2>2. \A c : Sharers(img2, c) = Sharers(img, c)
      BY <1>3 DEF Sharers
    <2>3. \A j \in DOMAIN img2 : img2[j].content = 0 => UsesIn(objs2, conts, j) = {}
      BY <1>1, <1>3, <1>8 DEF HeapCounts
    <2> QED  BY <1>1, <2>1, <2>2, <2>3 DEF HeapCounts
  <1> QED  BY <1>0, <1>4, <1>5, <1>6, <1>9 DEF Heap

(* A change of meta data in place. *)
WithMeta(f, x, m) == [f EXCEPT ![x].meta = m]

LEMMA HeapMeta ==
    ASSUME NEW objs, NEW img, NEW conts, NEW a, NEW b, Heap(objs, img, conts, a, b),
           NEW i \in DOMAIN img, NEW meta \in Metas \cup {NoMeta},
           NEW img2, img2 = WithMeta(img, i, meta)
    PROVE  Heap(objs, img2, conts, a, b) /\ img2[i].content = img[i].content /\ DOMAIN img2 = DOMAIN img
  <1>1. /\ HeapTypes(objs, img, conts, a, b) /\ HeapKnown(objs, img, conts) /\ HeapCounts(objs, img, conts)
        /\ img \in [DOMAIN img -> Image]
    BY DEF Heap, HeapTypes
  <1>2. PICK e : e = [img[i] EXCEPT !.meta = meta]
    OBVIOUS
  <1>3. img[i] \in Image
    BY <1>1
  <1>4. e \in Image /\ e.content = img[i].content /\ e.refcount = img[i].refcount
    BY <1>2, <1>3 DEF Image
  <1>5. img2 = [img EXCEPT ![i] = e]
    BY <1>2 DEF WithMeta
  <1>6. /\ DOMAIN img2 = DOMAIN img /\ img2 \in [DOMAIN img2 -> Image]
        /\ \A j \in DOMAIN img : img2[j].content = img[j].content /\ img2[j].refcount = img[j].refcount
    BY <1>1, <1>4, <1>5
  <1>7. HeapTypes(objs, img2, conts, a, b) /\ HeapKnown(objs, img2, conts)
    BY <1>1, <1>6 DEF HeapTypes, HeapKnown
  <1>8. HeapCounts(objs, img2, conts)
    <2>1. \A c : Sharers(img2, c) = Sharers(img, c)
      BY <1>6 DEF Sharers
    <2> QED  BY <1>1, <1>6, <2>1 DEF HeapCounts
  <1> QED  BY <1>6, <1>7, <1>8 DEF Heap

(* An image that is not used yet, of a content there is. *)
LEMMA HeapShare ==
    ASSUME NEW objs, NEW img, NEW conts, NEW a, NEW b, Heap(objs, img, conts, a, b),
           NEW d \in DOMAIN conts, NEW meta \in Metas \cup {NoMeta},
           NEW img2, img2 = Added(img, a + 1, [refcount |-> 0, content |-> d, meta |-> meta]),
           NEW conts2, conts2 = WithCount(conts, d, conts[d].refcount + 1)
    PROVE  /\ Heap(objs, img2, conts2, a + 1, b)
           /\ \A j \in DOMAIN img : j \in DOMAIN img2 /\ img2[j] = img[j]
  <1>1. /\ HeapTypes(objs, img, conts, a, b) /\ HeapKnown(objs, img, conts) /\ HeapCounts(objs, img, conts)
        /\ img \in [DOMAIN img -> Image] /\ conts \in [DOMAIN conts -> Content] /\ a \in Nat
        /\ d \in Nat /\ d # 0
    BY DEF Heap, HeapTypes
  <1>2. PICK n \in Nat : n = conts[d].refcount
    BY <1>1 DEF Content
  <1>3. /\ DOMAIN conts2 = DOMAIN conts /\ conts2 \in [DOMAIN conts2 -> Content] /\ conts2[d].refcount = n + 1
        /\ \A c \in DOMAIN conts : conts2[c].srcs = conts[c].srcs /\ (c # d => conts2[c] = conts[c])
    <2>1. PICK p \in Nat : p = n + 1
      BY <1>2
    <2>2. conts2 = WithCount(conts, d, p)
      BY <1>2, <2>1
    <2> QED  BY <1>1, <2>1, <2>2, RecountedContent
  <1>4. PICK e : e = [refcount |-> 0, content |-> d, meta |-> meta]
    OBVIOUS
  <1>5. e \in Image /\ e.refcount = 0 /\ e.content = d
    BY <1>1, <1>4 DEF Image
  <1>6. /\ DOMAIN img2 = DOMAIN img \cup {a + 1} /\ a + 1 \notin DOMAIN img
        /\ img2[a + 1] = e /\ \A j \in DOMAIN img : img2[j] = img[j]
        /\ img2 \in [DOMAIN img2 -> Image]
    <2>1. a + 1 \notin DOMAIN img
      BY <1>1 DEF HeapTypes
    <2> QED  BY <1>1, <1>4, <1>5, <2>1 DEF Added
  <1>7. HeapTypes(objs, img2, conts2, a + 1, b)
    <2>1. DOMAIN img2 \subseteq 1 .. a + 1 /\ DOMAIN conts2 \subseteq 1 .. a + 1 /\ a + 1 \in Nat
      BY <1>1, <1>3, <1>6 DEF HeapTypes
    <2> QED  BY <1>1, <1>3, <1>6, <2>1 DEF HeapTypes
  <1>8. HeapKnown(objs, img2, conts2)
    BY <1>1, <1>3, <1>5, <1>6 DEF HeapKnown
  <1>9. ASSUME NEW j PROVE UsesIn(objs, conts2, j) = UsesIn(objs, conts, j)
    BY <1>3 DEF UsesIn, InputsIn
  <1>10. UsesIn(objs, conts, a + 1) = {}
    <2>1. \A o \in DOMAIN objs : objs[o] # a + 1
      BY <1>1, <1>6 DEF HeapKnown
    <2>2. \A c \in DOMAIN conts : \A k \in DOMAIN conts[c].srcs : conts[c].srcs[k] # a + 1
      BY <1>1, <1>6 DEF HeapKnown
    <2> QED  BY <2>1, <2>2 DEF UsesIn, ValuesIn, InputsIn
  <1>11. HeapCounts(objs, img2, conts2)
    <2>1. ASSUME NEW j \in DOMAIN img2 PROVE img2[j].refcount = Cardinality(UsesIn(objs, conts2, j))
      <3>1. CASE j = a + 1
        BY <1>5, <1>6, <1>9, <1>10, <3>1, FS_EmptySet
      <3>2. CASE j # a + 1
        BY <1>1, <1>6, <1>9, <3>2 DEF HeapCounts
      <3> QED  BY <3>1, <3>2
    <2>2. ASSUME NEW c \in DOMAIN conts2 PROVE conts2[c].refcount = Cardinality(Sharers(img2, c))
      <3>1. conts[c].refcount = Cardinality(Sharers(img, c)) /\ IsFiniteSet(Sharers(img, c))
        BY <1>1, <1>3, HeapFinite DEF HeapCounts
      <3>2. CASE c = d
        <4>1. Sharers(img2, d) = Sharers(img, d) \cup {a + 1} /\ a + 1 \notin Sharers(img, d)
          BY <1>5, <1>6 DEF Sharers
        <4> QED  BY <1>2, <1>3, <3>1, <3>2, <4>1, FS_AddElement
      <3>3. CASE c # d
        <4>1. Sharers(img2, c) = Sharers(img, c)
          BY <1>5, <1>6, <3>3 DEF Sharers
        <4> QED  BY <1>3, <3>1, <3>3, <4>1
      <3> QED  BY <3>2, <3>3
    <2>3. ASSUME NEW j \in DOMAIN img2, img2[j].content = 0 PROVE UsesIn(objs, conts2, j) = {}
      BY <1>1, <1>5, <1>6, <1>9, <2>3 DEF HeapCounts
    <2> QED  BY <2>1, <2>2, <2>3 DEF HeapCounts
  <1> QED  BY <1>6, <1>7, <1>8, <1>11 DEF Heap

(* The references of a new content, one for each place. *)
PlacesOf(srcs, i) == {k \in DOMAIN srcs : srcs[k] = i}

LEMMA PlacesCount ==
    ASSUME NEW n \in 0 .. MaxInputs, NEW T, NEW srcs \in [1 .. n -> T], NEW c, NEW i
    PROVE  /\ IsFiniteSet(PlacesOf(srcs, i)) /\ Cardinality(PlacesOf(srcs, i)) \in Nat
           /\ IsFiniteSet({"input"} \X {c} \X PlacesOf(srcs, i))
           /\ Cardinality({"input"} \X {c} \X PlacesOf(srcs, i)) = Cardinality(PlacesOf(srcs, i))
  <1>1. n \in Int /\ 1 \in Int
    BY ImagesAssumption
  <1>2. IsFiniteSet(1 .. n)
    BY <1>1, FS_Interval
  <1>3. PlacesOf(srcs, i) \in SUBSET (1 .. n)
    BY DEF PlacesOf
  <1>4. IsFiniteSet(PlacesOf(srcs, i))
    BY <1>2, <1>3, FS_Subset
  <1>5. PICK P : P = PlacesOf(srcs, i)
    OBVIOUS
  <1> DEFINE U == {"input"} \X {c} \X P
             f == [k \in P |-> << "input", c, k >>]
  <1>6. f \in [P -> U]
    OBVIOUS
  <1>7. \A k, m \in P : f[k] = f[m] => k = m
    OBVIOUS
  <1>8. \A u \in U : \E k \in P : f[k] = u
    <2> TAKE u \in U
    <2>1. u[3] \in P /\ u = << "input", c, u[3] >>
      OBVIOUS
    <2> QED  BY <2>1
  <1>9. f \in Bijection(P, U)
    BY <1>6, <1>7, <1>8 DEF Bijection, Injection, Surjection, IsInjective
  <1> HIDE DEF f, U
  <1>10. IsFiniteSet(U) /\ Cardinality(U) = Cardinality(P)
    BY <1>4, <1>5, <1>9, FS_Bijection DEF ExistsBijection
  <1> QED  BY <1>4, <1>5, <1>10, FS_CardinalityType DEF U

LEMMA HeapInputs ==
    ASSUME NEW img, img \in [DOMAIN img -> Image], NEW n \in 0 .. MaxInputs, NEW srcs \in [1 .. n -> DOMAIN img],
           NEW img2, img2 = WithInputs(img, srcs)
    PROVE  /\ DOMAIN img2 = DOMAIN img /\ img2 \in [DOMAIN img2 -> Image]
           /\ \A i \in DOMAIN img : /\ img2[i].content = img[i].content
                                    /\ img2[i].refcount = img[i].refcount + Cardinality(PlacesOf(srcs, i))
  <1>1. img2 = [i \in DOMAIN img |-> WithInputs(img, srcs)[i]] /\ DOMAIN img2 = DOMAIN img
    BY DEF WithInputs
  <1>2. ASSUME NEW i \in DOMAIN img
        PROVE  /\ img2[i] \in Image /\ img2[i].content = img[i].content
               /\ img2[i].refcount = img[i].refcount + Cardinality(PlacesOf(srcs, i))
    <2>1. PICK r : r = img[i]
      OBVIOUS
    <2>2. r \in Image /\ r.refcount \in Nat
      BY <2>1 DEF Image
    <2>3. PICK m \in Nat : m = r.refcount + Cardinality(PlacesOf(srcs, i))
      <3>1. Cardinality(PlacesOf(srcs, i)) \in Nat
        BY PlacesCount
      <3> QED  BY <2>2, <3>1
    <2>4. img2[i] = [r EXCEPT !.refcount = m]
      BY <2>1, <2>3 DEF WithInputs, PlacesOf
    <2> QED  BY <2>1, <2>2, <2>3, <2>4, Recounted
  <1>3. img2 \in [DOMAIN img2 -> Image]
    BY <1>1, <1>2
  <1> QED  BY <1>1, <1>2, <1>3

(* A new content, in an image that nothing uses. *)
LEMMA HeapNew ==
    ASSUME NEW objs, NEW img, NEW conts, NEW a, NEW b, Heap(objs, img, conts, a, b),
           NEW n \in 0 .. MaxInputs, NEW srcs \in [1 .. n -> DOMAIN img],
           \A k \in 1 .. n : img[srcs[k]].content # 0, NEW meta \in Metas \cup {NoMeta},
           NEW img2, img2 = Added(WithInputs(img, srcs), a + 1,
                                  [refcount |-> 0, content |-> a + 1, meta |-> meta]),
           NEW conts2, conts2 = Added(conts, a + 1, [refcount |-> 1, srcs |-> srcs])
    PROVE  /\ Heap(objs, img2, conts2, a + 1, b)
           /\ a + 1 \in DOMAIN img2 /\ img2[a + 1].content = a + 1 /\ img2[a + 1].refcount = 0
           /\ a + 1 \in DOMAIN conts2 /\ conts2[a + 1].srcs = srcs
           /\ UsesIn(objs, conts2, a + 1) = {} /\ Sharers(img2, a + 1) = {a + 1}
           /\ \A j \in DOMAIN img : j \in DOMAIN img2 /\ img2[j].content = img[j].content
  <1>1. /\ HeapTypes(objs, img, conts, a, b) /\ HeapKnown(objs, img, conts) /\ HeapCounts(objs, img, conts)
        /\ img \in [DOMAIN img -> Image] /\ conts \in [DOMAIN conts -> Content] /\ a \in Nat
    BY DEF Heap, HeapTypes
  <1>2. a + 1 \notin DOMAIN img /\ a + 1 \notin DOMAIN conts /\ a + 1 \in Nat /\ a + 1 # 0
    BY <1>1 DEF HeapTypes
  <1>3. PICK mid : mid = WithInputs(img, srcs)
    OBVIOUS
  <1>4. /\ DOMAIN mid = DOMAIN img /\ mid \in [DOMAIN mid -> Image]
        /\ \A i \in DOMAIN img : /\ mid[i].content = img[i].content
                                 /\ mid[i].refcount = img[i].refcount + Cardinality(PlacesOf(srcs, i))
    BY <1>1, <1>3, HeapInputs
  <1>5. PICK e : e = [refcount |-> 0, content |-> a + 1, meta |-> meta]
    OBVIOUS
  <1>6. e \in Image /\ e.refcount = 0 /\ e.content = a + 1
    BY <1>2, <1>5 DEF Image
  <1>7. PICK p : p = [refcount |-> 1, srcs |-> srcs]
    OBVIOUS
  <1>8. p \in Content /\ p.refcount = 1 /\ p.srcs = srcs
    <2>1. srcs \in [1 .. n -> Nat]
      BY <1>1 DEF HeapTypes
    <2>2. srcs \in UNION {[1 .. m -> Nat] : m \in 0 .. MaxInputs}
      BY <2>1
    <2> QED  BY <1>7, <2>2 DEF Content
  <1>9. /\ DOMAIN img2 = DOMAIN img \cup {a + 1} /\ img2 \in [DOMAIN img2 -> Image]
        /\ img2[a + 1] = e /\ \A j \in DOMAIN img : img2[j] = mid[j]
    BY <1>2, <1>3, <1>4, <1>5, <1>6 DEF Added
  <1>10. /\ DOMAIN conts2 = DOMAIN conts \cup {a + 1} /\ conts2 \in [DOMAIN conts2 -> Content]
         /\ conts2[a + 1] = p /\ \A c \in DOMAIN conts : conts2[c] = conts[c]
    BY <1>1, <1>2, <1>7, <1>8 DEF Added
  <1>11. HeapTypes(objs, img2, conts2, a + 1, b)
    <2>1. DOMAIN img2 \subseteq 1 .. a + 1 /\ DOMAIN conts2 \subseteq 1 .. a + 1
      BY <1>1, <1>9, <1>10 DEF HeapTypes
    <2> QED  BY <1>1, <1>2, <1>9, <1>10, <2>1 DEF HeapTypes
  <1>12. HeapKnown(objs, img2, conts2)
    <2>1. \A c \in DOMAIN conts2 : \A k \in DOMAIN conts2[c].srcs : conts2[c].srcs[k] \in DOMAIN img2
      <3>1. \A k \in DOMAIN srcs : srcs[k] \in DOMAIN img
        OBVIOUS
      <3>2. \A k \in DOMAIN conts2[a + 1].srcs : conts2[a + 1].srcs[k] \in DOMAIN img2
        BY <1>8, <1>9, <1>10, <3>1
      <3>3. \A c \in DOMAIN conts : conts2[c].srcs = conts[c].srcs
        BY <1>10
      <3>4. ASSUME NEW c \in DOMAIN conts, NEW k \in DOMAIN conts2[c].srcs
            PROVE  conts2[c].srcs[k] \in DOMAIN img2
        BY <1>1, <1>9, <3>3 DEF HeapKnown
      <3> QED  BY <1>10, <3>2, <3>4
    <2>2. \A i \in DOMAIN img2 : img2[i].content \in DOMAIN conts2 \cup {0}
      BY <1>1, <1>4, <1>6, <1>9, <1>10 DEF HeapKnown
    <2> QED  BY <1>1, <1>9, <2>1, <2>2 DEF HeapKnown
  <1>13. ASSUME NEW j
         PROVE  /\ UsesIn(objs, conts2, j) = UsesIn(objs, conts, j) \cup ({"input"} \X {a + 1} \X PlacesOf(srcs, j))
                /\ UsesIn(objs, conts, j) \cap ({"input"} \X {a + 1} \X PlacesOf(srcs, j)) = {}
    <2>1. \A k \in PlacesOf(srcs, j) : k \in 1 .. MaxInputs
      BY ImagesAssumption DEF PlacesOf
    <2>2. InputsIn(conts2, j) = InputsIn(conts, j) \cup ({"input"} \X {a + 1} \X PlacesOf(srcs, j))
      <3>1. ASSUME NEW u \in InputsIn(conts2, j)
            PROVE  u \in InputsIn(conts, j) \cup ({"input"} \X {a + 1} \X PlacesOf(srcs, j))
        BY <1>8, <1>10 DEF InputsIn, PlacesOf
      <3>2. InputsIn(conts, j) \subseteq InputsIn(conts2, j)
        BY <1>2, <1>10 DEF InputsIn
      <3>3. ({"input"} \X {a + 1} \X PlacesOf(srcs, j)) \subseteq InputsIn(conts2, j)
        BY <1>8, <1>10, <2>1 DEF InputsIn, PlacesOf
      <3> QED  BY <3>1, <3>2, <3>3
    <2>3. UsesIn(objs, conts, j) \cap ({"input"} \X {a + 1} \X PlacesOf(srcs, j)) = {}
      BY <1>2 DEF UsesIn, ValuesIn, InputsIn
    <2> QED  BY <2>2, <2>3 DEF UsesIn
  <1>14. UsesIn(objs, conts, a + 1) = {} /\ UsesIn(objs, conts2, a + 1) = {}
    <2>1. \A o \in DOMAIN objs : objs[o] # a + 1
      BY <1>1, <1>2 DEF HeapKnown
    <2>2. \A c \in DOMAIN conts : \A k \in DOMAIN conts[c].srcs : conts[c].srcs[k] # a + 1
      BY <1>1, <1>2 DEF HeapKnown
    <2>3. UsesIn(objs, conts, a + 1) = {}
      BY <2>1, <2>2 DEF UsesIn, ValuesIn, InputsIn
    <2>4. PlacesOf(srcs, a + 1) = {}
      BY <1>2 DEF PlacesOf
    <2> QED  BY <1>13, <2>3, <2>4
  <1>15. /\ Sharers(img2, a + 1) = {a + 1}
         /\ \A c \in DOMAIN conts : Sharers(img2, c) = Sharers(img, c)
    <2>1. \A i \in DOMAIN img : img2[i].content = img[i].content /\ img[i].content # a + 1
      BY <1>1, <1>2, <1>4, <1>9 DEF HeapKnown
    <2>2. img2[a + 1].content = a + 1
      BY <1>6, <1>9
    <2> QED  BY <1>2, <1>9, <2>1, <2>2 DEF Sharers
  <1>16. HeapCounts(objs, img2, conts2)
    <2>1. ASSUME NEW j \in DOMAIN img2 PROVE img2[j].refcount = Cardinality(UsesIn(objs, conts2, j))
      <3>1. CASE j = a + 1
        BY <1>6, <1>9, <1>14, <3>1, FS_EmptySet
      <3>2. CASE j # a + 1
        <4>1. /\ j \in DOMAIN img /\ img[j].refcount = Cardinality(UsesIn(objs, conts, j))
              /\ img2[j].refcount = img[j].refcount + Cardinality(PlacesOf(srcs, j))
          BY <1>1, <1>4, <1>9, <3>2 DEF HeapCounts
        <4>2. PICK U, V : U = UsesIn(objs, conts, j) /\ V = {"input"} \X {a + 1} \X PlacesOf(srcs, j)
          OBVIOUS
        <4>3. IsFiniteSet(U) /\ Cardinality(U) \in Nat
          BY <1>1, <4>2, HeapFinite
        <4>4. IsFiniteSet(V) /\ Cardinality(V) \in Nat /\ Cardinality(V) = Cardinality(PlacesOf(srcs, j))
          <5>1. IsFiniteSet(V) /\ Cardinality(V) = Cardinality(PlacesOf(srcs, j))
            BY <4>2, PlacesCount
          <5> QED  BY <5>1, FS_CardinalityType
        <4>5. UsesIn(objs, conts2, j) = U \cup V /\ U \cap V = {}
          BY <1>13, <4>2
        <4>6. Cardinality(U \cup V) = Cardinality(U) + Cardinality(V)
          <5>1. Cardinality(U \cup V) = Cardinality(U) + Cardinality(V) - Cardinality(U \cap V)
            BY <4>3, <4>4, FS_Union
          <5>2. Cardinality(U \cap V) = 0
            BY <4>5, FS_EmptySet
          <5> QED  BY <4>3, <4>4, <5>1, <5>2
        <4> QED  BY <4>1, <4>2, <4>4, <4>5, <4>6
      <3> QED  BY <3>1, <3>2
    <2>2. ASSUME NEW c \in DOMAIN conts2 PROVE conts2[c].refcount = Cardinality(Sharers(img2, c))
      <3>1. CASE c = a + 1
        BY <1>8, <1>10, <1>15, <3>1, FS_Singleton
      <3>2. CASE c # a + 1
        BY <1>1, <1>10, <1>15, <3>2 DEF HeapCounts
      <3> QED  BY <3>1, <3>2
    <2>3. ASSUME NEW j \in DOMAIN img2, img2[j].content = 0 PROVE UsesIn(objs, conts2, j) = {}
      <3>1. j \in DOMAIN img /\ img[j].content = 0
        BY <1>2, <1>4, <1>6, <1>9, <2>3
      <3>2. UsesIn(objs, conts, j) = {} /\ PlacesOf(srcs, j) = {}
        BY <1>1, <3>1 DEF HeapCounts, PlacesOf
      <3> QED  BY <1>13, <3>2
    <2> QED  BY <2>1, <2>2, <2>3 DEF HeapCounts
  <1> QED  BY <1>4, <1>6, <1>8, <1>9, <1>10, <1>11, <1>12, <1>14, <1>15, <1>16 DEF Heap

(* After a failed setup: the call that undoes what was made. *)
LEMMA AfterFailure ==
    ASSUME Heap(object, image, content, allocated, objects)',
           held' \in [Names -> DOMAIN object' \cup {0}],
           NEW i \in DOMAIN image', i \in Nat, calls' = << Call("undo", i) >>,
           image'[i].content = i, image'[i].refcount = 0, i \in DOMAIN content', Sharers(image', i) = {i},
           NEW n \in 0 .. MaxInputs, DOMAIN content'[i].srcs = 1 .. n
    PROVE  IInv'
  <1>1. /\ HeapTypes(object, image, content, allocated, objects)'
        /\ HeapKnown(object, image, content)' /\ HeapCounts(object, image, content)'
    BY DEF Heap
  <1>2. Call("undo", i) \in Calls
    BY DEF Call, Calls, Kinds
  <1>3. /\ calls' \in Seq(Calls) /\ DOMAIN calls' = {1}
        /\ calls'[1].kind = "undo" /\ calls'[1].image = i /\ calls'[1].next = 1
    BY <1>2 DEF Call
  <1>4. \A c \in DOMAIN content' : \A k \in DOMAIN content'[c].srcs : k >= 1
    BY <1>1 DEF HeapTypes, Content
  <1>5. \A c \in DOMAIN content' : \A k \in DOMAIN content'[c].srcs : ~ Passed(c, k)'
    BY <1>3, <1>4 DEF Passed
  <1>6. ASSUME NEW j PROVE UsesIn(object, content, j)' = Uses(j)'
    <2>1. UsesByValue(j)' = ValuesIn(object, j)'
      BY DEF UsesByValue, ValuesIn
    <2>2. UsesAsInput(j)' = InputsIn(content, j)'
      BY <1>5 DEF UsesAsInput, InputsIn
    <2>3. UsesByCall(j)' = {}
      BY <1>3 DEF UsesByCall
    <2> QED  BY <2>1, <2>2, <2>3 DEF Uses, UsesIn
  <1>7. \A c : SharedBy(c)' = Sharers(image', c)
    BY DEF SharedBy, Sharers
  <1>8. Types'
    BY <1>1, <1>3 DEF Types, HeapTypes
  <1>9. CountsExact'
    <2>1. /\ \A o \in DOMAIN object' : object'[o] \in DOMAIN image'
          /\ \A m \in DOMAIN calls' : calls'[m].image \in DOMAIN image'
          /\ \A j \in DOMAIN image' : image'[j].content \in DOMAIN content' \cup {0}
      BY <1>1, <1>3 DEF HeapKnown
    <2>2. \A c \in DOMAIN content' : \A k \in DOMAIN content'[c].srcs : content'[c].srcs[k] \in DOMAIN image'
      BY <1>1 DEF HeapKnown
    <2>3. \A j \in DOMAIN image' : image'[j].refcount = Cardinality(Uses(j)')
      BY <1>1, <1>6 DEF HeapCounts
    <2>4. \A c \in DOMAIN content' : content'[c].refcount = Cardinality(SharedBy(c)')
      BY <1>1, <1>7 DEF HeapCounts
    <2> QED  BY <2>1, <2>2, <2>3, <2>4 DEF CountsExact
  <1>10. Releases'
    <2>1. Released(1)'
      BY <1>3, <1>7 DEF Released
    <2> QED  BY <1>3, <2>1 DEF Releases, Releasing
  <1>11. Lost'
    BY <1>1, <1>6 DEF Lost, HeapCounts
  <1> QED  BY <1>8, <1>9, <1>10, <1>11 DEF IInv

-----------------------------------------------------------------------------
(* What a script has in its variables. *)
LEMMA HeldImage ==
    ASSUME IInv, calls = << >>, NEW v \in Holding
    PROVE  /\ v \in Names /\ held[v] \in DOMAIN object /\ ImageOf(v) \in DOMAIN image
           /\ image[ImageOf(v)] \in Image /\ image[ImageOf(v)].content \in DOMAIN content
           /\ image[ImageOf(v)].content # 0
  <1>1. v \in Names /\ held[v] \in DOMAIN object /\ held[v] # 0
    BY DEF Holding, IInv, Types
  <1>2. << "value", held[v], 0 >> \in Uses(ImageOf(v))
    BY <1>1 DEF Uses, UsesByValue, ImageOf
  <1>3. 0 \notin DOMAIN content
    BY DEF IInv, Types
  <1> QED  BY <1>1, <1>2, <1>3, Counted

LEMMA HeldInput ==
    ASSUME IInv, calls = << >>, NEW c \in DOMAIN content, NEW k \in DOMAIN content[c].srcs
    PROVE  /\ content[c].srcs[k] \in DOMAIN image
           /\ image[content[c].srcs[k]].content \in DOMAIN content
           /\ image[content[c].srcs[k]].content # 0
  <1>1. ~ Passed(c, k)
    BY DEF Passed
  <1>2. PICK m \in 0 .. MaxInputs : content[c].srcs \in [1 .. m -> Nat]
    BY DEF IInv, Types, Content
  <1>3. k \in 1 .. MaxInputs
    BY <1>2, ImagesAssumption
  <1>4. << "input", c, k >> \in Uses(content[c].srcs[k])
    BY <1>1, <1>3 DEF Uses, UsesAsInput
  <1>5. 0 \notin DOMAIN content
    BY DEF IInv, Types
  <1> QED  BY <1>4, <1>5, Counted

(* A new value, of an image there is once the script has made its changes. *)
LEMMA AfterValue ==
    ASSUME NEW img, NEW w \in Names, NEW i \in DOMAIN img, img[i].content # 0,
           Heap(object, img, content', allocated', objects),
           held \in [Names -> DOMAIN object \cup {0}], aktive_new_image_obj(img, w, i)
    PROVE  IInv'
  <1>1. PICK objs : objs = Added(object, objects + 1, i)
    OBVIOUS
  <1>2. /\ objects' = objects + 1 /\ image' = aktive_image_ref(img, i) /\ Assign(objs, w, objects + 1)
    BY <1>1 DEF aktive_new_image_obj
  <1>3. /\ Heap(objs, image', content', allocated', objects')
        /\ DOMAIN objs = DOMAIN object \cup {objects + 1}
    <2>1. PICK old, b, conts, a, img2 :
              /\ old = object /\ b = objects /\ conts = content' /\ a = allocated' /\ img2 = image'
      OBVIOUS
    <2>2. Heap(old, img, conts, a, b) /\ objs = Added(old, b + 1, i) /\ img2 = aktive_image_ref(img, i)
      BY <1>1, <1>2, <2>1
    <2>3. /\ Heap(Added(old, b + 1, i), aktive_image_ref(img, i), conts, a, b + 1)
          /\ DOMAIN Added(old, b + 1, i) = DOMAIN old \cup {b + 1}
      BY <2>2, HeapValue
    <2>4. Heap(objs, img2, conts, a, b + 1) /\ DOMAIN objs = DOMAIN old \cup {b + 1}
      BY <2>2, <2>3
    <2> QED  BY <1>2, <2>1, <2>4
  <1>4. held \in [Names -> DOMAIN objs \cup {0}]
    BY <1>3
  <1>5. objects + 1 \in DOMAIN objs \cup {0}
    BY <1>3
  <1> QED  BY <1>2, <1>3, <1>4, <1>5, AfterAssign

LEMMA StepShare == ASSUME IInv, Share PROVE IInv'
  <1>1. calls = << >> /\ UNCHANGED << image, content, allocated, objects >>
    BY DEF Share
  <1>2. Heap(object, image', content', allocated', objects')
    BY <1>1, HeapBetween
  <1>3. PICK v \in Holding, w \in Names : Assign(object, w, held[v])
    BY DEF Share
  <1>4. held[v] \in DOMAIN object \cup {0} /\ held \in [Names -> DOMAIN object \cup {0}]
    BY <1>1, HeldImage DEF IInv, Types
  <1> QED  BY <1>2, <1>3, <1>4, AfterAssign

LEMMA StepUnset == ASSUME IInv, UnsetVariable PROVE IInv'
  <1>1. calls = << >> /\ UNCHANGED << image, content, allocated, objects >>
    BY DEF UnsetVariable
  <1>2. Heap(object, image', content', allocated', objects')
    BY <1>1, HeapBetween
  <1>3. PICK v \in Holding : Assign(object, v, 0)
    BY DEF UnsetVariable
  <1>4. v \in Names /\ 0 \in DOMAIN object \cup {0} /\ held \in [Names -> DOMAIN object \cup {0}]
    BY <1>1, HeldImage DEF IInv, Types
  <1> QED  BY <1>2, <1>3, <1>4, AfterAssign

LEMMA StepDup == ASSUME IInv, DupImage PROVE IInv'
  <1>1. calls = << >> /\ UNCHANGED << content, allocated >>
    BY DEF DupImage
  <1>2. Heap(object, image, content', allocated', objects)
    BY <1>1, HeapBetween
  <1>3. PICK v \in Holding, w \in Names : aktive_new_image_obj(image, w, ImageOf(v))
    BY DEF DupImage
  <1>4. /\ ImageOf(v) \in DOMAIN image /\ image[ImageOf(v)].content # 0
        /\ held \in [Names -> DOMAIN object \cup {0}]
    BY <1>1, HeldImage DEF IInv, Types
  <1> QED  BY <1>2, <1>3, <1>4, AfterValue

LEMMA StepSource == ASSUME IInv, aktive_image_get_src PROVE IInv'
  <1>1. calls = << >> /\ UNCHANGED << content, allocated >>
    BY DEF aktive_image_get_src
  <1>2. Heap(object, image, content', allocated', objects)
    BY <1>1, HeapBetween
  <1>3. PICK v \in Holding, w \in Names :
            \E k \in DOMAIN content[image[ImageOf(v)].content].srcs :
                aktive_new_image_obj(image, w, content[image[ImageOf(v)].content].srcs[k])
    BY DEF aktive_image_get_src
  <1>4. PICK c : c = image[ImageOf(v)].content
    OBVIOUS
  <1>5. PICK k \in DOMAIN content[c].srcs : aktive_new_image_obj(image, w, content[c].srcs[k])
    BY <1>3, <1>4
  <1>6. c \in DOMAIN content
    BY <1>1, <1>4, HeldImage
  <1>7. PICK i : i = content[c].srcs[k]
    OBVIOUS
  <1>8. i \in DOMAIN image /\ image[i].content # 0 /\ held \in [Names -> DOMAIN object \cup {0}]
    BY <1>1, <1>5, <1>6, <1>7, HeldInput DEF IInv, Types
  <1> QED  BY <1>2, <1>3, <1>5, <1>7, <1>8, AfterValue

LEMMA StepMeta == ASSUME IInv, aktive_image_meta_set PROVE IInv'
  <1>1. calls = << >> /\ Heap(object, image, content, allocated, objects)
    BY HeapBetween DEF aktive_image_meta_set
  <1>2. PICK v \in Holding, w \in Names, meta \in Metas \cup {NoMeta} :
            \/ /\ image[ImageOf(v)].refcount <= 1
               /\ aktive_new_image_obj([image EXCEPT ![ImageOf(v)].meta = meta], w, ImageOf(v))
               /\ UNCHANGED << content, allocated >>
            \/ /\ allocated' = allocated + 1
               /\ content' = ShareContent(image[ImageOf(v)].content)
               /\ aktive_new_image_obj(NewMeta(ImageOf(v), meta), w, ImageOf(v))
    BY DEF aktive_image_meta_set
  <1>3. PICK i : i = ImageOf(v)
    OBVIOUS
  <1>4. /\ i \in DOMAIN image /\ image[i].content \in DOMAIN content /\ image[i].content # 0
        /\ held \in [Names -> DOMAIN object \cup {0}]
    BY <1>1, <1>3, HeldImage DEF IInv, Types
  <1>5. CASE /\ aktive_new_image_obj([image EXCEPT ![i].meta = meta], w, i)
             /\ UNCHANGED << content, allocated >>
    <2>1. PICK img : img = [image EXCEPT ![i].meta = meta]
      OBVIOUS
    <2>2. Heap(object, img, content, allocated, objects) /\ i \in DOMAIN img /\ img[i].content # 0
      <3>1. PICK objs, old, conts, a, b :
                objs = object /\ old = image /\ conts = content /\ a = allocated /\ b = objects
        OBVIOUS
      <3>2. Heap(objs, old, conts, a, b) /\ i \in DOMAIN old /\ img = WithMeta(old, i, meta)
        BY <1>1, <1>4, <2>1, <3>1 DEF WithMeta
      <3>3. Heap(objs, img, conts, a, b) /\ img[i].content = old[i].content /\ DOMAIN img = DOMAIN old
        BY <3>2, HeapMeta
      <3> QED  BY <1>4, <3>1, <3>3
    <2>3. Heap(object, img, content', allocated', objects)
      BY <1>5, <2>2
    <2>4. aktive_new_image_obj(img, w, i)
      BY <1>5, <2>1
    <2> QED  BY <1>4, <2>2, <2>3, <2>4, AfterValue
  <1>6. CASE /\ allocated' = allocated + 1 /\ content' = ShareContent(image[i].content)
             /\ aktive_new_image_obj(NewMeta(i, meta), w, i)
    <2>1. PICK d : d = image[i].content
      OBVIOUS
    <2>2. content' = WithCount(content, d, content[d].refcount + 1)
      BY <1>6, <2>1 DEF ShareContent, WithCount
    <2>3. PICK img : img = Added(image, allocated + 1, [refcount |-> 0, content |-> d, meta |-> meta])
      OBVIOUS
    <2>4. /\ Heap(object, img, content', allocated + 1, objects)
          /\ \A j \in DOMAIN image : j \in DOMAIN img /\ img[j] = image[j]
      BY <1>1, <1>4, <2>1, <2>2, <2>3, HeapShare
    <2>5. aktive_new_image_obj(img, w, i)
      BY <1>6, <2>1, <2>3 DEF NewMeta
    <2>6. Heap(object, img, content', allocated', objects) /\ i \in DOMAIN img /\ img[i].content # 0
      BY <1>4, <1>6, <2>4
    <2> QED  BY <1>4, <2>5, <2>6, AfterValue
  <1> QED  BY <1>2, <1>3, <1>5, <1>6

(* The images given to an operator, and the meta data of the one it makes. *)
Given(args)      == [k \in DOMAIN args |-> ImageOf(args[k])]
Taken(args, ok, meta) ==
    IF ok /\ meta = NoMeta /\ Given(args) # << >> THEN image[Given(args)[1]].meta ELSE meta

LEMMA StepCreate == ASSUME IInv, Create PROVE IInv'
  <1>1. calls = << >> /\ Heap(object, image, content, allocated, objects)
    BY HeapBetween DEF Create
  <1>2. PICK w \in Names, args \in Arguments, ok \in BOOLEAN, meta \in Metas \cup {NoMeta} :
            aktive_image_new(w, args, ok, meta)
    BY DEF Create
  <1>3. PICK n \in 0 .. MaxInputs : args \in [1 .. n -> Holding]
    BY DEF Arguments
  <1>4. PICK srcs, taken, i : srcs = Given(args) /\ taken = Taken(args, ok, meta) /\ i = allocated + 1
    OBVIOUS
  <1>5. /\ srcs \in [1 .. n -> DOMAIN image] /\ \A k \in 1 .. n : image[srcs[k]].content # 0
        /\ \A k \in 1 .. n : image[srcs[k]] \in Image
    <2>1. \A k \in 1 .. n : args[k] \in Holding /\ srcs[k] = ImageOf(args[k])
      BY <1>3, <1>4 DEF Given
    <2>2. \A k \in 1 .. n : /\ srcs[k] \in DOMAIN image /\ image[srcs[k]] \in Image
                            /\ image[srcs[k]].content # 0
      BY <1>1, <2>1, HeldImage
    <2>3. srcs = [k \in 1 .. n |-> srcs[k]]
      BY <1>3, <1>4 DEF Given
    <2> QED  BY <2>2, <2>3
  <1>6. taken \in Metas \cup {NoMeta}
    <2>1. CASE ok /\ meta = NoMeta /\ srcs # << >>
      <3>1. n # 0
        BY <1>5, <2>1
      <3>2. 1 \in 1 .. n
        BY <3>1, ImagesAssumption
      <3>3. image[srcs[1]] \in Image
        BY <1>5, <3>2
      <3>4. image[srcs[1]].meta \in Metas \cup {NoMeta}
        BY <3>3 DEF Image
      <3> QED  BY <1>4, <2>1, <3>4 DEF Taken
    <2>2. CASE ~ (ok /\ meta = NoMeta /\ srcs # << >>)
      BY <1>4, <2>2 DEF Taken
    <2> QED  BY <2>1, <2>2
  <1>7. PICK new : new = Added(WithInputs(image, srcs), i, [refcount |-> 0, content |-> i, meta |-> taken])
    OBVIOUS
  <1>8. /\ allocated' = i /\ content' = Added(content, i, [refcount |-> 1, srcs |-> srcs])
        /\ \/ aktive_new_image_obj(new, w, i)
           \/ image' = new /\ calls' = << Call("undo", i) >> /\ UNCHANGED << object, held, objects >>
    BY <1>2, <1>4, <1>7 DEF aktive_image_new, Given, Taken
  <1>9. /\ Heap(object, new, content', i, objects)
        /\ i \in DOMAIN new /\ new[i].content = i /\ new[i].refcount = 0
        /\ i \in DOMAIN content' /\ content'[i].srcs = srcs
        /\ Sharers(new, i) = {i}
    <2>1. PICK objs, img, conts, a, b, conts2 :
              /\ objs = object /\ img = image /\ conts = content /\ a = allocated /\ b = objects
              /\ conts2 = content'
      OBVIOUS
    <2>2. /\ Heap(objs, img, conts, a, b) /\ srcs \in [1 .. n -> DOMAIN img]
          /\ \A k \in 1 .. n : img[srcs[k]].content # 0
          /\ new = Added(WithInputs(img, srcs), a + 1, [refcount |-> 0, content |-> a + 1, meta |-> taken])
          /\ conts2 = Added(conts, a + 1, [refcount |-> 1, srcs |-> srcs])
      BY <1>1, <1>4, <1>5, <1>7, <1>8, <2>1
    <2>3. /\ Heap(objs, new, conts2, a + 1, b)
          /\ a + 1 \in DOMAIN new /\ new[a + 1].content = a + 1 /\ new[a + 1].refcount = 0
          /\ a + 1 \in DOMAIN conts2 /\ conts2[a + 1].srcs = srcs
          /\ Sharers(new, a + 1) = {a + 1}
      BY <1>6, <2>2, HeapNew
    <2> QED  BY <1>4, <2>1, <2>3
  <1>10. i \in Nat /\ i # 0 /\ held \in [Names -> DOMAIN object \cup {0}]
    BY <1>4 DEF IInv, Types
  <1>11. CASE aktive_new_image_obj(new, w, i)
    <2>1. Heap(object, new, content', allocated', objects)
      BY <1>8, <1>9
    <2> QED  BY <1>9, <1>10, <1>11, <2>1, AfterValue
  <1>12. CASE image' = new /\ calls' = << Call("undo", i) >> /\ UNCHANGED << object, held, objects >>
    <2>1. Heap(object, image, content, allocated, objects)'
      BY <1>8, <1>9, <1>12
    <2>2. /\ held' \in [Names -> DOMAIN object' \cup {0}]
          /\ i \in DOMAIN image' /\ image'[i].content = i /\ image'[i].refcount = 0
          /\ i \in DOMAIN content' /\ Sharers(image', i) = {i} /\ DOMAIN content'[i].srcs = 1 .. n
      BY <1>5, <1>9, <1>10, <1>12
    <2> QED  BY <1>10, <1>12, <2>1, <2>2, AfterFailure
  <1> QED  BY <1>8, <1>11, <1>12

-----------------------------------------------------------------------------
LEMMA StepUnref == ASSUME IInv, aktive_image_unref PROVE IInv'
  <1>1. PICK i : i = Running.image
    OBVIOUS
  <1>2. InState({"unref"}) /\ UNCHANGED << object, held, allocated, objects >>
    BY DEF aktive_image_unref
  <1>3. \/ /\ image[i].refcount > 1
           /\ image' = [image EXCEPT ![i].refcount = @ - 1]
           /\ calls' = Returned /\ UNCHANGED content
        \/ image[i].refcount <= 1 /\ aktive_image_destroy(i)
    BY <1>1 DEF aktive_image_unref
  <1>4. CASE /\ image[i].refcount > 1
             /\ image' = [image EXCEPT ![i].refcount = @ - 1]
             /\ calls' = Returned /\ UNCHANGED content
    BY <1>1, <1>2, <1>4, StepUnused DEF Unused
  <1>5. CASE image[i].refcount <= 1 /\ aktive_image_destroy(i)
    <2>1. CASE SharedContent(image[i].content)
      BY <1>1, <1>2, <1>5, <2>1, StepGone DEF Gone, aktive_image_destroy
    <2>2. CASE ~ SharedContent(image[i].content)
      BY <1>1, <1>2, <1>5, <2>2, StepBegins DEF Begins, aktive_image_destroy
    <2> QED  BY <2>1, <2>2
  <1> QED  BY <1>3, <1>4, <1>5

LEMMA StepUnchanged == ASSUME IInv, UNCHANGED imageVars PROVE IInv'
  <1>1. UNCHANGED << image, content, object, held, calls, allocated, objects >>
    BY DEF imageVars
  <1>2. Types'
    BY <1>1 DEF IInv, Types
  <1>3. \A c, k : Passed(c, k)' <=> Passed(c, k)
    BY <1>1 DEF Passed
  <1>4. ASSUME NEW j PROVE Uses(j)' = Uses(j) /\ SharedBy(j)' = SharedBy(j)
    <2>1. UsesByValue(j)' = UsesByValue(j) /\ UsesByCall(j)' = UsesByCall(j)
      BY <1>1 DEF UsesByValue, UsesByCall
    <2>2. UsesAsInput(j)' = UsesAsInput(j)
      BY <1>1, <1>3 DEF UsesAsInput
    <2>3. SharedBy(j)' = SharedBy(j)
      BY <1>1 DEF SharedBy
    <2> QED  BY <2>1, <2>2, <2>3 DEF Uses
  <1>5. CountsExact' /\ Lost'
    BY <1>1, <1>3, <1>4 DEF IInv, CountsExact, Lost
  <1>6. Releases'
    <2>1. ASSUME NEW n \in DOMAIN calls, Releasing(n) PROVE Released(n)'
      <3>1. Released(n)
        BY <2>1 DEF IInv, Releases
      <3> QED  BY <1>1, <1>4, <3>1 DEF Released
    <2>2. \A n : Releasing(n)' <=> Releasing(n)
      BY <1>1 DEF Releasing
    <2> QED  BY <1>1, <2>1, <2>2 DEF IInv, Releases
  <1> QED  BY <1>2, <1>5, <1>6 DEF IInv

LEMMA Starts == ASSUME InitImages PROVE IInv
  <1>1. /\ image = << >> /\ content = << >> /\ object = << >> /\ calls = << >>
        /\ allocated = 0 /\ objects = 0 /\ held = [v \in Names |-> 0]
    BY DEF InitImages
  <1>2. DOMAIN << >> = {}
    OBVIOUS
  <1>3. calls \in Seq(Calls)
    BY <1>1
  <1>4. Types
    BY <1>1, <1>2, <1>3 DEF Types
  <1>5. CountsExact /\ Releases /\ Lost
    BY <1>1, <1>2 DEF CountsExact, Releases, Lost
  <1> QED  BY <1>4, <1>5 DEF IInv

LEMMA StepInv == ASSUME IInv, [ImageStep]_imageVars PROVE IInv'
  <1>1. CASE aktive_image_unref
    BY <1>1, StepUnref
  <1>2. CASE UnrefInput
    BY <1>2, StepDrops DEF Drops
  <1>3. CASE FreeContent
    BY <1>3, StepFrees DEF Frees
  <1>4. CASE Create
    BY <1>4, StepCreate
  <1>5. CASE Share
    BY <1>5, StepShare
  <1>6. CASE DupImage
    BY <1>6, StepDup
  <1>7. CASE aktive_image_get_src
    BY <1>7, StepSource
  <1>8. CASE UnsetVariable
    BY <1>8, StepUnset
  <1>9. CASE aktive_image_meta_set
    BY <1>9, StepMeta
  <1>10. CASE UNCHANGED imageVars
    BY <1>10, StepUnchanged
  <1> QED  BY <1>1, <1>2, <1>3, <1>4, <1>5, <1>6, <1>7, <1>8, <1>9, <1>10 DEF ImageStep

(* Whatever the script, its variables and its images: a count is the number of
   uses, the calls in progress included, what is used is there, and no call of
   aktive_image_unref or aktive_image_destroy meets a freed structure. *)
THEOREM CountsAreExact == ImagesSpec => []CountsExact
  <1>1. IInv /\ [ImageStep]_imageVars => IInv'
    BY StepInv
  <1>2. InitImages => IInv
    BY Starts
  <1>3. IInv => CountsExact
    BY DEF IInv
  <1> QED  BY <1>1, <1>2, <1>3, PTL DEF ImagesSpec

(* A content is released once: of the calls in progress at most one releases
   it, the image of that call is the only one that has it, and has no other use
   (aktive_image_destroy and the undoing in aktive_image_new). *)
THEOREM ReleasedOnce == ImagesSpec => []Releases
  <1>1. IInv /\ [ImageStep]_imageVars => IInv'
    BY StepInv
  <1>2. InitImages => IInv
    BY Starts
  <1>3. IInv => Releases
    BY DEF IInv
  <1> QED  BY <1>1, <1>2, <1>3, PTL DEF ImagesSpec

-----------------------------------------------------------------------------
LEMMA SetInduction ==
    ASSUME NEW S, 0 \in S, \A k \in Nat : k \in S => k + 1 \in S
    PROVE  \A n \in Nat : n \in S
  <1> SUFFICES ASSUME NEW m \in Nat, m \notin S PROVE FALSE
    OBVIOUS
  <1> DEFINE D == {k \in Nat : k <= m /\ k \notin S}
             f == [k \in D |-> k - 1]
  <1>1. \A k \in D : k - 1 \in D
    OBVIOUS
  <1>2. IsFiniteSet(D)
    BY FS_BoundedSetOfNaturals
  <1>3. f \in Injection(D, D)
    BY <1>1 DEF Injection, IsInjective
  <1>4. f \in Surjection(D, D)
    <2> HIDE DEF D, f
    <2> QED  BY <1>2, <1>3, FS_Injection
  <1>5. PICK k \in D : f[k] = m
    <2>1. m \in D
      OBVIOUS
    <2> HIDE DEF D, f
    <2> QED  BY <1>4, <2>1 DEF Surjection
  <1>6. k - 1 = m /\ k <= m /\ k \in Nat
    BY <1>5
  <1> QED  BY <1>6

(* The bytes of a number, and what is left of it after each. *)
IsRest(f, v, q, n) == f = [i \in 1 .. n |-> IF i = 1 THEN v ELSE f[i - 1] \div q]

(* What is left is found. *)
LEMMA RestExists ==
    ASSUME NEW v \in Int, NEW q \in Nat \ {0}, NEW n \in Nat \ {0}
    PROVE  \E f : IsRest(f, v, q, n)
  <1> DEFINE E == {m \in Nat : \E f : IsRest(f, v, q, m + 1)}
  <1>1. 0 \in E
    <2>1. PICK f : f = [i \in 1 .. 1 |-> v]
      OBVIOUS
    <2>2. \A i \in 1 .. 1 : i = 1
      OBVIOUS
    <2>3. IsRest(f, v, q, 0 + 1)
      BY <2>1, <2>2 DEF IsRest
    <2> QED  BY <2>3
  <1>2. ASSUME NEW m \in Nat, m \in E PROVE m + 1 \in E
    <2>1. PICK f : IsRest(f, v, q, m + 1)
      BY <1>2
    <2>2. PICK last : last = f[m + 1] \div q
      OBVIOUS
    <2>3. PICK g : g = [i \in 1 .. m + 2 |-> IF i <= m + 1 THEN f[i] ELSE last]
      OBVIOUS
    <2>4. \A i \in 1 .. m + 1 : g[i] = f[i]
      BY <2>3
    <2>5. \A i \in 1 .. m + 1 : f[i] = IF i = 1 THEN v ELSE f[i - 1] \div q
      BY <2>1 DEF IsRest
    <2>6. ASSUME NEW i \in 1 .. m + 2
          PROVE  g[i] = IF i = 1 THEN v ELSE g[i - 1] \div q
      <3>1. CASE i = 1
        <4>1. 1 \in 1 .. m + 1
          OBVIOUS
        <4>2. g[1] = f[1] /\ f[1] = v
          BY <2>4, <2>5, <4>1
        <4> QED  BY <3>1, <4>2
      <3>2. CASE i \in 2 .. m + 1
        <4>1. i \in 1 .. m + 1 /\ i - 1 \in 1 .. m + 1 /\ i # 1
          BY <3>2
        <4>2. g[i] = f[i] /\ g[i - 1] = f[i - 1] /\ f[i] = f[i - 1] \div q
          BY <2>4, <2>5, <4>1
        <4> QED  BY <4>1, <4>2
      <3>3. CASE i = m + 2
        <4>1. ~ (i <= m + 1) /\ i - 1 = m + 1 /\ i # 1 /\ m + 1 \in 1 .. m + 1
          BY <3>3
        <4>2. g[i] = last /\ g[m + 1] = f[m + 1]
          BY <2>3, <2>4, <4>1
        <4> QED  BY <2>2, <4>1, <4>2
      <3> QED  BY <3>1, <3>2, <3>3
    <2>7. g = [i \in 1 .. m + 2 |-> g[i]]
      BY <2>3
    <2>8. g = [i \in 1 .. m + 2 |-> IF i = 1 THEN v ELSE g[i - 1] \div q]
      BY <2>6, <2>7
    <2>9. IsRest(g, v, q, (m + 1) + 1)
      BY <2>8 DEF IsRest
    <2> QED  BY <2>9
  <1>3. \A m \in Nat : m \in E
    <2> HIDE DEF E
    <2> QED  BY <1>1, <1>2, SetInduction
  <1>4. n - 1 \in Nat /\ (n - 1) + 1 = n
    OBVIOUS
  <1>5. n - 1 \in E
    BY <1>3, <1>4
  <1> QED  BY <1>4, <1>5

(* They are integers. *)
LEMMA RestIs ==
    ASSUME NEW v \in Int, NEW q \in Nat \ {0}, NEW n \in Nat \ {0}, NEW f, IsRest(f, v, q, n)
    PROVE  /\ f[1] = v
           /\ \A i \in 2 .. n : f[i] = f[i - 1] \div q
           /\ \A i \in 1 .. n : f[i] \in Int
  <1>1. \A i \in 1 .. n : f[i] = IF i = 1 THEN v ELSE f[i - 1] \div q
    BY DEF IsRest
  <1>2. 1 \in 1 .. n
    OBVIOUS
  <1>3. f[1] = v
    BY <1>1, <1>2
  <1>4. \A i \in 2 .. n : f[i] = f[i - 1] \div q
    BY <1>1
  <1> DEFINE E == {m \in Nat : m + 1 <= n => f[m + 1] \in Int}
  <1>5. 0 \in E
    BY <1>3
  <1>6. ASSUME NEW m \in Nat, m \in E PROVE m + 1 \in E
    <2> SUFFICES ASSUME m + 2 <= n PROVE f[m + 2] \in Int
      OBVIOUS
    <2>1. m + 2 \in 2 .. n /\ (m + 2) - 1 = m + 1 /\ f[m + 1] \in Int
      BY <1>6
    <2>2. f[m + 2] = f[m + 1] \div q
      BY <1>4, <2>1
    <2> QED  BY <2>1, <2>2
  <1>7. \A m \in Nat : m \in E
    <2> HIDE DEF E
    <2> QED  BY <1>5, <1>6, SetInduction
  <1>8. ASSUME NEW i \in 1 .. n PROVE f[i] \in Int
    <2>1. i - 1 \in Nat /\ (i - 1) + 1 = i
      OBVIOUS
    <2>2. i - 1 \in E
      BY <1>7, <2>1
    <2> QED  BY <2>1, <2>2
  <1> QED  BY <1>3, <1>4, <1>8

(* The bytes of a number are its remainders. *)
LEMMA LittleEndianIs ==
    ASSUME NEW v \in Int, NEW n \in Nat \ {0}
    PROVE  \E f : IsRest(f, v, 256, n) /\ LittleEndian(v, n) = [i \in 1 .. n |-> f[i] % 256]
  <1>1. PICK f : f = (CHOOSE g : IsRest(g, v, 256, n)) /\ IsRest(f, v, 256, n)
    BY RestExists
  <1>2. LittleEndian(v, n) = [i \in 1 .. n |-> (CHOOSE g : IsRest(g, v, 256, n))[i] % 256]
    BY DEF LittleEndian, IsRest
  <1> QED  BY <1>1, <1>2

(* A sequence turned around twice is what it was. *)
LEMMA ReverseIs ==
    ASSUME NEW S, NEW s \in Seq(S)
    PROVE  /\ Reverse(s) \in Seq(S) /\ Len(Reverse(s)) = Len(s)
           /\ Reverse(Reverse(s)) = s
  <1>1. Len(s) \in Nat /\ s = [i \in 1 .. Len(s) |-> s[i]] /\ \A i \in 1 .. Len(s) : s[i] \in S
    BY LenProperties
  <1>2. PICK n : n = Len(s)
    OBVIOUS
  <1>3. PICK r : r = Reverse(s)
    OBVIOUS
  <1>4. r = [i \in 1 .. n |-> s[(n - i) + 1]]
    BY <1>2, <1>3 DEF Reverse
  <1>5. n \in Nat /\ Len(r) = n
    BY <1>1, <1>2, <1>4
  <1>6. \A i \in 1 .. n : r[i] \in S
    <2> TAKE i \in 1 .. n
    <2>1. (n - i) + 1 \in 1 .. n
      BY <1>5
    <2> QED  BY <1>1, <1>2, <1>4, <2>1
  <1>7. r \in Seq(S)
    <2>1. r \in [1 .. n -> S]
      BY <1>4, <1>6
    <2> QED  BY <1>5, <2>1
  <1>8. Reverse(r) = [i \in 1 .. n |-> r[(n - i) + 1]]
    BY <1>5 DEF Reverse
  <1>9. \A i \in 1 .. n : r[(n - i) + 1] = s[i]
    <2> TAKE i \in 1 .. n
    <2>1. PICK j : j = (n - i) + 1
      OBVIOUS
    <2>2. j \in 1 .. n /\ (n - j) + 1 = i
      BY <1>5, <2>1
    <2>3. r[j] = s[(n - j) + 1]
      BY <1>4, <2>2
    <2> QED  BY <2>1, <2>2, <2>3
  <1>10. Reverse(r) = [i \in 1 .. n |-> s[i]]
    BY <1>8, <1>9
  <1> QED  BY <1>1, <1>2, <1>3, <1>5, <1>7, <1>10

(* A buffer that grows keeps what it has. *)
LEMMA GrowIs ==
    ASSUME NEW bytes \in Seq(Int), NEW size \in Nat, size >= Len(bytes), NEW r, r = Grow(bytes, size)
    PROVE  r \in Seq(Int) /\ Len(r) = size /\ \A i \in 1 .. Len(bytes) : r[i] = bytes[i]
  <1>1. Len(bytes) \in Nat /\ \A i \in 1 .. Len(bytes) : bytes[i] \in Int
    BY LenProperties
  <1>2. r = [i \in 1 .. size |-> IF i <= Len(bytes) THEN bytes[i] ELSE -1]
    BY DEF Grow, Undefined
  <1>3. \A i \in 1 .. size : r[i] \in Int
    <2> TAKE i \in 1 .. size
    <2>1. CASE i <= Len(bytes)
      <3>1. i \in 1 .. Len(bytes) /\ r[i] = bytes[i]
        BY <1>1, <1>2, <2>1
      <3> QED  BY <1>1, <3>1
    <2>2. CASE ~ (i <= Len(bytes))
      BY <1>2, <2>2
    <2> QED  BY <2>1, <2>2
  <1>4. r \in [1 .. size -> Int]
    BY <1>2, <1>3
  <1>5. \A i \in 1 .. Len(bytes) : r[i] = bytes[i]
    BY <1>1, <1>2
  <1> QED  BY <1>4, <1>5

(* The digits of a number that fits, of which there are up to ten. *)
Digits(f, count) == [i \in 1 .. count |-> 48 + (f[i] % 10)]

(* What a file is made of; a byte never written is none (Undefined). *)
Byte == 0 .. 255

(* Bytes are numbers. *)
LEMMA ByteInt == ASSUME NEW v \in Byte PROVE v \in Int
  BY DEF Byte

(* A sequence with elements is not the empty one. *)
LEMMA NotEmpty == ASSUME NEW s, Len(s) # 0 PROVE s # << >>
  OBVIOUS

(* Bytes in a sequence, one behind the other. *)
LEMMA BytesJoined ==
    ASSUME NEW a \in Seq(Byte), NEW b \in Seq(Byte)
    PROVE  a \o b \in Seq(Byte) /\ Len(a \o b) = Len(a) + Len(b)
  BY ConcatProperties, ZenonT(30)

(* A number is written as bytes, as many as asked for. *)
LEMMA BytesAre ==
    ASSUME NEW v \in Int, NEW n \in Nat \ {0}
    PROVE  /\ LittleEndian(v, n) \in Seq(Byte) /\ Len(LittleEndian(v, n)) = n
           /\ BigEndian(v, n) \in Seq(Byte) /\ Len(BigEndian(v, n)) = n
  <1>1. PICK f : IsRest(f, v, 256, n) /\ LittleEndian(v, n) = [i \in 1 .. n |-> f[i] % 256]
    BY LittleEndianIs
  <1>2. \A i \in 1 .. n : f[i] \in Int
    BY <1>1, RestIs
  <1>3. \A i \in 1 .. n : f[i] % 256 \in Byte
    BY <1>2 DEF Byte
  <1>4. LittleEndian(v, n) \in Seq(Byte) /\ Len(LittleEndian(v, n)) = n
    BY <1>1, <1>3
  <1> QED  BY <1>4, ReverseIs DEF BigEndian

(* So are the digits of any number. *)
LEMMA DecimalBytes ==
    ASSUME NEW v \in Int
    PROVE  Decimal(v) \in Seq(Byte) /\ Decimal(v) # << >>
  <1> DEFINE f == CHOOSE g : IsRest(g, v, 10, 10)
  <1>1. IsRest(f, v, 10, 10)
    <2>1. 10 \in Nat \ {0}
      OBVIOUS
    <2>2. \E g : IsRest(g, v, 10, 10)
      BY <2>1, RestExists
    <2> QED  BY <2>2
  <1> HIDE DEF f
  <1>2. f[1] = v /\ \A i \in 1 .. 10 : f[i] \in Int
    <2>1. 10 \in Nat \ {0}
      OBVIOUS
    <2> QED  BY <1>1, <2>1, RestIs
  <1> DEFINE HighDigit(n) == f[n] # 0 /\ (n = 10 \/ f[n + 1] = 0)
             count == IF v = 0 THEN 1 ELSE CHOOSE n \in 1 .. 10 : HighDigit(n)
  <1>3. v # 0 => \E n \in 1 .. 10 : HighDigit(n)
    <2> SUFFICES ASSUME v # 0, \A n \in 1 .. 10 : ~ HighDigit(n) PROVE FALSE
      OBVIOUS
    <2> DEFINE E == {m \in Nat : m < 10 => f[m + 1] # 0}
    <2>1. 0 \in E
      BY <1>2
    <2>2. ASSUME NEW m \in Nat, m \in E PROVE m + 1 \in E
      <3> SUFFICES ASSUME m + 1 < 10 PROVE f[(m + 1) + 1] # 0
        OBVIOUS
      <3>1. PICK n : n = m + 1
        OBVIOUS
      <3>2. n \in 1 .. 10 /\ n # 10 /\ f[n] # 0
        BY <2>2, <3>1
      <3>3. ~ HighDigit(n)
        BY <3>2
      <3> QED  BY <3>1, <3>2, <3>3
    <2>3. \A m \in Nat : m \in E
      <3> HIDE DEF E
      <3> QED  BY <2>1, <2>2, SetInduction
    <2>4. 9 \in E
      BY <2>3
    <2>5. HighDigit(10)
      BY <2>4
    <2> QED  BY <2>5
  <1>4. count \in 1 .. 10
    <2> HIDE DEF HighDigit
    <2> QED  BY <1>3
  <1>5. Decimal(v) = Reverse(Digits(f, count))
    BY DEF f, Decimal, IsRest, Digits
  <1> HIDE DEF count
  <1>6. \A i \in 1 .. count : 48 + (f[i] % 10) \in Byte
    BY <1>2, <1>4 DEF Byte
  <1>7. Digits(f, count) \in Seq(Byte) /\ Len(Digits(f, count)) = count
    BY <1>4, <1>6 DEF Digits
  <1>8. Reverse(Digits(f, count)) \in Seq(Byte) /\ Len(Reverse(Digits(f, count))) = count
    BY <1>7, ReverseIs
  <1>9. PICK d : d = Decimal(v)
    OBVIOUS
  <1>10. d \in Seq(Byte) /\ Len(d) = count
    BY <1>5, <1>8, <1>9
  <1>11. d # << >>
    BY <1>4, <1>10
  <1> QED  BY <1>9, <1>10, <1>11

(* A writer that has not handed out more than it has. *)
WriterSet == [kind : {"channel", "bytearray"}, bytes : Seq(Int), pos : Nat, used : Nat, out : Seq(Int)]

Sound(w) == /\ w \in WriterSet
            /\ w.used <= Len(w.bytes)
            /\ w.kind = "channel" => w.used = Len(w.bytes)

(* From w to x bytes have been written behind a up to b, all others are what
   they were, and x writes on there. *)
Wrote(w, x, a, b) ==
    /\ a \in Nat /\ b \in Nat /\ a <= b
    /\ Sound(x) /\ x.pos = b
    /\ w.used <= x.used
    /\ x.used <= w.used \/ x.used <= b
    /\ \A i \in 1 .. w.used : i <= a \/ i > b => x.bytes[i] = w.bytes[i]
    /\ \A i \in a + 1 .. b : i <= x.used /\ x.bytes[i] \in Byte

(* Two writes, the second where the first ended, are one. *)
LEMMA WroteOn ==
    ASSUME NEW w, NEW x, NEW y, NEW a, NEW b, NEW c, Sound(w), Wrote(w, x, a, b), Wrote(x, y, b, c)
    PROVE  Wrote(w, y, a, c)
  <1>1. /\ a \in Nat /\ b \in Nat /\ c \in Nat /\ a <= b /\ b <= c
        /\ w.used \in Nat /\ x.used \in Nat /\ y.used \in Nat
    BY DEF Wrote, Sound, WriterSet
  <1>2. Sound(y) /\ y.pos = c /\ w.used <= y.used /\ (y.used <= w.used \/ y.used <= c)
    BY <1>1 DEF Wrote
  <1>3. ASSUME NEW i \in 1 .. w.used, i <= a \/ i > c PROVE y.bytes[i] = w.bytes[i]
    <2>1. i \in 1 .. x.used /\ (i <= b \/ i > c) /\ (i <= a \/ i > b)
      BY <1>1, <1>3 DEF Wrote
    <2> QED  BY <2>1 DEF Wrote
  <1>4. ASSUME NEW i \in a + 1 .. c PROVE i <= y.used /\ y.bytes[i] \in Byte
    <2>1. CASE i <= b
      <3>1. i \in a + 1 .. b
        BY <1>1, <2>1
      <3>2. i \in 1 .. x.used /\ x.bytes[i] \in Byte
        BY <1>1, <3>1 DEF Wrote
      <3>3. y.bytes[i] = x.bytes[i]
        BY <2>1, <3>2 DEF Wrote
      <3>4. i <= y.used
        BY <1>1, <3>2 DEF Wrote
      <3> QED  BY <3>2, <3>3, <3>4
    <2>2. CASE ~ (i <= b)
      <3>1. i \in b + 1 .. c
        BY <1>1, <2>2
      <3> QED  BY <3>1 DEF Wrote
    <2> QED  BY <2>1, <2>2
  <1> QED  BY <1>1, <1>2, <1>3, <1>4 DEF Wrote

(* What is there after bytes have been written over others. *)
Laid(old, new, pos, r) ==
    /\ r \in Seq(Int)
    /\ Len(r) = IF pos + Len(new) > Len(old) THEN pos + Len(new) ELSE Len(old)
    /\ \A i \in 1 .. Len(old) : i <= pos \/ i > pos + Len(new) => r[i] = old[i]
    /\ \A i \in pos + 1 .. pos + Len(new) : r[i] \in Byte

(* So does a write into a buffer, even one that ends behind its end. *)
LEMMA OverwriteLays ==
    ASSUME NEW old \in Seq(Int), NEW new \in Seq(Byte), NEW pos \in Nat, NEW gap \in Int,
           NEW r, r = Overwrite(old, new, pos, gap)
    PROVE  Laid(old, new, pos, r)
  <1>1. /\ Len(old) \in Nat /\ \A i \in 1 .. Len(old) : old[i] \in Int
        /\ Len(new) \in Nat /\ \A i \in 1 .. Len(new) : new[i] \in Byte
    BY LenProperties
  <1>2. PICK n : n = IF pos + Len(new) > Len(old) THEN pos + Len(new) ELSE Len(old)
    OBVIOUS
  <1>3. n \in Nat /\ Len(old) <= n /\ pos + Len(new) <= n
    BY <1>1, <1>2
  <1>4. r = [i \in 1 .. n |-> IF i \in pos + 1 .. pos + Len(new) THEN new[i - pos]
                              ELSE IF i <= Len(old) THEN old[i] ELSE gap]
    BY <1>2 DEF Overwrite
  <1>5. ASSUME NEW i \in pos + 1 .. pos + Len(new) PROVE r[i] \in Byte
    <2>1. i \in 1 .. n /\ i - pos \in 1 .. Len(new)
      BY <1>1, <1>3
    <2>2. r[i] = new[i - pos]
      BY <1>4, <2>1
    <2> QED  BY <1>1, <2>1, <2>2
  <1>6. ASSUME NEW i \in 1 .. Len(old), i <= pos \/ i > pos + Len(new) PROVE r[i] = old[i]
    <2>1. i \in 1 .. n /\ i \notin pos + 1 .. pos + Len(new) /\ i <= Len(old)
      BY <1>1, <1>3, <1>6
    <2> QED  BY <1>4, <2>1
  <1>7. ASSUME NEW i \in 1 .. n PROVE r[i] \in Int
    <2>1. CASE i \in pos + 1 .. pos + Len(new)
      <3>1. r[i] \in Byte
        BY <1>5, <2>1
      <3> QED  BY <3>1, ByteInt
    <2>2. CASE i \notin pos + 1 .. pos + Len(new) /\ i <= Len(old)
      <3>1. i \in 1 .. Len(old) /\ r[i] = old[i]
        BY <1>1, <1>4, <2>2
      <3> QED  BY <1>1, <3>1
    <2>3. CASE i \notin pos + 1 .. pos + Len(new) /\ ~ (i <= Len(old))
      BY <1>4, <2>3
    <2> QED  BY <2>1, <2>2, <2>3
  <1>8. r \in [1 .. n -> Int]
    BY <1>4, <1>7
  <1>9. r \in Seq(Int) /\ Len(r) = n
    BY <1>3, <1>8
  <1> QED  BY <1>2, <1>5, <1>6, <1>9 DEF Laid

(* A writer with other bytes and another place. *)
WriterWith(w, bytes, pos, used) == [w EXCEPT !.bytes = bytes, !.pos = pos, !.used = used]

IsWriterWith(w, bytes, pos, used, r) ==
    r \in WriterSet /\ r.kind = w.kind /\ r.bytes = bytes /\ r.pos = pos /\ r.used = used

LEMMA WriterWithIs ==
    ASSUME NEW w \in WriterSet, NEW bytes \in Seq(Int), NEW pos \in Nat, NEW used \in Nat
    PROVE  IsWriterWith(w, bytes, pos, used, WriterWith(w, bytes, pos, used))
  <1>0. PICK r : r = WriterWith(w, bytes, pos, used)
    OBVIOUS
  <1>1. PICK S : S = Seq(Int)
    OBVIOUS
  <1>2. w \in [kind : {"channel", "bytearray"}, bytes : S, pos : Nat, used : Nat, out : S] /\ bytes \in S
    BY <1>1, Zenon DEF WriterSet
  <1>3. /\ r \in [kind : {"channel", "bytearray"}, bytes : S, pos : Nat, used : Nat, out : S]
        /\ r.kind = w.kind /\ r.bytes = bytes /\ r.pos = pos /\ r.used = used
    BY <1>0, <1>2 DEF WriterWith
  <1> QED  BY <1>0, <1>1, <1>3, Zenon DEF WriterSet, IsWriterWith

(* What a write leaves of a writer to a channel. *)
LEMMA ChannelHere ==
    ASSUME NEW w, w.kind = "channel", NEW buf, buf # << >>,
           NEW bytes, bytes = Overwrite(w.bytes, buf, w.pos, 0)
    PROVE  aktive_write_here(w, buf) = WriterWith(w, bytes, w.pos + Len(buf), Len(bytes))
  <1>1. aktive_write_here(w, buf) = aktive_writer_to_channel(w, buf, -1)
    BY Zenon DEF aktive_write_here, Write, AKTIVE_WRITE_HERE, AKTIVE_WRITE_END
  <1>2. PICK old, pos, l : old = w.bytes /\ pos = w.pos /\ l = Len(buf)
    OBVIOUS
  <1>3. AKTIVE_WRITE_END # AKTIVE_WRITE_DONE /\ AKTIVE_WRITE_END = -1
    BY DEF AKTIVE_WRITE_END, AKTIVE_WRITE_DONE
  <1>4. aktive_writer_to_channel(w, buf, AKTIVE_WRITE_END) = WriterWith(w, bytes, w.pos + Len(buf), Len(bytes))
    BY <1>3, Zenon DEF aktive_writer_to_channel, WriterWith
  <1> QED  BY <1>1, <1>3, <1>4, Zenon

(* Bytes written where the writer is leave the others as they were. *)
LEMMA HereWrites ==
    ASSUME NEW w, Sound(w), NEW buf \in Seq(Byte), buf # << >>
    PROVE  Wrote(w, aktive_write_here(w, buf), w.pos, w.pos + Len(buf))
  <1>1. /\ w \in WriterSet /\ w.kind \in {"channel", "bytearray"} /\ w.bytes \in Seq(Int)
        /\ w.pos \in Nat /\ w.used \in Nat
        /\ Len(w.bytes) \in Nat /\ Len(buf) \in Nat /\ w.used <= Len(w.bytes)
        /\ w.kind = "channel" => w.used = Len(w.bytes)
    BY LenProperties DEF Sound, WriterSet
  <1>2. PICK r, old, pos, end : r = aktive_write_here(w, buf) /\ old = w.bytes /\ pos = w.pos
                                /\ end = w.pos + Len(buf)
    OBVIOUS
  <1>3. /\ old \in Seq(Int) /\ Len(old) \in Nat /\ pos \in Nat /\ end \in Nat
        /\ end = pos + Len(buf) /\ pos <= end
    BY <1>1, <1>2
  <1>4. CASE w.kind = "channel"
    <2>1. PICK bytes : bytes = Overwrite(old, buf, pos, 0)
      OBVIOUS
    <2>2. r = WriterWith(w, bytes, end, Len(bytes))
      <3>1. bytes = Overwrite(w.bytes, buf, w.pos, 0)
        BY <1>2, <2>1, Zenon
      <3>2. aktive_write_here(w, buf) = WriterWith(w, bytes, w.pos + Len(buf), Len(bytes))
        BY <1>4, <3>1, ChannelHere
      <3> QED  BY <1>2, <3>2, Zenon
    <2>3. Laid(old, buf, pos, bytes)
      BY <1>3, <2>1, OverwriteLays
    <2>4. bytes \in Seq(Int) /\ Len(bytes) \in Nat
      BY <2>3, LenProperties DEF Laid
    <2>5. r \in WriterSet /\ r.kind = w.kind /\ r.bytes = bytes /\ r.pos = end /\ r.used = Len(bytes)
      <3>1. PICK l : l = Len(bytes)
        OBVIOUS
      <3>2. w \in WriterSet /\ bytes \in Seq(Int) /\ end \in Nat /\ l \in Nat /\ r = WriterWith(w, bytes, end, l)
        BY <1>1, <1>3, <2>2, <2>4, <3>1, Zenon
      <3>3. IsWriterWith(w, bytes, end, l, WriterWith(w, bytes, end, l))
        BY <3>2, WriterWithIs
      <3> QED  BY <3>1, <3>2, <3>3, Zenon DEF IsWriterWith
    <2>6. Sound(r) /\ r.used = IF end > w.used THEN end ELSE w.used
      BY <1>1, <1>2, <1>3, <1>4, <2>3, <2>4, <2>5 DEF Sound, Laid
    <2>7. \A i \in 1 .. w.used : i <= pos \/ i > end => r.bytes[i] = w.bytes[i]
      BY <1>1, <1>2, <1>3, <1>4, <2>3, <2>5 DEF Laid
    <2>8. \A i \in pos + 1 .. end : i <= r.used /\ r.bytes[i] \in Byte
      BY <1>1, <1>3, <2>3, <2>5, <2>6 DEF Laid
    <2>9. w.used <= r.used /\ (r.used <= w.used \/ r.used <= end)
      BY <1>1, <1>3, <2>6
    <2> QED  BY <1>2, <1>3, <2>5, <2>6, <2>7, <2>8, <2>9 DEF Wrote
  <1>5. CASE w.kind # "channel"
    <2>1. PICK room : room = IF end > Len(w.bytes) THEN Grow(w.bytes, 2 * end) ELSE w.bytes
      OBVIOUS
    <2>2. PICK bytes : bytes = Overwrite(room, buf, w.pos, -1)
      OBVIOUS
    <2>3. r = WriterWith(w, bytes, end, Used(w.used, end))
      <3>1. r = aktive_writer_to_bytearray(w, buf, -1)
        BY <1>2, <1>5 DEF aktive_write_here, Write, AKTIVE_WRITE_HERE, AKTIVE_WRITE_END
      <3>2. PICK full : full = IF end > Len(w.bytes) /\ buf # << >> THEN Grow(w.bytes, 2 * end) ELSE w.bytes
        OBVIOUS
      <3>3. full = room
        BY <2>1, <3>2
      <3>4. r = [w EXCEPT !.bytes = Overwrite(full, buf, w.pos, -1), !.pos = end, !.used = Used(w.used, end)]
        BY <1>2, <3>1, <3>2
        DEF aktive_writer_to_bytearray, AKTIVE_WRITE_END, AKTIVE_WRITE_DONE, Undefined
      <3>5. r = [w EXCEPT !.bytes = bytes, !.pos = end, !.used = Used(w.used, end)]
        BY <2>2, <3>3, <3>4, Zenon
      <3> QED  BY <3>5, Zenon DEF WriterWith
    <2>4. /\ room \in Seq(Int) /\ Len(room) \in Nat /\ Len(room) >= end /\ Len(room) >= Len(old)
          /\ \A i \in 1 .. Len(old) : room[i] = old[i]
      <3>1. CASE end > Len(old)
        <4>1. PICK size : size = 2 * end
          OBVIOUS
        <4>2. size \in Nat /\ size >= Len(old) /\ room = Grow(old, size) /\ size >= end
          <5>1. room = Grow(old, size)
            BY <1>2, <2>1, <3>1, <4>1, Zenon
          <5>2. size \in Nat /\ size >= end /\ size >= Len(old)
            BY <1>3, <3>1, <4>1
          <5> QED  BY <5>1, <5>2, Zenon
        <4>3. room \in Seq(Int) /\ Len(room) = size /\ \A i \in 1 .. Len(old) : room[i] = old[i]
          BY <1>3, <4>2, GrowIs
        <4> QED  BY <4>2, <4>3
      <3>2. CASE ~ (end > Len(old))
        BY <1>2, <1>3, <2>1, <3>2
      <3> QED  BY <3>1, <3>2
    <2>5. Laid(room, buf, pos, bytes)
      <3>1. PICK gap : gap = -1
        OBVIOUS
      <3>2. gap \in Int /\ bytes = Overwrite(room, buf, pos, gap)
        BY <1>2, <2>2, <3>1
      <3> QED  BY <1>3, <2>4, <3>2, OverwriteLays
    <2>6. bytes \in Seq(Int) /\ Len(bytes) = Len(room)
      BY <1>3, <2>4, <2>5 DEF Laid
    <2>7. Used(w.used, end) \in Nat
      BY <1>1, <1>3 DEF Used
    <2>8. r \in WriterSet /\ r.kind = w.kind /\ r.bytes = bytes /\ r.pos = end /\ r.used = Used(w.used, end)
      <3>1. PICK u : u = Used(w.used, end)
        OBVIOUS
      <3>2. w \in WriterSet /\ bytes \in Seq(Int) /\ end \in Nat /\ u \in Nat /\ r = WriterWith(w, bytes, end, u)
        BY <1>1, <1>3, <2>3, <2>6, <2>7, <3>1, Zenon
      <3>3. IsWriterWith(w, bytes, end, u, WriterWith(w, bytes, end, u))
        BY <3>2, WriterWithIs
      <3> QED  BY <3>1, <3>2, <3>3, Zenon DEF IsWriterWith
    <2>9. Sound(r)
      <3>1. r.used <= Len(r.bytes)
        <4>1. PICK u, l : u = w.used /\ l = Len(old)
          OBVIOUS
        <4>2. u \in Nat /\ l \in Nat /\ u <= l
          BY <1>1, <1>2, <1>3, <4>1, Zenon
        <4>3. PICK m : m = Len(r.bytes)
          OBVIOUS
        <4>4. m \in Nat /\ m >= end /\ m >= l
          BY <2>4, <2>6, <2>8, <4>1, <4>3, Zenon
        <4>5. r.used = Used(u, end)
          BY <2>8, <4>1, Zenon
        <4>6. Used(u, end) <= m
          BY <1>3, <4>2, <4>4 DEF Used
        <4> QED  BY <4>3, <4>5, <4>6, Zenon
      <3>2. r.kind # "channel"
        BY <1>5, <2>8, Zenon
      <3> QED  BY <2>8, <3>1, <3>2, Zenon DEF Sound
    <2>10. \A i \in 1 .. w.used : i <= pos \/ i > end => r.bytes[i] = w.bytes[i]
      <3> TAKE i \in 1 .. w.used
      <3> HAVE i <= pos \/ i > end
      <3>1. i \in 1 .. Len(old) /\ i \in 1 .. Len(room) /\ (i <= pos \/ i > pos + Len(buf))
        <4>1. PICK u, l, m : u = w.used /\ l = Len(old) /\ m = Len(room)
          OBVIOUS
        <4>2. i \in 1 .. u /\ u \in Nat /\ l \in Nat /\ m \in Nat /\ u <= l /\ m >= l
          BY <1>1, <1>2, <1>3, <2>4, <4>1, Zenon
        <4>3. i \in 1 .. l /\ i \in 1 .. m
          BY <4>2
        <4> QED  BY <1>3, <4>1, <4>3, Zenon
      <3>2. bytes[i] = room[i] /\ room[i] = old[i]
        BY <2>4, <2>5, <3>1 DEF Laid
      <3> QED  BY <1>2, <2>8, <3>2
    <2>11. \A i \in pos + 1 .. end : i <= r.used /\ r.bytes[i] \in Byte
      BY <1>1, <1>3, <2>5, <2>8 DEF Laid, Used
    <2>12. w.used <= r.used /\ (r.used <= w.used \/ r.used <= end)
      BY <1>1, <1>3, <2>8 DEF Used
    <2> QED  BY <1>2, <1>3, <2>8, <2>9, <2>10, <2>11, <2>12 DEF Wrote
  <1> QED  BY <1>1, <1>4, <1>5

(* Going elsewhere writes nothing. *)
LEMMA GotoWrites ==
    ASSUME NEW w, Sound(w), NEW pos \in Nat
    PROVE  Wrote(w, aktive_write_goto(w, pos), pos, pos)
  <1>1. /\ w \in WriterSet /\ w.kind \in {"channel", "bytearray"} /\ w.bytes \in Seq(Int)
        /\ w.used \in Nat
    BY DEF Sound, WriterSet
  <1>2. PICK r : r = aktive_write_goto(w, pos)
    OBVIOUS
  <1>3. PICK b : b = << >>
    OBVIOUS
  <1>4. b = << >> /\ Len(b) = 0 /\ pos # -1 /\ pos # -2
    BY <1>3
  <1>5. /\ r \in WriterSet /\ r.kind = w.kind /\ r.bytes = w.bytes /\ r.pos = pos
        /\ r.used = w.used
    <2>1. CASE w.kind = "channel"
      <3>1. r = [w EXCEPT !.bytes = w.bytes, !.pos = pos + Len(b), !.used = Len(w.bytes)]
        BY <1>2, <1>3, <1>4, <2>1
        DEF aktive_write_goto, Write, aktive_writer_to_channel, AKTIVE_WRITE_END, AKTIVE_WRITE_DONE
      <3>2. Len(w.bytes) = w.used /\ pos + Len(b) = pos
        BY <1>4, <2>1 DEF Sound
      <3> QED  BY <1>1, <3>1, <3>2 DEF WriterSet
    <2>2. CASE w.kind # "channel"
      <3>1. r = [w EXCEPT !.pos = pos]
        BY <1>2, <1>3, <1>4, <2>2
        DEF aktive_write_goto, Write, aktive_writer_to_bytearray, AKTIVE_WRITE_END, AKTIVE_WRITE_DONE
      <3> QED  BY <1>1, <3>1 DEF WriterSet
    <2> QED  BY <2>1, <2>2
  <1>6. Sound(r)
    BY <1>5 DEF Sound
  <1>7. r.used <= w.used /\ w.used <= r.used /\ pos <= pos
    BY <1>1, <1>5
  <1>8. \A i \in pos + 1 .. pos : FALSE
    OBVIOUS
  <1> QED  BY <1>2, <1>5, <1>6, <1>7, <1>8 DEF Wrote

(* What is handed out at the end are the bytes used. *)
LEMMA DoneGives ==
    ASSUME NEW w, Sound(w), NEW x, x = aktive_write_done(w)
    PROVE  x.bytes = w.bytes /\ Len(x.out) = w.used /\ \A i \in 1 .. w.used : x.out[i] = w.bytes[i]
  <1>1. /\ w \in WriterSet /\ w.bytes \in Seq(Int) /\ w.used \in Nat /\ w.used <= Len(w.bytes)
        /\ Len(w.bytes) \in Nat
    BY LenProperties DEF Sound, WriterSet
  <1>2. CASE w.kind = "channel"
    <2>1. x = [w EXCEPT !.out = w.bytes]
      BY <1>2 DEF aktive_write_done, Write, aktive_writer_to_channel, AKTIVE_WRITE_DONE
    <2> QED  BY <1>1, <1>2, <2>1 DEF Sound, WriterSet
  <1>3. CASE w.kind # "channel"
    <2>1. x = [w EXCEPT !.out = SubSeq(w.bytes, 1, w.used)]
      BY <1>3 DEF aktive_write_done, Write, aktive_writer_to_bytearray, AKTIVE_WRITE_DONE
    <2>2. x.bytes = w.bytes /\ x.out = SubSeq(w.bytes, 1, w.used)
      BY <1>1, <2>1 DEF WriterSet
    <2>3. PICK b, n, c : b = w.bytes /\ n = w.used /\ c = SubSeq(b, 1, n)
      OBVIOUS
    <2>4. 1 \in Int /\ n \in Int /\ \A i \in 1 .. n : b[i] \in Int
      BY <1>1, <2>3, LenProperties
    <2>5. /\ Len(c) = IF 1 <= n THEN (n - 1) + 1 ELSE 0
          /\ \A i \in 1 .. (n - 1) + 1 : c[i] = b[(1 + i) - 1]
      BY <2>3, <2>4, SubSeqProperties
    <2>6. Len(c) = n /\ \A i \in 1 .. n : c[i] = b[i]
      <3>1. n \in Nat
        BY <1>1, <2>3
      <3>2. ASSUME NEW i \in 1 .. n PROVE i \in 1 .. (n - 1) + 1 /\ (1 + i) - 1 = i
        BY <3>1
      <3> QED  BY <2>5, <3>1, <3>2
    <2> QED  BY <2>2, <2>3, <2>6
  <1> QED  BY <1>2, <1>3

(* The sink of netpbm writes with the functions of AKTIVE. *)
LEMMA SameWriter ==
    ASSUME NEW w, NEW buf
    PROVE  NP!aktive_write_here(w, buf) = aktive_write_here(w, buf)
  <1>1. ASSUME NEW old, NEW new, NEW pos, NEW gap
        PROVE  NP!Overwrite(old, new, pos, gap) = Overwrite(old, new, pos, gap)
    BY DEF NP!Overwrite, Overwrite
  <1>2. ASSUME NEW bytes, NEW size PROVE NP!Grow(bytes, size) = Grow(bytes, size)
    BY DEF NP!Grow, Grow, NP!Undefined, Undefined
  <1>3. ASSUME NEW used, NEW pos PROVE NP!Used(used, pos) = Used(used, pos)
    BY DEF NP!Used, Used
  <1>4. NP!aktive_writer_to_channel(w, buf, -1) = aktive_writer_to_channel(w, buf, -1)
    BY <1>1 DEF NP!aktive_writer_to_channel, aktive_writer_to_channel, NP!AKTIVE_WRITE_END,
                AKTIVE_WRITE_END, NP!AKTIVE_WRITE_DONE, AKTIVE_WRITE_DONE
  <1>5. NP!aktive_writer_to_bytearray(w, buf, -1) = aktive_writer_to_bytearray(w, buf, -1)
    BY <1>1, <1>2, <1>3
    DEF NP!aktive_writer_to_bytearray, aktive_writer_to_bytearray, NP!AKTIVE_WRITE_END,
        AKTIVE_WRITE_END, NP!AKTIVE_WRITE_DONE, AKTIVE_WRITE_DONE, NP!Undefined, Undefined
  <1> QED  BY <1>4, <1>5 DEF NP!aktive_write_here, aktive_write_here, NP!Write, Write,
              NP!AKTIVE_WRITE_HERE, AKTIVE_WRITE_HERE, NP!AKTIVE_WRITE_END, AKTIVE_WRITE_END

(* And closes with them. *)
LEMMA SameDone ==
    ASSUME NEW w
    PROVE  NP!aktive_write_done(w) = aktive_write_done(w)
  BY DEF NP!aktive_write_done, aktive_write_done, NP!Write, Write, NP!AKTIVE_WRITE_DONE, AKTIVE_WRITE_DONE,
         NP!aktive_writer_to_channel, aktive_writer_to_channel,
         NP!aktive_writer_to_bytearray, aktive_writer_to_bytearray

(* And puts its numbers with them. *)
LEMMA SameNumbers ==
    ASSUME NEW v, NEW n
    PROVE  NP!BigEndian(v, n) = BigEndian(v, n) /\ NP!Decimal(v) = Decimal(v)
  <1>1. NP!LittleEndian(v, n) = LittleEndian(v, n)
    BY DEF NP!LittleEndian, LittleEndian
  <1>2. NP!BigEndian(v, n) = BigEndian(v, n)
    BY <1>1 DEF NP!BigEndian, BigEndian, NP!Reverse, Reverse
  <1>3. NP!Decimal(v) = Decimal(v)
    BY DEF NP!Decimal, Decimal, NP!Reverse, Reverse
  <1> QED  BY <1>2, <1>3

(* A sink of netpbm with its writer, and one whose writer is behind all it
   wrote. *)
NetpbmInfo == [writer : WriterSet, variant : NP!Variants, maxvalue : Int, size : Int,
               written : Int, col : Int]

NetpbmPut(mode, i, x) ==
    IF mode = "text" THEN NP!netpbm_text(i, x)
    ELSE IF mode = "etext" THEN NP!netpbm_etext(i, x)
    ELSE IF mode = "byte" THEN NP!netpbm_byte(i, x)
    ELSE NP!netpbm_short(i, x)

(* Bytes written by such a sink, and what else changes of it. *)
Moved(i, j) ==
    /\ j \in NetpbmInfo
    /\ \E b \in Nat : Wrote(i.writer, j.writer, i.writer.pos, b)

(* Values that are counted as written. *)
Adds(i, j, n) == j.size = i.size /\ j.written = i.written + n

(* A value more is counted. *)
InfoBy(i, w, n) == [i EXCEPT !.writer = w, !.written = n]

LEMMA InfoCounted ==
    ASSUME NEW i \in NetpbmInfo, NEW w \in WriterSet, NEW n \in Int
    PROVE  /\ InfoBy(i, w, n) \in NetpbmInfo /\ InfoBy(i, w, n).writer = w
           /\ InfoBy(i, w, n).size = i.size /\ InfoBy(i, w, n).written = n
  BY DEF NetpbmInfo, InfoBy

(* The parts of a sink of netpbm that a value changes. *)
InfoAt(i, w, c, n) == [i EXCEPT !.writer = w, !.col = c, !.written = n]

LEMMA InfoAtIs ==
    ASSUME NEW i \in NetpbmInfo, NEW w \in WriterSet, NEW n \in Int, NEW c \in Int
    PROVE  /\ InfoAt(i, w, c, n) \in NetpbmInfo /\ InfoAt(i, w, c, n).writer = w
           /\ InfoAt(i, w, c, n).size = i.size /\ InfoAt(i, w, c, n).written = n
  BY DEF NetpbmInfo, InfoAt

(* The counts of a sink are numbers. *)
LEMMA CountInt == ASSUME NEW i \in NetpbmInfo PROVE i.written + 1 \in Int /\ i.col \in Int
  BY DEF NetpbmInfo

(* A byte is a sequence of bytes. *)
LEMMA OneByte ==
    ASSUME NEW v \in Int, NEW one, one = << v % 256 >>
    PROVE  one \in Seq(Byte) /\ one # << >> /\ Len(one) = 1
  BY DEF Byte

(* Values are made integers before they are written. *)
LEMMA QuantizedInt ==
    ASSUME NEW x \in Int
    PROVE  NP!aktive_quantize_uint8(x) \in Int /\ NP!aktive_quantize_uint16(x) \in Int
  <1>1. NP!aktive_clamp(x) \in Int
    BY DEF NP!aktive_clamp, NP!One
  <1>2. PICK y : y = NP!aktive_clamp(x)
    OBVIOUS
  <1>3. y \in Int
    BY <1>1, <1>2
  <1>4. (y * 255) \div 510 \in Int /\ (y * 65535) \div 510 \in Int
    BY SMT, <1>3
  <1> QED  BY <1>2, <1>4 DEF NP!aktive_quantize_uint8, NP!aktive_quantize_uint16, NP!One

(* The text forms write decimals and spaces. *)
LEMMA PutTextMoves ==
    ASSUME NEW i \in NetpbmInfo, Sound(i.writer), NEW v \in Int
    PROVE  Moved(i, NP!PutText(i, v)) /\ Adds(i, NP!PutText(i, v), 1)
  <1>1. PICK w, text : w = i.writer /\ text = Decimal(v)
    OBVIOUS
  <1>2. PICK term : term = IF NP!LineEnds(i, Len(text)) THEN 10 ELSE 32
    OBVIOUS
  <1>3. text \in Seq(Byte) /\ text # << >> /\ Len(text) \in Nat
    BY <1>1, DecimalBytes, LenProperties
  <1>4. PICK last : last = << term % 256 >>
    OBVIOUS
  <1>5. term \in Int /\ last \in Seq(Byte) /\ last # << >> /\ Len(last) = 1
    <2>1. term = 10 \/ term = 32
      BY <1>2
    <2> QED  BY <1>4, <2>1, OneByte
  <1>6. PICK w1, w2 : w1 = aktive_write_here(w, text) /\ w2 = aktive_write_here(w1, last)
    OBVIOUS
  <1>7. Sound(w) /\ Wrote(w, w1, w.pos, w.pos + Len(text))
    BY <1>1, <1>3, <1>6, HereWrites
  <1>8. Sound(w1) /\ w1.pos = w.pos + Len(text)
    BY <1>7 DEF Wrote
  <1>9. Wrote(w1, w2, w1.pos, w1.pos + 1)
    BY <1>5, <1>6, <1>8, HereWrites
  <1>10. Wrote(w, w2, w.pos, w1.pos + 1)
    BY <1>7, <1>8, <1>9, WroteOn
  <1>11. PICK c : c = IF term = 10 THEN 0 ELSE i.col + Len(text) + 1
    OBVIOUS
  <1>12. NP!PutText(i, v) = [i EXCEPT !.writer = w2, !.col = c, !.written = i.written + 1]
    <2>1. NP!aktive_write_here_uint8(NP!aktive_write_here(i.writer, text), term) = w2
      BY <1>1, <1>4, <1>6, SameWriter DEF NP!aktive_write_here_uint8
    <2>2. NP!Decimal(v) = text
      BY <1>1, SameNumbers
    <2> QED  BY <1>2, <1>11, <2>1, <2>2 DEF NP!PutText
  <1>13. w2 \in WriterSet /\ c \in Int
    <2>1. i.col \in Int
      BY DEF NetpbmInfo
    <2> QED  BY <1>3, <1>10, <1>11, <2>1 DEF Wrote, Sound
  <1>14. PICK j : j = [i EXCEPT !.writer = w2, !.col = c, !.written = i.written + 1]
    OBVIOUS
  <1>15. j \in NetpbmInfo /\ j.writer = w2 /\ j.size = i.size /\ j.written = i.written + 1
    <2>1. PICK n : n = i.written + 1
      OBVIOUS
    <2>2. n \in Int /\ j = InfoAt(i, w2, c, n)
      BY <1>14, <2>1, CountInt DEF InfoAt
    <2> QED  BY <1>13, <2>1, <2>2, InfoAtIs
  <1>16. w1.pos + 1 \in Nat
    BY <1>10 DEF Wrote
  <1> QED  BY <1>1, <1>10, <1>12, <1>14, <1>15, <1>16 DEF Moved, Adds

(* The binary forms write bytes. *)
LEMMA PutBinaryMoves ==
    ASSUME NEW i \in NetpbmInfo, Sound(i.writer), NEW v \in Int
    PROVE  /\ Moved(i, NP!PutByte(i, v)) /\ Adds(i, NP!PutByte(i, v), 1)
           /\ Moved(i, NP!PutShort(i, v)) /\ Adds(i, NP!PutShort(i, v), 1)
  <1>1. ASSUME NEW code \in Seq(Byte), code # << >>, NEW j,
               j = [i EXCEPT !.writer = aktive_write_here(i.writer, code), !.written = i.written + 1]
        PROVE  Moved(i, j) /\ Adds(i, j, 1)
    <2>1. PICK w, x, b : w = i.writer /\ x = aktive_write_here(w, code) /\ b = w.pos + Len(code)
      OBVIOUS
    <2>2. Wrote(w, x, w.pos, b)
      BY <1>1, <2>1, HereWrites
    <2>3. x \in WriterSet /\ b \in Nat
      BY <2>2 DEF Wrote, Sound
    <2>4. j = [i EXCEPT !.writer = x, !.written = i.written + 1]
      BY <1>1, <2>1
    <2>5. j \in NetpbmInfo /\ j.writer = x /\ j.size = i.size /\ j.written = i.written + 1
      <3>1. PICK n : n = i.written + 1
        OBVIOUS
      <3>2. n \in Int /\ j = InfoBy(i, x, n)
        BY <2>4, <3>1, CountInt DEF InfoBy
      <3>3. j \in NetpbmInfo /\ j.writer = x /\ j.size = i.size /\ j.written = n
        BY <2>3, <3>2, InfoCounted
      <3> QED  BY <3>1, <3>3
    <2> QED  BY <2>1, <2>2, <2>3, <2>5 DEF Moved, Adds
  <1>2. PICK one, two : one = << v % 256 >> /\ two = BigEndian(v, 2)
    OBVIOUS
  <1>3. one \in Seq(Byte) /\ one # << >> /\ two \in Seq(Byte) /\ two # << >>
    <2>1. one \in Seq(Byte) /\ one # << >>
      BY <1>2, OneByte
    <2>2. 2 \in Nat \ {0}
      OBVIOUS
    <2>3. two \in Seq(Byte) /\ Len(two) = 2
      BY <1>2, <2>2, BytesAre
    <2>4. two # << >>
      BY <2>3
    <2> QED  BY <2>1, <2>3, <2>4
  <1>4. NP!PutByte(i, v) = [i EXCEPT !.writer = aktive_write_here(i.writer, one), !.written = i.written + 1]
    BY <1>2, SameWriter DEF NP!PutByte, NP!aktive_write_here_uint8
  <1>5. NP!PutShort(i, v) = [i EXCEPT !.writer = aktive_write_here(i.writer, two), !.written = i.written + 1]
    BY <1>2, SameWriter, SameNumbers DEF NP!PutShort, NP!aktive_write_here_uint16be
  <1> QED  BY <1>1, <1>3, <1>4, <1>5

(* Each form of netpbm writes bytes behind those before. *)
LEMMA PutMoves ==
    ASSUME NEW i \in NetpbmInfo, Sound(i.writer), NEW x \in Int, NEW mode
    PROVE  Moved(i, NetpbmPut(mode, i, x)) /\ Adds(i, NetpbmPut(mode, i, x), 1)
  BY QuantizedInt, PutTextMoves, PutBinaryMoves
  DEF NetpbmPut, NP!netpbm_text, NP!netpbm_etext, NP!netpbm_byte, NP!netpbm_short

(* Two such writes are one. *)
LEMMA MovedOn ==
    ASSUME NEW i, NEW j, NEW k, Sound(i.writer), Moved(i, j), Moved(j, k)
    PROVE  Moved(i, k)
  <1>1. PICK b \in Nat : Wrote(i.writer, j.writer, i.writer.pos, b)
    BY DEF Moved
  <1>2. PICK c \in Nat : Wrote(j.writer, k.writer, j.writer.pos, c)
    BY DEF Moved
  <1>3. j.writer.pos = b
    BY <1>1 DEF Wrote
  <1>4. Wrote(i.writer, k.writer, i.writer.pos, c)
    BY <1>1, <1>2, <1>3, WroteOn
  <1> QED  BY <1>4 DEF Moved

(* The values of a row are put one after the other, by a sink of netpbm or by a
   writer of AKTIVE. *)
PutBy(mode, s, x) ==
    IF mode = "be" THEN aktive_write_here_float64be(s, x)
    ELSE IF mode = "le" THEN aktive_write_here_float64le(s, x)
    ELSE NetpbmPut(mode, s, x)

(* Values put one after the other. *)
IsPuts(f, mode, s, v, n) ==
    f = [j \in 0 .. n |-> IF j = 0 THEN s ELSE PutBy(mode, f[j - 1], v[j])]

(* The state after each of them is found. *)
LEMMA PutsExist ==
    ASSUME NEW mode, NEW s, NEW v, NEW n \in Nat
    PROVE  \E f : IsPuts(f, mode, s, v, n)
  <1> DEFINE E == {m \in Nat : \E f : IsPuts(f, mode, s, v, m)}
  <1>1. 0 \in E
    <2>1. PICK f : f = [j \in 0 .. 0 |-> s]
      OBVIOUS
    <2>2. \A j \in 0 .. 0 : j = 0
      OBVIOUS
    <2>3. IsPuts(f, mode, s, v, 0)
      BY <2>1, <2>2 DEF IsPuts
    <2> QED  BY <2>3
  <1>2. ASSUME NEW m \in Nat, m \in E PROVE m + 1 \in E
    <2>1. PICK f : IsPuts(f, mode, s, v, m)
      BY <1>2
    <2>2. PICK last : last = PutBy(mode, f[m], v[m + 1])
      OBVIOUS
    <2>3. PICK g : g = [j \in 0 .. m + 1 |-> IF j <= m THEN f[j] ELSE last]
      OBVIOUS
    <2>4. \A j \in 0 .. m : g[j] = f[j]
      BY <2>3
    <2>5. \A j \in 0 .. m : f[j] = IF j = 0 THEN s ELSE PutBy(mode, f[j - 1], v[j])
      BY <2>1 DEF IsPuts
    <2>6. ASSUME NEW j \in 0 .. m + 1
          PROVE  g[j] = IF j = 0 THEN s ELSE PutBy(mode, g[j - 1], v[j])
      <3>1. CASE j = 0
        <4>1. 0 \in 0 .. m
          OBVIOUS
        <4>2. g[0] = f[0] /\ f[0] = s
          BY <2>4, <2>5, <4>1
        <4> QED  BY <3>1, <4>2
      <3>2. CASE j \in 1 .. m
        <4>1. j \in 0 .. m /\ j - 1 \in 0 .. m /\ j # 0
          BY <3>2
        <4>2. g[j] = f[j] /\ g[j - 1] = f[j - 1] /\ f[j] = PutBy(mode, f[j - 1], v[j])
          BY <2>4, <2>5, <4>1
        <4> QED  BY <4>1, <4>2
      <3>3. CASE j = m + 1
        <4>1. ~ (j <= m) /\ j - 1 = m /\ j # 0 /\ m \in 0 .. m
          BY <3>3
        <4>2. g[j] = last /\ g[m] = f[m]
          BY <2>3, <2>4, <4>1
        <4> QED  BY <2>2, <3>3, <4>1, <4>2
      <3> QED  BY <3>1, <3>2, <3>3
    <2>7. g = [j \in 0 .. m + 1 |-> g[j]]
      BY <2>3
    <2>8. g = [j \in 0 .. m + 1 |-> IF j = 0 THEN s ELSE PutBy(mode, g[j - 1], v[j])]
      BY <2>6, <2>7
    <2>9. IsPuts(g, mode, s, v, m + 1)
      BY <2>8 DEF IsPuts
    <2> QED  BY <2>9
  <1>3. \A m \in Nat : m \in E
    <2> HIDE DEF E
    <2> QED  BY <1>1, <1>2, SetInduction
  <1> QED  BY <1>3

(* The values put by a sink of netpbm come behind what it wrote. *)
LEMMA PutsMove ==
    ASSUME NEW mode \in {"text", "etext", "byte", "short"}, NEW i \in NetpbmInfo, Sound(i.writer),
           NEW v, NEW n \in Nat, \A j \in 1 .. n : v[j] \in Int, NEW f, IsPuts(f, mode, i, v, n)
    PROVE  Moved(i, f[n]) /\ Adds(i, f[n], n)
  <1>1. \A j \in 0 .. n : f[j] = IF j = 0 THEN i ELSE PutBy(mode, f[j - 1], v[j])
    BY DEF IsPuts
  <1> DEFINE E == {m \in Nat : m <= n => Moved(i, f[m]) /\ Adds(i, f[m], m)}
  <1>2. 0 \in E
    <2>1. 0 \in 0 .. n
      OBVIOUS
    <2>2. f[0] = i
      BY <1>1, <2>1
    <2>3. i.writer.pos \in Nat /\ i.writer.used \in Nat
      BY DEF Sound, WriterSet
    <2>4. Wrote(i.writer, i.writer, i.writer.pos, i.writer.pos)
      BY <2>3 DEF Wrote
    <2>5. i.written \in Int
      BY DEF NetpbmInfo
    <2>6. Adds(i, i, 0)
      BY <2>5 DEF Adds
    <2> QED  BY <2>2, <2>3, <2>4, <2>6 DEF Moved
  <1>3. ASSUME NEW m \in Nat, m \in E PROVE m + 1 \in E
    <2> SUFFICES ASSUME m + 1 <= n PROVE Moved(i, f[m + 1]) /\ Adds(i, f[m + 1], m + 1)
      OBVIOUS
    <2>1. PICK j : j = m + 1
      OBVIOUS
    <2>2. j \in 0 .. n /\ j # 0 /\ j \in 1 .. n /\ j - 1 = m /\ m <= n
      BY <2>1
    <2>3. Moved(i, f[m]) /\ Adds(i, f[m], m)
      BY <1>3, <2>2
    <2>4. f[j] = PutBy(mode, f[m], v[j]) /\ v[j] \in Int
      BY <1>1, <2>2
    <2>5. f[m] \in NetpbmInfo /\ Sound(f[m].writer)
      BY <2>3 DEF Moved, Wrote
    <2>6. PutBy(mode, f[m], v[j]) = NetpbmPut(mode, f[m], v[j])
      BY DEF PutBy
    <2>7. Moved(f[m], f[j]) /\ Adds(f[m], f[j], 1)
      BY <2>4, <2>5, <2>6, PutMoves
    <2>8. Moved(i, f[j])
      BY <2>3, <2>7, MovedOn
    <2>9. Adds(i, f[j], j)
      <3>1. i.written \in Int
        BY DEF NetpbmInfo
      <3> QED  BY <2>1, <2>3, <2>7, <3>1 DEF Adds
    <2> QED  BY <2>1, <2>8, <2>9
  <1>4. \A m \in Nat : m \in E
    <2> HIDE DEF E
    <2> QED  BY <1>2, <1>3, SetInduction
  <1> QED  BY <1>4

(* The values put by a writer of AKTIVE take eight bytes each. *)
LEMMA PutsWrite ==
    ASSUME NEW mode \in {"be", "le"}, NEW w, Sound(w), NEW v, NEW n \in Nat,
           \A j \in 1 .. n : v[j] \in Int, NEW f, IsPuts(f, mode, w, v, n)
    PROVE  Wrote(w, f[n], w.pos, w.pos + 8 * n)
  <1>1. \A j \in 0 .. n : f[j] = IF j = 0 THEN w ELSE PutBy(mode, f[j - 1], v[j])
    BY DEF IsPuts
  <1>2. w.pos \in Nat /\ w.used \in Nat
    BY DEF Sound, WriterSet
  <1> DEFINE E == {m \in Nat : m <= n => Wrote(w, f[m], w.pos, w.pos + 8 * m)}
  <1>3. 0 \in E
    <2>1. 0 \in 0 .. n /\ w.pos + 8 * 0 = w.pos
      BY <1>2
    <2>2. f[0] = w
      BY <1>1, <2>1
    <2>3. Wrote(w, w, w.pos, w.pos)
      BY <1>2 DEF Wrote
    <2> QED  BY <2>1, <2>2, <2>3
  <1>4. ASSUME NEW m \in Nat, m \in E PROVE m + 1 \in E
    <2> SUFFICES ASSUME m + 1 <= n PROVE Wrote(w, f[m + 1], w.pos, w.pos + 8 * (m + 1))
      OBVIOUS
    <2>1. PICK j : j = m + 1
      OBVIOUS
    <2>2. j \in 0 .. n /\ j # 0 /\ j \in 1 .. n /\ j - 1 = m /\ m <= n
      BY <2>1
    <2>3. Wrote(w, f[m], w.pos, w.pos + 8 * m)
      BY <1>4, <2>2
    <2>4. f[j] = PutBy(mode, f[m], v[j]) /\ v[j] \in Int
      BY <1>1, <2>2
    <2>5. Sound(f[m]) /\ f[m].pos = w.pos + 8 * m
      BY <2>3 DEF Wrote
    <2>6. PICK code \in Seq(Byte) : code # << >> /\ Len(code) = 8 /\ f[j] = aktive_write_here(f[m], code)
      <3>1. PICK big, little : big = BigEndian(v[j], 8) /\ little = LittleEndian(v[j], 8)
        OBVIOUS
      <3>2. 8 \in Nat \ {0}
        OBVIOUS
      <3>3. big \in Seq(Byte) /\ Len(big) = 8 /\ little \in Seq(Byte) /\ Len(little) = 8
        BY <2>4, <3>1, <3>2, BytesAre
      <3>4. big # << >> /\ little # << >>
        <4>1. Len(big) # 0 /\ Len(little) # 0
          BY <3>3
        <4> QED  BY <4>1, NotEmpty
      <3>5. f[j] = aktive_write_here(f[m], big) \/ f[j] = aktive_write_here(f[m], little)
        BY <2>4, <3>1 DEF PutBy, aktive_write_here_float64be, aktive_write_here_float64le
      <3> QED  BY <3>3, <3>4, <3>5
    <2>7. Wrote(f[m], f[j], f[m].pos, f[m].pos + Len(code))
      BY <2>5, <2>6, HereWrites
    <2>8. f[m].pos + Len(code) = w.pos + 8 * (m + 1)
      BY <1>2, <2>5, <2>6
    <2> QED  BY <2>1, <2>3, <2>5, <2>7, <2>8, WroteOn
  <1>5. \A m \in Nat : m \in E
    <2> HIDE DEF E
    <2> QED  BY <1>3, <1>4, SetInduction
  <1> QED  BY <1>5

(* A row is put by one of four functions. *)
IsText(f, i, v, n)  == f = [j \in 0 .. n |-> IF j = 0 THEN i ELSE NP!netpbm_text(f[j - 1], v[j])]
IsEtext(f, i, v, n) == f = [j \in 0 .. n |-> IF j = 0 THEN i ELSE NP!netpbm_etext(f[j - 1], v[j])]
IsBytes(f, i, v, n) == f = [j \in 0 .. n |-> IF j = 0 THEN i ELSE NP!netpbm_byte(f[j - 1], v[j])]
IsShort(f, i, v, n) == f = [j \in 0 .. n |-> IF j = 0 THEN i ELSE NP!netpbm_short(f[j - 1], v[j])]

(* These are the folds of the process functions. *)
LEMMA PutsAre ==
    ASSUME NEW f, NEW i, NEW v, NEW n
    PROVE  /\ IsPuts(f, "text", i, v, n) <=> IsText(f, i, v, n)
           /\ IsPuts(f, "etext", i, v, n) <=> IsEtext(f, i, v, n)
           /\ IsPuts(f, "byte", i, v, n) <=> IsBytes(f, i, v, n)
           /\ IsPuts(f, "short", i, v, n) <=> IsShort(f, i, v, n)
  <1>1. ASSUME NEW s, NEW x
        PROVE  /\ PutBy("text", s, x) = NP!netpbm_text(s, x)
               /\ PutBy("etext", s, x) = NP!netpbm_etext(s, x)
               /\ PutBy("byte", s, x) = NP!netpbm_byte(s, x)
               /\ PutBy("short", s, x) = NP!netpbm_short(s, x)
    BY DEF PutBy, NetpbmPut
  <1> QED  BY <1>1 DEF IsPuts, IsText, IsEtext, IsBytes, IsShort

(* A block of values given to a sink of netpbm is written behind the others. *)
LEMMA ProcessMoves ==
    ASSUME NEW i \in NetpbmInfo, Sound(i.writer), NEW v, NEW n \in Nat, n = Len(v),
           \A j \in 1 .. n : v[j] \in Int
    PROVE  Moved(i, NP!netpbm_process(i, v)) /\ Adds(i, NP!netpbm_process(i, v), n)
  <1>1. PICK text, etext, bytes, short :
            /\ text = CHOOSE f : IsText(f, i, v, n)
            /\ etext = CHOOSE f : IsEtext(f, i, v, n)
            /\ bytes = CHOOSE f : IsBytes(f, i, v, n)
            /\ short = CHOOSE f : IsShort(f, i, v, n)
    OBVIOUS
  <1>2. \/ NP!netpbm_process(i, v) = text[n]
        \/ NP!netpbm_process(i, v) = etext[n]
        \/ NP!netpbm_process(i, v) = bytes[n]
        \/ NP!netpbm_process(i, v) = short[n]
    BY <1>1 DEF NP!netpbm_process, NP!Each, NP!binary, NP!extended, IsText, IsEtext, IsBytes, IsShort
  <1>3. /\ \E f : IsText(f, i, v, n)
        /\ \E f : IsEtext(f, i, v, n)
        /\ \E f : IsBytes(f, i, v, n)
        /\ \E f : IsShort(f, i, v, n)
    BY PutsExist, PutsAre
  <1>4. /\ IsText(text, i, v, n) /\ IsEtext(etext, i, v, n)
        /\ IsBytes(bytes, i, v, n) /\ IsShort(short, i, v, n)
    BY <1>1, <1>3
  <1>5. /\ IsPuts(text, "text", i, v, n) /\ IsPuts(etext, "etext", i, v, n)
        /\ IsPuts(bytes, "byte", i, v, n) /\ IsPuts(short, "short", i, v, n)
    BY <1>4, PutsAre
  <1>6. /\ "text" \in {"text", "etext", "byte", "short"} /\ "etext" \in {"text", "etext", "byte", "short"}
        /\ "byte" \in {"text", "etext", "byte", "short"} /\ "short" \in {"text", "etext", "byte", "short"}
    OBVIOUS
  <1>7. /\ Moved(i, text[n]) /\ Moved(i, etext[n]) /\ Moved(i, bytes[n]) /\ Moved(i, short[n])
        /\ Adds(i, text[n], n) /\ Adds(i, etext[n], n)
        /\ Adds(i, bytes[n], n) /\ Adds(i, short[n], n)
    BY <1>5, <1>6, PutsMove
  <1> QED  BY <1>2, <1>7

(* The header is one text. *)
InfoSized(i, w, size, n, c) == [i EXCEPT !.writer = w, !.size = size, !.written = n, !.col = c]

(* It changes these parts of the sink. *)
LEMMA InfoSizedIs ==
    ASSUME NEW i \in NetpbmInfo, NEW w \in WriterSet, NEW size \in Int, NEW n \in Int, NEW c \in Int
    PROVE  /\ InfoSized(i, w, size, n, c) \in NetpbmInfo /\ InfoSized(i, w, size, n, c).writer = w
           /\ InfoSized(i, w, size, n, c).size = size /\ InfoSized(i, w, size, n, c).written = n
  BY DEF NetpbmInfo, InfoSized

(* Three bytes are a sequence of bytes. *)
LEMMA ThreeBytes ==
    ASSUME NEW a \in Byte, NEW b \in Byte, NEW c \in Byte, NEW s, s = << a, b, c >>
    PROVE  s \in Seq(Byte) /\ Len(s) = 3
  OBVIOUS

(* It is written where the sink is. *)
LEMMA HeaderMoves ==
    ASSUME NEW i \in NetpbmInfo, Sound(i.writer), NEW pic,
           pic.width \in Nat, pic.height \in Nat, pic.depth \in Nat
    PROVE  /\ Moved(i, NP!netpbm_header(i, pic))
           /\ NP!netpbm_header(i, pic).size = pic.width * pic.height * pic.depth
           /\ NP!netpbm_header(i, pic).written = 0
  <1>1. PICK d1, d2, d3, blank, start :
            /\ d1 = Decimal(pic.width) /\ d2 = Decimal(pic.height) /\ d3 = Decimal(i.maxvalue)
            /\ blank = << 32 >> /\ start = << 80, 48 + i.variant, 32 >>
    OBVIOUS
  <1>2. i.maxvalue \in Int /\ i.variant \in NP!Variants
    BY DEF NetpbmInfo
  <1>3. d1 \in Seq(Byte) /\ d2 \in Seq(Byte) /\ d3 \in Seq(Byte)
    <2>1. PICK p, q, r : p = pic.width /\ q = pic.height /\ r = i.maxvalue
      OBVIOUS
    <2>2. p \in Int /\ q \in Int /\ r \in Int
      BY <1>2, <2>1
    <2> QED  BY <1>1, <2>1, <2>2, DecimalBytes
  <1>4. blank \in Seq(Byte) /\ Len(blank) = 1
    <2>1. 32 \in Int /\ blank = << 32 % 256 >>
      BY <1>1
    <2> QED  BY <2>1, OneByte
  <1>5. start \in Seq(Byte) /\ Len(start) = 3
    <2>1. 48 + i.variant \in Byte /\ 80 \in Byte /\ 32 \in Byte
      BY <1>2 DEF NP!Variants, Byte
    <2>2. PICK a, b, c : a = 80 /\ b = 48 + i.variant /\ c = 32
      OBVIOUS
    <2>3. a \in Byte /\ b \in Byte /\ c \in Byte /\ start = << a, b, c >>
      BY <1>1, <2>1, <2>2
    <2> QED  BY <2>3, ThreeBytes
  <1>6. PICK buf : buf = start \o d1 \o blank \o d2 \o blank \o d3 \o blank
    OBVIOUS
  <1>7. buf \in Seq(Byte) /\ Len(buf) # 0
    <2>1. PICK b1, b2, b3, b4, b5 : b1 = start \o d1 /\ b2 = b1 \o blank /\ b3 = b2 \o d2 /\ b4 = b3 \o blank
                                    /\ b5 = b4 \o d3
      OBVIOUS
    <2>2. buf = b5 \o blank
      BY <1>6, <2>1
    <2>3. b1 \in Seq(Byte)
      BY <1>3, <1>5, <2>1, BytesJoined
    <2>4. b2 \in Seq(Byte)
      BY <1>4, <2>1, <2>3, BytesJoined
    <2>5. b3 \in Seq(Byte)
      BY <1>3, <2>1, <2>4, BytesJoined
    <2>6. b4 \in Seq(Byte)
      BY <1>4, <2>1, <2>5, BytesJoined
    <2>7. b5 \in Seq(Byte)
      BY <1>3, <2>1, <2>6, BytesJoined
    <2>8. buf \in Seq(Byte) /\ Len(buf) = Len(b5) + Len(blank)
      BY <1>4, <2>2, <2>7, BytesJoined
    <2>9. Len(b5) \in Nat
      BY <2>7, LenProperties
    <2> QED  BY <1>4, <2>8, <2>9
  <1>8. PICK w, x, b : w = i.writer /\ x = aktive_write_here(w, buf) /\ b = w.pos + Len(buf)
    OBVIOUS
  <1>9. Wrote(w, x, w.pos, b)
    BY <1>7, <1>8, HereWrites, NotEmpty
  <1>10. x \in WriterSet /\ b \in Nat
    BY <1>9 DEF Wrote, Sound
  <1>11. PICK size, col : size = pic.width * pic.height * pic.depth /\ col = Len(buf)
    OBVIOUS
  <1>12. size \in Int /\ col \in Int
    <2>1. PICK p, q, r : p = pic.width /\ q = pic.height /\ r = pic.depth
      OBVIOUS
    <2>2. p * q * r \in Int
      BY <2>1
    <2> QED  BY <1>7, <1>11, <2>1, <2>2, LenProperties
  <1>13. PICK j : j = InfoSized(i, x, size, 0, col)
    OBVIOUS
  <1>14. NP!netpbm_header(i, pic) = j
    <2>1. NP!Decimal(pic.width) = d1 /\ NP!Decimal(pic.height) = d2 /\ NP!Decimal(i.maxvalue) = d3
      BY <1>1, SameNumbers
    <2>2. buf = << 80, 48 + i.variant, 32 >> \o NP!Decimal(pic.width) \o << 32 >>
                \o NP!Decimal(pic.height) \o << 32 >> \o NP!Decimal(i.maxvalue) \o << 32 >>
      BY <1>1, <1>6, <2>1
    <2>3. x = NP!aktive_write_here(i.writer, buf)
      BY <1>8, SameWriter
    <2> HIDE DEF NP!Decimal, NP!aktive_write_here
    <2> QED  BY <1>11, <1>13, <2>2, <2>3 DEF NP!netpbm_header, InfoSized
  <1>15. j \in NetpbmInfo /\ j.writer = x /\ j.size = size /\ j.written = 0
    <2>1. 0 \in Int
      OBVIOUS
    <2> QED  BY <1>10, <1>12, <1>13, <2>1, InfoSizedIs
  <1> QED  BY <1>8, <1>9, <1>10, <1>11, <1>14, <1>15 DEF Moved

(* A sink of AKTIVE. *)
AktiveInfo == [writer : WriterSet, x : Int, y : Int, size : Int, written : Int, start : Int,
               rowsize : Int, pixsize : Int]

(* The parts the header changes. *)
InfoStarted(i, w, x, y, size, n, start, pix, row) ==
    [i EXCEPT !.writer = w, !.x = x, !.y = y, !.size = size, !.written = n, !.start = start,
              !.pixsize = pix, !.rowsize = row]

(* The sink stays one. *)
LEMMA InfoStartedIs ==
    ASSUME NEW i \in AktiveInfo, NEW w \in WriterSet, NEW x \in Int, NEW y \in Int, NEW size \in Int,
           NEW n \in Int, NEW start \in Int, NEW pix \in Int, NEW row \in Int,
           NEW j, j = InfoStarted(i, w, x, y, size, n, start, pix, row)
    PROVE  /\ j \in AktiveInfo /\ j.writer = w /\ j.x = x /\ j.y = y /\ j.start = start
           /\ j.rowsize = row /\ j.pixsize = pix /\ j.size = size /\ j.written = n
  BY DEF AktiveInfo, InfoStarted

(* The numbers of the header. *)
PutNumber(mode, w, v) == IF mode = "be" THEN aktive_write_here(w, BigEndian(v, 4))
                         ELSE aktive_write_here(w, LittleEndian(v, 4))

(* Each takes four bytes. *)
LEMMA NumberWrites ==
    ASSUME NEW mode, NEW w, NEW a, NEW b, NEW x, Sound(w), NEW v \in Int,
           Wrote(w, x, a, b)
    PROVE  Wrote(w, PutNumber(mode, x, v), a, b + 4)
  <1>1. PICK big, little : big = BigEndian(v, 4) /\ little = LittleEndian(v, 4)
    OBVIOUS
  <1>2. 4 \in Nat \ {0}
    OBVIOUS
  <1>3. big \in Seq(Byte) /\ Len(big) = 4 /\ little \in Seq(Byte) /\ Len(little) = 4
    BY <1>1, <1>2, BytesAre
  <1>4. big # << >> /\ little # << >>
    <2>1. Len(big) # 0 /\ Len(little) # 0
      BY <1>3
    <2> QED  BY <2>1, NotEmpty
  <1>5. PICK code \in Seq(Byte) : code # << >> /\ Len(code) = 4 /\ PutNumber(mode, x, v) = aktive_write_here(x, code)
    BY <1>1, <1>3, <1>4 DEF PutNumber
  <1>6. x.pos = b /\ Sound(x)
    BY DEF Wrote
  <1>7. Wrote(x, aktive_write_here(x, code), x.pos, x.pos + Len(code))
    BY <1>5, <1>6, HereWrites
  <1>8. Wrote(x, PutNumber(mode, x, v), b, b + 4)
    BY <1>5, <1>6, <1>7
  <1> QED  BY <1>8, WroteOn

(* Bytes go where the writer is. *)
LEMMA BytesWrite ==
    ASSUME NEW w, NEW a, NEW b, NEW x, Sound(w), Wrote(w, x, a, b), NEW buf \in Seq(Byte), buf # << >>
    PROVE  Wrote(w, aktive_write_here(x, buf), a, b + Len(buf))
  <1>1. x.pos = b /\ Sound(x)
    BY DEF Wrote
  <1>2. Wrote(x, aktive_write_here(x, buf), b, b + Len(buf))
    BY <1>1, HereWrites
  <1> QED  BY <1>2, WroteOn

(* The header, by its parts. *)
HeaderBy(mode, w, magic, pic) ==
    LET w1 == aktive_write_here(aktive_write_here(w, magic), VERSION)
        w2 == PutNumber(mode, PutNumber(mode, w1, pic.x), pic.y)
        w3 == PutNumber(mode, PutNumber(mode, PutNumber(mode, w2, pic.width), pic.height), pic.depth)
        w4 == PutNumber(mode, w3, Len(pic.meta))
        w5 == IF pic.meta = << >> THEN w4 ELSE aktive_write_here(w4, pic.meta)
    IN  aktive_write_here(w5, MAGIC2)

(* Where the pixels start. *)
StartOf(magic, pic) == Len(magic) + Len(VERSION) + 6 * UINT + Len(pic.meta) + Len(MAGIC2)

(* The fixed texts of the header are bytes. *)
LEMMA MagicsAre ==
    /\ MAGICBE \in Seq(Byte) /\ Len(MAGICBE) = 6
    /\ MAGICLE \in Seq(Byte) /\ Len(MAGICLE) = 8
    /\ MAGIC2 \in Seq(Byte) /\ Len(MAGIC2) = 8
    /\ VERSION \in Seq(Byte) /\ Len(VERSION) = 2
  <1>1. ASSUME NEW a \in Byte, NEW b \in Byte PROVE << a, b >> \in Seq(Byte) /\ Len(<< a, b >>) = 2
    OBVIOUS
  <1>2. 48 \in Byte /\ 76 \in Byte /\ 69 \in Byte /\ 95 \in Byte /\ 68 \in Byte
    BY DEF Byte
  <1>3. VERSION \in Seq(Byte) /\ Len(VERSION) = 2
    BY <1>1, <1>2 DEF VERSION
  <1>4. PICK p, q, m : p = << 76, 69 >> /\ q = << 95, 68 >> /\ m = MAGICBE
    OBVIOUS
  <1>5. p \in Seq(Byte) /\ Len(p) = 2 /\ q \in Seq(Byte) /\ Len(q) = 2
    BY <1>1, <1>2, <1>4
  <1>6. m \in Seq(Byte) /\ Len(m) = 6
    <2>1. ASSUME NEW a \in Byte, NEW b \in Byte, NEW c \in Byte, NEW d \in Byte, NEW e \in Byte, NEW f \in Byte
          PROVE  << a, b, c, d, e, f >> \in Seq(Byte) /\ Len(<< a, b, c, d, e, f >>) = 6
      OBVIOUS
    <2>2. 65 \in Byte /\ 75 \in Byte /\ 84 \in Byte /\ 73 \in Byte /\ 86 \in Byte /\ 69 \in Byte
      BY DEF Byte
    <2> QED  BY <1>4, <2>1, <2>2 DEF MAGICBE
  <1>7. m \o p \in Seq(Byte) /\ Len(m \o p) = 8 /\ m \o q \in Seq(Byte) /\ Len(m \o q) = 8
    <2>1. m \o p \in Seq(Byte) /\ Len(m \o p) = Len(m) + Len(p)
      BY <1>5, <1>6, BytesJoined
    <2>2. m \o q \in Seq(Byte) /\ Len(m \o q) = Len(m) + Len(q)
      BY <1>5, <1>6, BytesJoined
    <2>3. Len(m) + Len(p) = 8 /\ Len(m) + Len(q) = 8
      BY <1>5, <1>6
    <2> QED  BY <2>1, <2>2, <2>3
  <1> QED  BY <1>3, <1>4, <1>6, <1>7 DEF MAGICLE, MAGIC2

(* And none is empty. *)
LEMMA MagicsFull == MAGICBE # << >> /\ MAGICLE # << >> /\ VERSION # << >> /\ MAGIC2 # << >>
  <1>1. Len(MAGICBE) # 0
    BY MagicsAre
  <1>2. Len(MAGICLE) # 0
    BY MagicsAre
  <1>3. Len(VERSION) # 0
    BY MagicsAre
  <1>4. Len(MAGIC2) # 0
    BY MagicsAre
  <1> QED  BY <1>1, <1>2, <1>3, <1>4, NotEmpty

(* The header is all bytes up to where the pixels start. *)
LEMMA HeaderWrites ==
    ASSUME NEW mode, NEW w, Sound(w), w.pos = 0, NEW magic \in Seq(Byte), magic # << >>, NEW pic,
           pic.x \in Int, pic.y \in Int, pic.width \in Nat, pic.height \in Nat, pic.depth \in Nat,
           pic.meta \in Seq(Byte)
    PROVE  /\ StartOf(magic, pic) \in Nat
           /\ Wrote(w, HeaderBy(mode, w, magic, pic), 0, StartOf(magic, pic))
  <1>1. PICK p, q, a, b, c, meta : /\ p = pic.x /\ q = pic.y /\ a = pic.width /\ b = pic.height
                                   /\ c = pic.depth /\ meta = pic.meta
    OBVIOUS
  <1>2. /\ p \in Int /\ q \in Int /\ a \in Int /\ b \in Int /\ c \in Int /\ meta \in Seq(Byte)
    BY <1>1
  <1>3. PICK m, n : m = Len(magic) /\ n = Len(meta)
    OBVIOUS
  <1>4. m \in Nat /\ n \in Nat /\ n \in Int
    BY <1>2, <1>3, LenProperties
  <1>5. PICK x0, x1, x2, x3, x4, x5, x6, x7 :
            /\ x0 = aktive_write_here(w, magic) /\ x1 = aktive_write_here(x0, VERSION)
            /\ x2 = PutNumber(mode, x1, p) /\ x3 = PutNumber(mode, x2, q)
            /\ x4 = PutNumber(mode, x3, a) /\ x5 = PutNumber(mode, x4, b)
            /\ x6 = PutNumber(mode, x5, c) /\ x7 = PutNumber(mode, x6, n)
    OBVIOUS
  <1>6. PICK x8 : x8 = IF meta = << >> THEN x7 ELSE aktive_write_here(x7, meta)
    OBVIOUS
  <1>7. HeaderBy(mode, w, magic, pic) = aktive_write_here(x8, MAGIC2)
    BY <1>1, <1>3, <1>5, <1>6 DEF HeaderBy
  <1>8. VERSION # << >> /\ MAGIC2 # << >>
    BY MagicsFull
  <1>9. Wrote(w, x0, 0, m)
    <2>1. Wrote(w, x0, w.pos, w.pos + m)
      BY <1>3, <1>5, HereWrites
    <2> QED  BY <1>4, <2>1
  <1>10. Wrote(w, x1, 0, m + 2)
    BY <1>5, <1>8, <1>9, BytesWrite, MagicsAre
  <1>11. Wrote(w, x2, 0, m + 2 + 4)
    BY <1>2, <1>5, <1>10, NumberWrites
  <1>12. Wrote(w, x3, 0, m + 2 + 4 + 4)
    BY <1>2, <1>5, <1>11, NumberWrites
  <1>13. Wrote(w, x4, 0, m + 2 + 4 + 4 + 4)
    BY <1>2, <1>5, <1>12, NumberWrites
  <1>14. Wrote(w, x5, 0, m + 2 + 4 + 4 + 4 + 4)
    BY <1>2, <1>5, <1>13, NumberWrites
  <1>15. Wrote(w, x6, 0, m + 2 + 4 + 4 + 4 + 4 + 4)
    BY <1>2, <1>5, <1>14, NumberWrites
  <1>16. Wrote(w, x7, 0, m + 2 + 4 + 4 + 4 + 4 + 4 + 4)
    BY <1>4, <1>5, <1>15, NumberWrites
  <1>17. PICK e : e = m + 2 + 4 + 4 + 4 + 4 + 4 + 4
    OBVIOUS
  <1>18. Wrote(w, x8, 0, e + n)
    <2>1. CASE meta = << >>
      <3>1. n = 0
        BY <1>3, <2>1
      <3>2. e + n = e
        BY <1>4, <1>17, <3>1
      <3> QED  BY <1>6, <1>16, <1>17, <2>1, <3>2
    <2>2. CASE meta # << >>
      BY <1>2, <1>3, <1>6, <1>16, <1>17, <2>2, BytesWrite
    <2> QED  BY <2>1, <2>2
  <1>19. Wrote(w, aktive_write_here(x8, MAGIC2), 0, (e + n) + 8)
    BY <1>8, <1>18, BytesWrite, MagicsAre
  <1>20. StartOf(magic, pic) = (e + n) + 8
    BY <1>1, <1>3, <1>4, <1>17, MagicsAre DEF StartOf, UINT
  <1> QED  BY <1>4, <1>7, <1>17, <1>19, <1>20

(* The sink after the header. *)
LEMMA StartedIs ==
    ASSUME NEW mode \in {"be", "le"}, NEW i \in AktiveInfo, Sound(i.writer), i.writer.pos = 0, NEW pic,
           pic.x \in Int, pic.y \in Int, pic.width \in Nat, pic.height \in Nat, pic.depth \in Nat,
           pic.meta \in Seq(Byte), NEW j,
           j = IF mode = "be" THEN aktive_be_header(i, pic) ELSE aktive_le_header(i, pic)
    PROVE  /\ j \in AktiveInfo /\ j.start \in Nat
           /\ Wrote(i.writer, j.writer, 0, j.start)
           /\ j.x = pic.x /\ j.y = pic.y
           /\ j.rowsize = pic.width * pic.depth * 8
           /\ j.size = pic.width * pic.height * pic.depth /\ j.written = 0
  <1>1. PICK magic : magic = IF mode = "be" THEN MAGICBE ELSE MAGICLE
    OBVIOUS
  <1>2. magic \in Seq(Byte) /\ magic # << >>
    BY <1>1, MagicsAre, MagicsFull
  <1>3. PICK w, start : w = HeaderBy(mode, i.writer, magic, pic) /\ start = StartOf(magic, pic)
    OBVIOUS
  <1>4. start \in Nat /\ Wrote(i.writer, w, 0, start)
    BY <1>2, <1>3, HeaderWrites
  <1>5. PICK size, pix, row : /\ size = pic.width * pic.height * pic.depth
                              /\ pix = pic.depth * 8 /\ row = pic.width * pic.depth * 8
    OBVIOUS
  <1>6. size \in Int /\ pix \in Int /\ row \in Int
    <2>1. PICK p, q, r : p = pic.width /\ q = pic.height /\ r = pic.depth
      OBVIOUS
    <2>2. p * q * r \in Int /\ r * 8 \in Int /\ p * r * 8 \in Int
      BY <2>1
    <2> QED  BY <1>5, <2>1, <2>2
  <1>7. j = InfoStarted(i, w, pic.x, pic.y, size, 0, start, pix, row)
    <2>1. ASSUME NEW x, NEW v
          PROVE  /\ PutNumber("be", x, v) = aktive_write_here_int32be(x, v)
                 /\ PutNumber("be", x, v) = aktive_write_here_uint32be(x, v)
                 /\ PutNumber("le", x, v) = aktive_write_here_int32le(x, v)
                 /\ PutNumber("le", x, v) = aktive_write_here_uint32le(x, v)
      BY DEF PutNumber, aktive_write_here_int32be, aktive_write_here_uint32be, aktive_write_here_int32le,
             aktive_write_here_uint32le
    <2>2. CASE mode = "be"
      <3>1. j = Started(i, HeaderBy("be", i.writer, MAGICBE, pic), MAGICBE, pic)
        BY <2>1, <2>2 DEF aktive_be_header, HeaderText, HeaderBy
      <3> QED  BY <1>1, <1>3, <1>5, <2>2, <3>1 DEF Started, StartOf, InfoStarted, DOUBLE
    <2>3. CASE mode = "le"
      <3>1. j = Started(i, HeaderBy("le", i.writer, MAGICLE, pic), MAGICLE, pic)
        BY <2>1, <2>3 DEF aktive_le_header, HeaderText, HeaderBy
      <3> QED  BY <1>1, <1>3, <1>5, <2>3, <3>1 DEF Started, StartOf, InfoStarted, DOUBLE
    <2> QED  BY <2>2, <2>3
  <1>8. /\ j \in AktiveInfo /\ j.writer = w /\ j.x = pic.x /\ j.y = pic.y
        /\ j.start = start /\ j.rowsize = row /\ j.size = size /\ j.written = 0
    <2>1. w \in WriterSet /\ start \in Int /\ 0 \in Int
      BY <1>4 DEF Wrote, Sound
    <2>2. PICK p, q, n : p = pic.x /\ q = pic.y /\ n = 0
      OBVIOUS
    <2>3. p \in Int /\ q \in Int /\ n \in Int /\ j = InfoStarted(i, w, p, q, size, n, start, pix, row)
      BY <1>7, <2>2
    <2>4. /\ j \in AktiveInfo /\ j.writer = w /\ j.x = p /\ j.y = q
          /\ j.start = start /\ j.rowsize = row /\ j.size = size /\ j.written = n
      BY <1>6, <2>1, <2>3, InfoStartedIs
    <2> QED  BY <2>2, <2>4
  <1> QED  BY <1>4, <1>5, <1>8

(* A block of one row is put from its place on. *)
RowBE(i, block, w, r) ==
    LET values == block.width * block.depth
        put[c \in 0 .. values] ==
            IF c = 0 THEN aktive_write_goto(w, RowOffset(i, block.location, r))
            ELSE aktive_write_here_float64be(put[c - 1], block.pixel[r * values + c])
    IN  put[values]

(* The same in the other byte order. *)
RowLE(i, block, w, r) ==
    LET values == block.width * block.depth
        put[c \in 0 .. values] ==
            IF c = 0 THEN aktive_write_goto(w, RowOffset(i, block.location, r))
            ELSE aktive_write_here_float64le(put[c - 1], block.pixel[r * values + c])
    IN  put[values]

(* The state of the sink after each row of a block. *)
IsRowsBE(f, i, block) ==
    f = [r \in 0 .. block.height |-> IF r = 0 THEN i.writer ELSE RowBE(i, block, f[r - 1], r - 1)]

(* The same in the other byte order. *)
IsRowsLE(f, i, block) ==
    f = [r \in 0 .. block.height |-> IF r = 0 THEN i.writer ELSE RowLE(i, block, f[r - 1], r - 1)]

(* A block of one row has two of them: before it and after it. *)
LEMMA RowsAre ==
    ASSUME NEW i, NEW block, block.height = 1
    PROVE  /\ \E f : IsRowsBE(f, i, block) /\ \E g : IsRowsLE(g, i, block)
           /\ \A f : IsRowsBE(f, i, block) => f[1] = RowBE(i, block, i.writer, 0)
           /\ \A f : IsRowsLE(f, i, block) => f[1] = RowLE(i, block, i.writer, 0)
  <1>1. \A r \in 0 .. 1 : r = 0 \/ (r = 1 /\ r - 1 = 0)
    OBVIOUS
  <1>2. PICK f, g : /\ f = [r \in 0 .. 1 |-> IF r = 0 THEN i.writer ELSE RowBE(i, block, i.writer, 0)]
                    /\ g = [r \in 0 .. 1 |-> IF r = 0 THEN i.writer ELSE RowLE(i, block, i.writer, 0)]
    OBVIOUS
  <1>3. f[0] = i.writer /\ g[0] = i.writer
    BY <1>2
  <1>4. IsRowsBE(f, i, block) /\ IsRowsLE(g, i, block)
    BY <1>1, <1>2, <1>3 DEF IsRowsBE, IsRowsLE
  <1>5. ASSUME NEW h, IsRowsBE(h, i, block) PROVE h[1] = RowBE(i, block, i.writer, 0)
    <2>1. h = [r \in 0 .. 1 |-> IF r = 0 THEN i.writer ELSE RowBE(i, block, h[r - 1], r - 1)]
      BY <1>5 DEF IsRowsBE
    <2>2. 0 \in 0 .. 1 /\ 1 \in 0 .. 1 /\ 1 - 1 = 0 /\ 1 # 0
      OBVIOUS
    <2>3. h[0] = i.writer /\ h[1] = RowBE(i, block, h[1 - 1], 1 - 1)
      BY <2>1, <2>2
    <2> QED  BY <2>2, <2>3
  <1>6. ASSUME NEW h, IsRowsLE(h, i, block) PROVE h[1] = RowLE(i, block, i.writer, 0)
    <2>1. h = [r \in 0 .. 1 |-> IF r = 0 THEN i.writer ELSE RowLE(i, block, h[r - 1], r - 1)]
      BY <1>6 DEF IsRowsLE
    <2>2. 0 \in 0 .. 1 /\ 1 \in 0 .. 1 /\ 1 - 1 = 0 /\ 1 # 0
      OBVIOUS
    <2>3. h[0] = i.writer /\ h[1] = RowLE(i, block, h[1 - 1], 1 - 1)
      BY <2>1, <2>2
    <2> QED  BY <2>2, <2>3
  <1> QED  BY <1>4, <1>5, <1>6

(* A block of one row is put as that row. *)
LEMMA PixelsAre ==
    ASSUME NEW i, NEW block, block.height = 1
    PROVE  /\ aktive_be_pixels(i, block)
                = [i EXCEPT !.writer = RowBE(i, block, i.writer, 0),
                            !.written = i.written + block.height * (block.width * block.depth)]
           /\ aktive_le_pixels(i, block)
                = [i EXCEPT !.writer = RowLE(i, block, i.writer, 0),
                            !.written = i.written + block.height * (block.width * block.depth)]
  <1>1. PICK f, g : f = (CHOOSE h : IsRowsBE(h, i, block)) /\ g = (CHOOSE h : IsRowsLE(h, i, block))
    OBVIOUS
  <1>2. IsRowsBE(f, i, block) /\ IsRowsLE(g, i, block)
    BY <1>1, RowsAre
  <1>3. f[1] = RowBE(i, block, i.writer, 0) /\ g[1] = RowLE(i, block, i.writer, 0)
    BY <1>2, RowsAre
  <1>4. aktive_be_pixels(i, block)
            = [i EXCEPT !.writer = f[block.height],
                        !.written = i.written + block.height * (block.width * block.depth)]
    BY <1>1 DEF aktive_be_pixels, PutRows, IsRowsBE, RowBE
  <1>5. aktive_le_pixels(i, block)
            = [i EXCEPT !.writer = g[block.height],
                        !.written = i.written + block.height * (block.width * block.depth)]
    BY <1>1 DEF aktive_le_pixels, PutRows, IsRowsLE, RowLE
  <1> QED  BY <1>3, <1>4, <1>5

(* The state of the writer after each value of a row. *)
IsPutBE(f, i, block, w, r) ==
    f = [c \in 0 .. block.width * block.depth |->
            IF c = 0 THEN aktive_write_goto(w, RowOffset(i, block.location, r))
            ELSE aktive_write_here_float64be(f[c - 1], block.pixel[r * (block.width * block.depth) + c])]

(* The same in the other byte order. *)
IsPutLE(f, i, block, w, r) ==
    f = [c \in 0 .. block.width * block.depth |->
            IF c = 0 THEN aktive_write_goto(w, RowOffset(i, block.location, r))
            ELSE aktive_write_here_float64le(f[c - 1], block.pixel[r * (block.width * block.depth) + c])]

(* A row is its values put one after the other. *)
LEMMA RowIs ==
    ASSUME NEW i, NEW block, NEW w, Sound(w), NEW n \in Nat, n = block.width * block.depth,
           \A c \in 1 .. n : block.pixel[c] \in Int,
           NEW off \in Nat, off = RowOffset(i, block.location, 0)
    PROVE  /\ Wrote(w, RowBE(i, block, w, 0), off, off + 8 * n)
           /\ Wrote(w, RowLE(i, block, w, 0), off, off + 8 * n)
  <1>1. PICK x, v : x = aktive_write_goto(w, off) /\ v = block.pixel
    OBVIOUS
  <1>2. Wrote(w, x, off, off) /\ Sound(x) /\ x.pos = off
    <2>1. Wrote(w, x, off, off)
      BY <1>1, GotoWrites
    <2> QED  BY <2>1 DEF Wrote
  <1>3. \A c \in 0 .. n : 0 * n + c = c
    OBVIOUS
  <1>4. ASSUME NEW f
        PROVE  /\ IsPuts(f, "be", x, v, n) <=> IsPutBE(f, i, block, w, 0)
               /\ IsPuts(f, "le", x, v, n) <=> IsPutLE(f, i, block, w, 0)
    <2>1. ASSUME NEW s, NEW c
          PROVE  /\ PutBy("be", s, c) = aktive_write_here_float64be(s, c)
                 /\ PutBy("le", s, c) = aktive_write_here_float64le(s, c)
      BY DEF PutBy
    <2>2. IsPutBE(f, i, block, w, 0)
            <=> f = [c \in 0 .. n |-> IF c = 0 THEN x ELSE aktive_write_here_float64be(f[c - 1], v[c])]
      BY <1>1, <1>3 DEF IsPutBE
    <2>3. IsPutLE(f, i, block, w, 0)
            <=> f = [c \in 0 .. n |-> IF c = 0 THEN x ELSE aktive_write_here_float64le(f[c - 1], v[c])]
      BY <1>1, <1>3 DEF IsPutLE
    <2>4. IsPuts(f, "be", x, v, n)
            <=> f = [c \in 0 .. n |-> IF c = 0 THEN x ELSE aktive_write_here_float64be(f[c - 1], v[c])]
      BY <2>1 DEF IsPuts
    <2>5. IsPuts(f, "le", x, v, n)
            <=> f = [c \in 0 .. n |-> IF c = 0 THEN x ELSE aktive_write_here_float64le(f[c - 1], v[c])]
      BY <2>1 DEF IsPuts
    <2> QED  BY <2>2, <2>3, <2>4, <2>5, Zenon
  <1>5. PICK f, g : /\ f = (CHOOSE h : IsPutBE(h, i, block, w, 0))
                    /\ g = (CHOOSE h : IsPutLE(h, i, block, w, 0))
    OBVIOUS
  <1>6. IsPutBE(f, i, block, w, 0) /\ IsPutLE(g, i, block, w, 0)
    <2>1. (\E h : IsPuts(h, "be", x, v, n)) /\ (\E h : IsPuts(h, "le", x, v, n))
      BY PutsExist
    <2>2. (\E h : IsPutBE(h, i, block, w, 0)) /\ (\E h : IsPutLE(h, i, block, w, 0))
      BY <1>4, <2>1
    <2> QED  BY <1>5, <2>2
  <1>7. IsPuts(f, "be", x, v, n) /\ IsPuts(g, "le", x, v, n)
    BY <1>4, <1>6
  <1>8. "be" \in {"be", "le"} /\ "le" \in {"be", "le"} /\ \A c \in 1 .. n : v[c] \in Int
    BY <1>1
  <1>9. Wrote(x, f[n], x.pos, x.pos + 8 * n) /\ Wrote(x, g[n], x.pos, x.pos + 8 * n)
    BY <1>2, <1>7, <1>8, PutsWrite
  <1>10. Wrote(w, f[n], off, off + 8 * n) /\ Wrote(w, g[n], off, off + 8 * n)
    BY <1>2, <1>9, WroteOn
  <1>11. RowBE(i, block, w, 0) = f[n]
    BY <1>5 DEF RowBE, IsPutBE
  <1>12. RowLE(i, block, w, 0) = g[n]
    BY <1>5 DEF RowLE, IsPutLE
  <1> QED  BY <1>10, <1>11, <1>12

(* The parts of a sink of AKTIVE that a row changes. *)
InfoPut(i, w, n) == [i EXCEPT !.writer = w, !.written = n]

(* The sink stays one. *)
LEMMA InfoPutIs ==
    ASSUME NEW i \in AktiveInfo, NEW w \in WriterSet, NEW n \in Int
    PROVE  /\ InfoPut(i, w, n) \in AktiveInfo /\ InfoPut(i, w, n).writer = w
           /\ InfoPut(i, w, n).start = i.start /\ InfoPut(i, w, n).rowsize = i.rowsize
           /\ InfoPut(i, w, n).x = i.x /\ InfoPut(i, w, n).y = i.y
  BY DEF AktiveInfo, InfoPut

(* A row of n bytes put off bytes behind the start of the pixels. *)
RowPut(i, j, off, n) ==
    /\ j \in AktiveInfo /\ j.start = i.start /\ j.rowsize = i.rowsize /\ j.x = i.x /\ j.y = i.y
    /\ Wrote(i.writer, j.writer, off, off + 8 * n)

(* A row given to a sink of AKTIVE is put there. *)
LEMMA RowPuts ==
    ASSUME NEW mode \in {"be", "le"}, NEW i \in AktiveInfo, Sound(i.writer), NEW block, block.height = 1,
           NEW n \in Nat, n = block.width * block.depth, \A c \in 1 .. n : block.pixel[c] \in Int,
           NEW off \in Nat, off = RowOffset(i, block.location, 0), NEW j,
           j = IF mode = "be" THEN aktive_be_pixels(i, block) ELSE aktive_le_pixels(i, block)
    PROVE  RowPut(i, j, off, n)
  <1>1. PICK w, x : /\ w = i.writer
                    /\ x = IF mode = "be" THEN RowBE(i, block, w, 0) ELSE RowLE(i, block, w, 0)
    OBVIOUS
  <1>2. Wrote(w, x, off, off + 8 * n)
    BY <1>1, RowIs
  <1>3. PICK m : m = i.written + block.height * (block.width * block.depth)
    OBVIOUS
  <1>4. j = InfoPut(i, x, m)
    BY <1>1, <1>3, PixelsAre DEF InfoPut
  <1>5. x \in WriterSet /\ m \in Int
    <2>1. i.written \in Int
      BY DEF AktiveInfo
    <2>2. m = i.written + 1 * n
      BY <1>3
    <2> QED  BY <1>2, <2>1, <2>2 DEF Wrote, Sound
  <1>6. /\ j \in AktiveInfo /\ j.writer = x /\ j.start = i.start /\ j.rowsize = i.rowsize
        /\ j.x = i.x /\ j.y = i.y
    BY <1>4, <1>5, InfoPutIs
  <1> QED  BY <1>1, <1>2, <1>6 DEF RowPut

(* The parts of a picture are numbers. *)
LEMMA PictureIs ==
    ASSUME NEW p \in Pictures
    PROVE  /\ p.x \in Int /\ p.y \in Int
           /\ p.width \in Nat /\ p.height \in Nat /\ p.depth \in Nat
           /\ p.meta \in Seq(Byte) /\ p.pixel \in Seq(Int)
           /\ Len(p.pixel) = p.height * (p.width * p.depth)
           /\ p.width * p.depth \in Nat
  <1>1. /\ p.x \in Int /\ p.y \in Int
        /\ p.width \in Nat /\ p.height \in Nat /\ p.depth \in Nat
        /\ p.meta \in Seq(Byte) /\ p.pixel \in Seq(Int)
        /\ Len(p.pixel) = p.height * (p.width * p.depth)
    BY PicturesAssumption, Zenon DEF Byte
  <1>2. PICK w, d : w = p.width /\ d = p.depth
    OBVIOUS
  <1>3. w * d \in Nat
    BY <1>1, <1>2
  <1> QED  BY <1>1, <1>2, <1>3

(* Rows come one behind the other. *)
LEMMA RowsApart ==
    ASSUME NEW n \in Nat, NEW j \in Nat, NEW k \in Nat, j < k
    PROVE  j * n \in Nat /\ (j + 1) * n \in Nat /\ k * n \in Nat /\ (j + 1) * n <= k * n
           /\ (j + 1) * n = j * n + n
  <1>1. PICK d : d = k - (j + 1)
    OBVIOUS
  <1>2. d \in Nat /\ k = (j + 1) + d
    BY <1>1
  <1>3. d * n \in Nat /\ j * n \in Nat
    BY <1>2
  <1>4. ((j + 1) + d) * n = (j + 1) * n + d * n /\ (j + 1) * n = j * n + n
    BY <1>2
  <1> QED  BY <1>2, <1>3, <1>4

(* And leave nothing between them. *)
LEMMA RowFound ==
    ASSUME NEW n \in Nat, NEW h \in Nat, NEW s \in Nat, NEW b \in s + 1 .. s + h * n
    PROVE  \E k \in 0 .. h - 1 : b \in s + k * n + 1 .. s + (k + 1) * n
  <1> DEFINE E == {m \in Nat : \A c \in s + 1 .. s + m * n :
                                   \E k \in 0 .. m - 1 : c \in s + k * n + 1 .. s + (k + 1) * n}
  <1>1. 0 \in E
    <2>1. s + 0 * n = s
      OBVIOUS
    <2> QED  BY <2>1
  <1>2. ASSUME NEW m \in Nat, m \in E PROVE m + 1 \in E
    <2> SUFFICES ASSUME NEW c \in s + 1 .. s + (m + 1) * n
                 PROVE  \E k \in 0 .. (m + 1) - 1 : c \in s + k * n + 1 .. s + (k + 1) * n
      OBVIOUS
    <2>1. m * n \in Nat /\ (m + 1) * n \in Nat
      OBVIOUS
    <2>2. CASE c <= s + m * n
      <3>1. c \in s + 1 .. s + m * n
        BY <2>1, <2>2
      <3>2. PICK k \in 0 .. m - 1 : c \in s + k * n + 1 .. s + (k + 1) * n
        BY <1>2, <3>1
      <3>3. k \in 0 .. (m + 1) - 1
        OBVIOUS
      <3> QED  BY <3>2, <3>3
    <2>3. CASE ~ (c <= s + m * n)
      <3>1. c \in s + m * n + 1 .. s + (m + 1) * n
        BY <2>1, <2>3
      <3>2. m \in 0 .. (m + 1) - 1
        OBVIOUS
      <3> QED  BY <3>1, <3>2
    <2> QED  BY <2>2, <2>3
  <1>3. \A m \in Nat : m \in E
    <2> HIDE DEF E
    <2> QED  BY <1>1, <1>2, SetInduction
  <1>4. h \in E
    BY <1>3
  <1> QED  BY <1>4

(* The model multiplies from the left. *)
LEMMA InOrder == ASSUME NEW a \in Int, NEW b \in Int, NEW c \in Int PROVE a * b * c = a * (b * c)
  OBVIOUS

(* The values of a row are as many as it has. *)
LEMMA RowValuesAre ==
    ASSUME NEW p \in Pictures, NEW k \in Rows(p), NEW n, n = p.width * p.depth
    PROVE  /\ n \in Nat /\ Len(RowValues(p, k)) = n
           /\ \A c \in 1 .. n : RowValues(p, k)[c] \in Int
  <1>1. PICK w, d, h, s : w = p.width /\ d = p.depth /\ h = p.height /\ s = p.pixel
    OBVIOUS
  <1>2. w \in Nat /\ d \in Nat /\ h \in Nat /\ s \in Seq(Int) /\ n = w * d /\ n \in Nat /\ Len(s) = h * n
    BY <1>1, PictureIs
  <1>3. k \in Nat /\ k < h
    BY <1>1, <1>2 DEF Rows
  <1>4. PICK lo, hi, all : lo = k * n /\ hi = (k + 1) * n /\ all = h * n
    OBVIOUS
  <1>5. lo \in Nat /\ hi \in Nat /\ all \in Nat /\ hi <= all /\ hi = lo + n /\ Len(s) = all
    BY <1>2, <1>3, <1>4, RowsApart
  <1>6. k * w * d = lo /\ (k + 1) * w * d = hi
    <2>1. PICK m : m = k + 1
      OBVIOUS
    <2>2. k * w * d = k * (w * d) /\ m * w * d = m * (w * d)
      BY <1>2, <1>3, <2>1, InOrder
    <2> QED  BY <1>2, <1>4, <2>1, <2>2
  <1>7. PICK a, b, r : a = lo + 1 /\ b = hi /\ r = SubSeq(s, a, b)
    OBVIOUS
  <1>8. RowValues(p, k) = r
    BY <1>1, <1>6, <1>7 DEF RowValues
  <1>9. a \in Int /\ b \in Int /\ b - a + 1 = n /\ a \in Nat /\ a >= 1
    BY <1>2, <1>5, <1>7
  <1>10. \A i \in a .. b : s[i] \in Int
    <2> TAKE i \in a .. b
    <2>1. i \in 1 .. Len(s)
      BY <1>5, <1>7, <1>9
    <2> QED  BY <1>2, <2>1, LenProperties
  <1>11. /\ Len(r) = IF a <= b THEN b - a + 1 ELSE 0
         /\ \A i \in 1 .. b - a + 1 : r[i] = s[a + i - 1]
    BY <1>7, <1>9, <1>10, SubSeqProperties
  <1>12. Len(r) = n
    BY <1>2, <1>9, <1>11
  <1>13. \A c \in 1 .. n : r[c] \in Int
    <2> TAKE c \in 1 .. n
    <2>1. a + c - 1 \in a .. b /\ c \in 1 .. b - a + 1
      BY <1>2, <1>9
    <2> QED  BY <1>10, <1>11, <2>1
  <1> QED  BY <1>2, <1>8, <1>12, <1>13

(* A sink of netpbm is behind all bytes it has written. *)
Full(w) == /\ Sound(w) /\ w.pos = w.used
           /\ \A i \in 1 .. w.used : w.bytes[i] \in Byte

(* One of AKTIVE has written its header, and the rows it was given. *)
RowsLie ==
    /\ info \in AktiveInfo /\ Sound(info.writer) /\ info.start \in Nat
    /\ info.x = picture.x /\ info.y = picture.y
    /\ info.rowsize = picture.width * picture.depth * 8
    /\ info.start <= info.writer.used
    /\ info.writer.used <= info.start + picture.height * info.rowsize
    /\ \A i \in 1 .. info.start : info.writer.bytes[i] \in Byte
    /\ \A k \in Rows(picture) \ todo : \A i \in RowBytes(k) :
           i \in 1 .. info.writer.used /\ info.writer.bytes[i] \in Byte

(* The state of a sink while it is written. *)
FileInv ==
    /\ picture \in Pictures
    /\ todo \subseteq Rows(picture)
    /\ phase = "setup" => todo = Rows(picture)
    /\ InNetpbm /\ phase \in {"setup", "pixels"} => info \in NetpbmInfo /\ Full(info.writer)
    /\ ~ InNetpbm /\ phase = "setup" => info \in AktiveInfo /\ Full(info.writer) /\ info.writer.used = 0
    /\ ~ InNetpbm /\ phase = "pixels" => RowsLie

(* Writers start with nothing. *)
LEMMA StartFull == aktive_write_channel \in WriterSet /\ aktive_write_bytearray \in WriterSet
                   /\ Full(aktive_write_channel) /\ Full(aktive_write_bytearray)
                   /\ aktive_write_channel.used = 0 /\ aktive_write_bytearray.used = 0
  <1>1. << >> \in Seq(Int) /\ Len(<< >>) = 0
    OBVIOUS
  <1>2. aktive_write_channel \in WriterSet /\ aktive_write_bytearray \in WriterSet
    BY <1>1 DEF aktive_write_channel, aktive_write_bytearray, WriterSet
  <1>3. Sound(aktive_write_channel) /\ Sound(aktive_write_bytearray)
    BY <1>1, <1>2 DEF Sound, aktive_write_channel, aktive_write_bytearray
  <1>4. /\ aktive_write_channel.pos = 0 /\ aktive_write_bytearray.pos = 0
        /\ aktive_write_channel.used = 0 /\ aktive_write_bytearray.used = 0
    BY DEF aktive_write_channel, aktive_write_bytearray
  <1> QED  BY <1>2, <1>3, <1>4 DEF Full

(* The sink starts so. *)
LEMMA FileInit == InitFile => FileInv
  <1> SUFFICES ASSUME InitFile PROVE FileInv
    OBVIOUS
  <1>1. PICK w \in Writers : info = SinkInfo(format, w)
    BY DEF InitFile
  <1>2. w \in WriterSet /\ Full(w) /\ w.used = 0
    BY <1>1, StartFull DEF Writers
  <1>3. picture \in Pictures /\ todo = Rows(picture) /\ phase = "setup"
    BY DEF InitFile
  <1>4. ASSUME InNetpbm PROVE info \in NetpbmInfo /\ info.writer = w
    <2>1. format \in NetpbmFormats
      BY <1>4 DEF InitFile, InNetpbm, AktiveFormats
    <2>2. format.variant \in NP!Variants /\ format.maxvalue \in Int
      <3>1. format.variant \in NP!Variants /\ format.maxvalue \in MaxValues
        BY <2>1 DEF NetpbmFormats
      <3>2. MaxValues \subseteq Nat
        BY PicturesAssumption, Zenon
      <3>3. PICK m : m = format.maxvalue
        OBVIOUS
      <3>4. m \in Nat
        BY <3>1, <3>2, <3>3, Zenon
      <3>5. m \in Int
        BY <3>4
      <3> QED  BY <3>1, <3>3, <3>5
    <2>3. info = [writer |-> w, variant |-> format.variant, maxvalue |-> format.maxvalue,
                  size |-> 0, written |-> 0, col |-> 0]
      BY <1>1, <1>4 DEF SinkInfo, InNetpbm, NP!aktive_netpbm_sink
    <2> QED  BY <1>2, <2>2, <2>3 DEF NetpbmInfo
  <1>5. ASSUME ~ InNetpbm PROVE info \in AktiveInfo /\ info.writer = w
    <2>1. info = [writer |-> w, x |-> 0, y |-> 0, size |-> 0, written |-> 0,
                  start |-> 0, rowsize |-> 0, pixsize |-> 0]
      BY <1>1, <1>5 DEF SinkInfo, InNetpbm, aktive_aktive_sink
    <2> QED  BY <1>2, <2>1 DEF AktiveInfo
  <1> QED  BY <1>2, <1>3, <1>4, <1>5 DEF FileInv

(* What is written behind all else leaves a writer behind all it wrote. *)
LEMMA MovedFull ==
    ASSUME NEW i, NEW j, Full(i.writer), Moved(i, j)
    PROVE  Full(j.writer) /\ \A n \in 1 .. i.writer.used : j.writer.bytes[n] = i.writer.bytes[n]
  <1>1. PICK b \in Nat : Wrote(i.writer, j.writer, i.writer.pos, b)
    BY DEF Moved
  <1>2. PICK w, x, a : w = i.writer /\ x = j.writer /\ a = i.writer.pos
    OBVIOUS
  <1>3. Full(w) /\ Wrote(w, x, a, b) /\ a = w.pos /\ w.used = a
    BY <1>1, <1>2 DEF Full
  <1>4. w.used \in Nat /\ x.used \in Nat /\ a \in Nat /\ a <= b /\ x.pos = b /\ Sound(x)
    BY <1>3 DEF Full, Wrote, Sound, WriterSet
  <1>5. \A n \in 1 .. w.used : x.bytes[n] = w.bytes[n]
    BY <1>3, <1>4 DEF Wrote
  <1>6. x.used = b
    <2>1. x.used <= b /\ a <= x.used
      BY <1>3, <1>4 DEF Wrote
    <2>2. CASE a = b
      BY <1>4, <2>1, <2>2
    <2>3. CASE a # b
      <3>1. b \in a + 1 .. b
        BY <1>4, <2>3
      <3>2. b <= x.used
        BY <1>3, <3>1 DEF Wrote
      <3> QED  BY <1>4, <2>1, <3>2
    <2> QED  BY <2>2, <2>3
  <1>7. \A n \in 1 .. x.used : x.bytes[n] \in Byte
    <2> TAKE n \in 1 .. x.used
    <2>1. CASE n <= a
      <3>1. n \in 1 .. w.used
        BY <1>3, <1>4, <2>1
      <3> QED  BY <1>3, <1>5, <3>1 DEF Full
    <2>2. CASE ~ (n <= a)
      <3>1. n \in a + 1 .. b
        BY <1>4, <1>6, <2>2
      <3> QED  BY <1>3, <3>1 DEF Wrote
    <2> QED  BY <2>1, <2>2
  <1> QED  BY <1>2, <1>4, <1>5, <1>6, <1>7 DEF Full

(* The header keeps it. *)
LEMMA SetupSinkStep == FileInv /\ SetupSink => FileInv' /\ BytesStay
  <1> SUFFICES ASSUME FileInv, SetupSink PROVE FileInv' /\ BytesStay
    OBVIOUS
  <1>1. /\ phase = "setup" /\ phase' = "pixels" /\ picture' = picture /\ format' = format /\ todo' = todo
        /\ picture \in Pictures /\ todo = Rows(picture)
    BY DEF SetupSink, FileInv
  <1>2. InNetpbm' = InNetpbm /\ Rows(picture)' = Rows(picture)
    BY <1>1 DEF InNetpbm, Rows
  <1>3. CASE InNetpbm
    <2>1. info \in NetpbmInfo /\ Full(info.writer) /\ Sound(info.writer)
      BY <1>1, <1>3 DEF FileInv, Full
    <2>2. info' = NP!netpbm_header(info, picture)
      BY <1>3 DEF SetupSink, BE, LE
    <2>3. Moved(info, info')
      BY <1>1, <2>1, <2>2, HeaderMoves, PictureIs
    <2>4. info' \in NetpbmInfo /\ Full(info'.writer)
          /\ \A n \in 1 .. info.writer.used : info'.writer.bytes[n] = info.writer.bytes[n]
      BY <2>1, <2>3, MovedFull DEF Moved
    <2>5. BytesStay
      BY <1>1, <1>3, <2>4 DEF BytesStay, Written
    <2> QED  BY <1>1, <1>2, <1>3, <2>4, <2>5 DEF FileInv
  <1>4. CASE ~ InNetpbm
    <2>1. /\ info \in AktiveInfo /\ Full(info.writer) /\ Sound(info.writer)
          /\ info.writer.used = 0 /\ info.writer.pos = 0
      BY <1>1, <1>4 DEF FileInv, Full
    <2>2. PICK mode \in {"be", "le"} :
              info' = IF mode = "be" THEN aktive_be_header(info, picture) ELSE aktive_le_header(info, picture)
      BY <1>4 DEF SetupSink
    <2>3. /\ info' \in AktiveInfo /\ info'.start \in Nat
          /\ Wrote(info.writer, info'.writer, 0, info'.start)
          /\ info'.x = picture.x /\ info'.y = picture.y
          /\ info'.rowsize = picture.width * picture.depth * 8
      BY <1>1, <2>1, <2>2, StartedIs, PictureIs
    <2>4. PICK w, x, s : w = info.writer /\ x = info'.writer /\ s = info'.start
      OBVIOUS
    <2>5. Wrote(w, x, 0, s) /\ s \in Nat /\ w.used = 0 /\ Sound(x) /\ x.used \in Nat
      BY <2>1, <2>3, <2>4 DEF Wrote, Sound, WriterSet
    <2>6. \A i \in 1 .. s : i <= x.used /\ x.bytes[i] \in Byte
      <3>1. 0 + 1 = 1
        OBVIOUS
      <3> QED  BY <2>5, <3>1 DEF Wrote
    <2>7. s <= x.used /\ x.used <= s
      <3>1. x.used <= s
        BY <2>5 DEF Wrote
      <3>2. CASE s = 0
        BY <2>5, <3>1, <3>2
      <3>3. CASE s # 0
        <4>1. s \in 1 .. s
          BY <2>5, <3>3
        <4> QED  BY <2>6, <3>1, <4>1
      <3> QED  BY <3>1, <3>2, <3>3
    <2>8. x.used <= s + picture.height * info'.rowsize
      <3>1. PICK h, n, r : h = picture.height /\ n = picture.width * picture.depth /\ r = info'.rowsize
        OBVIOUS
      <3>2. h \in Nat /\ n \in Nat /\ r = n * 8
        BY <1>1, <2>3, <3>1, PictureIs
      <3>3. r \in Nat
        BY <3>2
      <3>4. h * r \in Nat
        BY <3>2, <3>3
      <3> QED  BY <2>5, <2>7, <3>1, <3>4
    <2>9. RowsLie'
      <3>1. Rows(picture)' \ todo' = {}
        BY <1>1, <1>2
      <3>2. /\ info'.start <= info'.writer.used
            /\ info'.writer.used <= info'.start + picture'.height * info'.rowsize
            /\ \A i \in 1 .. info'.start : info'.writer.bytes[i] \in Byte
        BY <1>1, <2>4, <2>6, <2>7, <2>8
      <3> QED  BY <1>1, <2>3, <2>4, <2>5, <3>1, <3>2 DEF RowsLie
    <2>10. BytesStay
      BY <1>1, <1>4 DEF BytesStay, Written
    <2> QED  BY <1>1, <1>2, <1>4, <2>9, <2>10 DEF FileInv
  <1> QED  BY <1>3, <1>4

(* A row given to a sink of netpbm keeps it. *)
LEMMA NetpbmRowStep ==
    ASSUME FileInv, NEW k \in todo, ProcessRow(k), InNetpbm
    PROVE  FileInv' /\ BytesStay
  <1>1. /\ phase = "pixels" /\ phase' = "pixels" /\ picture' = picture /\ format' = format
        /\ todo' = todo \ {k} /\ picture \in Pictures /\ k \in Rows(picture)
        /\ todo' \subseteq Rows(picture)
    BY DEF ProcessRow, FileInv
  <1>2. InNetpbm' = InNetpbm /\ Rows(picture)' = Rows(picture)
    BY <1>1 DEF InNetpbm, Rows
  <1>3. info \in NetpbmInfo /\ Full(info.writer) /\ Sound(info.writer)
    BY <1>1 DEF FileInv, Full
  <1>4. PICK v, n : v = RowValues(picture, k) /\ n = picture.width * picture.depth
    OBVIOUS
  <1>5. n \in Nat /\ n = Len(v) /\ \A j \in 1 .. n : v[j] \in Int
    BY <1>1, <1>4, RowValuesAre
  <1>6. info' = NP!netpbm_process(info, v)
    BY <1>4 DEF ProcessRow, BE, LE, RowBlock
  <1>7. Moved(info, info')
    BY <1>3, <1>5, <1>6, ProcessMoves
  <1>8. info' \in NetpbmInfo /\ Full(info'.writer)
        /\ \A i \in 1 .. info.writer.used : info'.writer.bytes[i] = info.writer.bytes[i]
    BY <1>3, <1>7, MovedFull DEF Moved
  <1>9. BytesStay
    BY <1>1, <1>8 DEF BytesStay, Written
  <1> QED  BY <1>1, <1>2, <1>8, <1>9 DEF FileInv

(* A row lies within the pixels, behind or before any other. *)
Lies(s, r, h, k, off) ==
    /\ off \in Nat /\ off + r = s + (k + 1) * r /\ off = s + k * r
    /\ h * r \in Nat /\ off + r <= s + h * r
    /\ \A j \in 0 .. h - 1 : j # k =>
           \A i \in s + j * r + 1 .. s + (j + 1) * r : i \in Nat /\ (i <= off \/ i > off + r)

(* The row of a block lies where the picture has it. *)
LEMMA RowLies ==
    ASSUME NEW s \in Nat, NEW r \in Nat, NEW h \in Nat, NEW k \in 0 .. h - 1, NEW off, off = s + r * k
    PROVE  Lies(s, r, h, k, off)
  <1>1. PICK lo, hi, all : lo = k * r /\ hi = (k + 1) * r /\ all = h * r
    OBVIOUS
  <1>2. lo \in Nat /\ hi \in Nat /\ all \in Nat /\ hi <= all /\ hi = lo + r
    BY <1>1, RowsApart
  <1>3. r * k = lo
    BY <1>1
  <1>4. ASSUME NEW j \in 0 .. h - 1, j # k, NEW i \in s + j * r + 1 .. s + (j + 1) * r
        PROVE  i \in Nat /\ (i <= off \/ i > off + r)
    <2>1. PICK a, b : a = j * r /\ b = (j + 1) * r
      OBVIOUS
    <2>2. CASE j < k
      <3>1. a \in Nat /\ b \in Nat /\ b <= lo
        BY <1>1, <2>1, <2>2, RowsApart
      <3>2. i \in s + a + 1 .. s + b
        BY <2>1
      <3> QED  BY <1>2, <1>3, <3>1, <3>2
    <2>3. CASE k < j
      <3>1. a \in Nat /\ b \in Nat /\ hi <= a
        <4>1. a \in Nat /\ hi <= a
          BY <1>1, <2>1, <2>3, RowsApart
        <4>2. b \in Nat
          BY <2>1
        <4> QED  BY <4>1, <4>2
      <3>2. i \in s + a + 1 .. s + b
        BY <2>1
      <3> QED  BY <1>2, <1>3, <3>1, <3>2
    <2> QED  BY <1>4, <2>2, <2>3
  <1>5. off = s + lo
    BY <1>3
  <1>6. off \in Nat /\ off + r = s + hi /\ off + r <= s + all
    BY <1>2, <1>5
  <1> QED  BY <1>1, <1>2, <1>4, <1>5, <1>6 DEF Lies

(* A row given to a sink of AKTIVE keeps it, whatever the row. *)
LEMMA AktiveRowStep ==
    ASSUME FileInv, NEW k \in todo, ProcessRow(k), ~ InNetpbm
    PROVE  FileInv' /\ BytesStay
  <1>1. /\ phase = "pixels" /\ phase' = "pixels" /\ picture' = picture /\ format' = format
        /\ todo' = todo \ {k} /\ picture \in Pictures /\ k \in Rows(picture) /\ todo \subseteq Rows(picture)
        /\ todo' \subseteq Rows(picture)
    BY DEF ProcessRow, FileInv
  <1>2. InNetpbm' = InNetpbm /\ Rows(picture)' = Rows(picture)
    BY <1>1 DEF InNetpbm, Rows
  <1>3. PICK w, x, s, r, h, n : /\ w = info.writer /\ x = info'.writer /\ s = info.start /\ r = info.rowsize
                                /\ h = picture.height /\ n = picture.width * picture.depth
    OBVIOUS
  <1>4. RowsLie
    BY <1>1 DEF FileInv
  <1>5. /\ info \in AktiveInfo /\ Sound(w) /\ s \in Nat
        /\ info.x = picture.x /\ info.y = picture.y
        /\ info.rowsize = picture.width * picture.depth * 8
        /\ s <= w.used /\ w.used <= s + h * r
        /\ \A i \in 1 .. s : w.bytes[i] \in Byte
        /\ \A j \in Rows(picture) \ todo : \A i \in s + j * r + 1 .. s + (j + 1) * r :
               i \in 1 .. w.used /\ w.bytes[i] \in Byte
    BY <1>3, <1>4 DEF RowsLie, RowBytes
  <1>6. n \in Nat /\ r = n * 8 /\ r = 8 * n /\ r \in Nat /\ h \in Nat /\ Rows(picture) = 0 .. h - 1
    <2>1. n \in Nat /\ h \in Nat /\ Rows(picture) = 0 .. h - 1
      BY <1>1, <1>3, PictureIs DEF Rows
    <2>2. r = n * 8
      BY <1>3, <1>5
    <2> QED  BY <2>1, <2>2
  <1>7. PICK v, block : v = RowValues(picture, k) /\ block = RowBlock(picture, k)
    OBVIOUS
  <1>8. /\ block.height = 1 /\ block.width * block.depth = n
        /\ block.pixel = v /\ block.location.x = picture.x /\ block.location.y = picture.y + k
    BY <1>3, <1>7 DEF RowBlock
  <1>9. \A c \in 1 .. n : v[c] \in Int
    BY <1>1, <1>3, <1>7, RowValuesAre
  <1>10. PICK off : off = RowOffset(info, block.location, 0)
    OBVIOUS
  <1>11. off = s + r * k
    <2>1. PICK p, y, q, a, b : p = picture.x /\ y = picture.y /\ q = info.pixsize
                               /\ a = block.location.y - info.y + 0 /\ b = block.location.x - info.x
      OBVIOUS
    <2>2. p \in Int /\ y \in Int /\ q \in Int /\ k \in Int
      BY <1>1, <1>5, <1>6, <2>1, PictureIs DEF AktiveInfo
    <2>3. a = k /\ b = 0
      BY <1>5, <1>8, <2>1, <2>2
    <2>4. off = s + r * a + q * b
      BY <1>3, <1>10, <2>1 DEF RowOffset
    <2>5. r * k \in Int /\ q * 0 = 0
      BY <1>6, <2>2
    <2> QED  BY <1>5, <2>3, <2>4, <2>5
  <1>12. /\ off \in Nat /\ off + r = s + (k + 1) * r /\ off = s + k * r
         /\ h * r \in Nat /\ off + r <= s + h * r
         /\ \A j \in 0 .. h - 1 : j # k =>
                \A i \in s + j * r + 1 .. s + (j + 1) * r : i \in Nat /\ (i <= off \/ i > off + r)
    <2>1. Lies(s, r, h, k, off)
      BY <1>1, <1>5, <1>6, <1>11, RowLies
    <2> QED  BY <2>1 DEF Lies
  <1>13. PICK mode \in {"be", "le"} :
             info' = IF mode = "be" THEN aktive_be_pixels(info, block) ELSE aktive_le_pixels(info, block)
    BY <1>7 DEF ProcessRow
  <1>14. /\ info' \in AktiveInfo /\ info'.start = s /\ info'.rowsize = r
         /\ info'.x = info.x /\ info'.y = info.y
         /\ Wrote(w, x, off, off + r)
    <2>1. \A c \in 1 .. n : block.pixel[c] \in Int
      BY <1>8, <1>9
    <2>2. PICK i, j : i = info /\ j = info'
      OBVIOUS
    <2>3. /\ i \in AktiveInfo /\ Sound(i.writer) /\ off = RowOffset(i, block.location, 0)
          /\ j = IF mode = "be" THEN aktive_be_pixels(i, block) ELSE aktive_le_pixels(i, block)
          /\ n \in Nat /\ off \in Nat /\ n = block.width * block.depth /\ block.height = 1
      BY <1>3, <1>5, <1>6, <1>8, <1>10, <1>12, <1>13, <2>2
    <2>4. RowPut(i, j, off, n)
      BY <2>1, <2>3, RowPuts
    <2> QED  BY <1>3, <1>6, <2>2, <2>4 DEF RowPut
  <1>15. w.used \in Nat /\ x.used \in Nat /\ Sound(x) /\ w.used <= x.used
    BY <1>5, <1>14 DEF Wrote, Sound, WriterSet
  <1>16. x.used <= s + h * r
    <2>1. x.used <= w.used \/ x.used <= off + r
      BY <1>14 DEF Wrote
    <2>2. PICK all, end : all = h * r /\ end = off + r
      OBVIOUS
    <2>3. all \in Nat /\ end \in Nat /\ end <= s + all /\ w.used <= s + all
      BY <1>5, <1>6, <1>12, <2>2
    <2> QED  BY <1>5, <1>15, <2>1, <2>2, <2>3
  <1>17. ASSUME NEW i \in 1 .. s PROVE x.bytes[i] = w.bytes[i] /\ x.bytes[i] \in Byte
    <2>1. i \in 1 .. w.used
      BY <1>5, <1>15
    <2>2. i <= off
      <3>1. PICK lo : lo = r * k
        OBVIOUS
      <3>2. lo \in Nat
        BY <1>6, <1>1, <3>1
      <3> QED  BY <1>5, <1>11, <3>1, <3>2
    <2>3. x.bytes[i] = w.bytes[i]
      BY <1>14, <2>1, <2>2 DEF Wrote
    <2> QED  BY <1>5, <2>3
  <1>18. ASSUME NEW j \in Rows(picture) \ todo, NEW i \in s + j * r + 1 .. s + (j + 1) * r
         PROVE  i \in 1 .. x.used /\ x.bytes[i] = w.bytes[i] /\ x.bytes[i] \in Byte
    <2>1. i \in 1 .. w.used /\ w.bytes[i] \in Byte
      BY <1>5
    <2>2. j # k /\ j \in 0 .. h - 1
      BY <1>6
    <2>3. i <= off \/ i > off + r
      BY <1>12, <2>2
    <2>4. x.bytes[i] = w.bytes[i]
      BY <1>14, <2>1, <2>3 DEF Wrote
    <2>5. i \in 1 .. x.used
      BY <1>15, <2>1
    <2> QED  BY <2>1, <2>4, <2>5
  <1>19. ASSUME NEW i \in s + k * r + 1 .. s + (k + 1) * r
         PROVE  i \in 1 .. x.used /\ x.bytes[i] \in Byte
    <2>1. i \in off + 1 .. off + r
      BY <1>12
    <2>2. i <= x.used /\ x.bytes[i] \in Byte
      BY <1>14, <2>1 DEF Wrote
    <2>3. i \in Nat /\ 1 <= i
      BY <1>6, <1>12, <2>1
    <2> QED  BY <1>15, <2>2, <2>3
  <1>20. RowsLie'
    <2>1. \A j \in Rows(picture) \ todo' : \A i \in s + j * r + 1 .. s + (j + 1) * r :
              i \in 1 .. x.used /\ x.bytes[i] \in Byte
      <3> TAKE j \in Rows(picture) \ todo'
      <3>1. CASE j = k
        BY <1>19, <3>1
      <3>2. CASE j # k
        <4>1. j \in Rows(picture) \ todo
          BY <1>1, <3>2
        <4> QED  BY <1>18, <4>1
      <3> QED  BY <3>1, <3>2
    <2>2. s <= x.used
      BY <1>5, <1>15
    <2>3. /\ info' \in AktiveInfo /\ Sound(info'.writer) /\ info'.start \in Nat
          /\ info'.x = picture'.x /\ info'.y = picture'.y
          /\ info'.rowsize = picture'.width * picture'.depth * 8
          /\ info'.start <= info'.writer.used
          /\ info'.writer.used <= info'.start + picture'.height * info'.rowsize
      BY <1>1, <1>3, <1>5, <1>14, <1>15, <1>16, <2>2
    <2>4. \A i \in 1 .. info'.start : info'.writer.bytes[i] \in Byte
      BY <1>3, <1>14, <1>17
    <2>5. \A j \in Rows(picture)' \ todo' :
              \A i \in info'.start + j * info'.rowsize + 1 .. info'.start + (j + 1) * info'.rowsize :
                  i \in 1 .. info'.writer.used /\ info'.writer.bytes[i] \in Byte
      BY <1>2, <1>3, <1>14, <2>1
    <2> QED  BY <2>3, <2>4, <2>5 DEF RowsLie, RowBytes
  <1>21. BytesStay
    <2>1. \A i \in Written : x.bytes[i] = w.bytes[i]
      <3> TAKE i \in Written
      <3>1. i \in 1 .. s \/ \E j \in Rows(picture) \ todo : i \in s + j * r + 1 .. s + (j + 1) * r
        BY <1>1, <1>3 DEF Written, RowBytes
      <3>2. CASE i \in 1 .. s
        BY <1>17, <3>2
      <3>3. CASE \E j \in Rows(picture) \ todo : i \in s + j * r + 1 .. s + (j + 1) * r
        BY <1>18, <3>3
      <3> QED  BY <3>1, <3>2, <3>3
    <2> QED  BY <1>1, <1>3, <2>1 DEF BytesStay
  <1> QED  BY <1>1, <1>2, <1>20, <1>21 DEF FileInv

(* So does a row given to any sink. *)
LEMMA ProcessRowStep == FileInv /\ (\E k \in todo : ProcessRow(k)) => FileInv' /\ BytesStay
  <1> SUFFICES ASSUME FileInv, NEW k \in todo, ProcessRow(k) PROVE FileInv' /\ BytesStay
    OBVIOUS
  <1> QED  BY NetpbmRowStep, AktiveRowStep

(* What is handed out at the end are the header and the rows, and nothing else. *)
LEMMA FinalSinkStep == FileInv /\ FinalSink => FileInv' /\ BytesStay
  <1> SUFFICES ASSUME FileInv, FinalSink PROVE FileInv' /\ BytesStay
    OBVIOUS
  <1>1. /\ phase = "pixels" /\ todo = {} /\ picture' = picture /\ format' = format /\ todo' = todo
        /\ phase' = "panic" \/ phase' = "closed"
        /\ picture \in Pictures
    BY DEF FinalSink, FileInv
  <1>2. FileInv'
    <2>1. Rows(picture)' = Rows(picture) /\ phase' # "setup" /\ phase' # "pixels"
      BY <1>1 DEF Rows
    <2> QED  BY <1>1, <2>1 DEF FileInv
  <1>3. CASE phase' = "panic"
    <2>1. info' = info
      BY <1>3 DEF FinalSink
    <2> QED  BY <1>1, <1>2, <1>3, <2>1 DEF BytesStay
  <1>4. CASE phase' = "closed"
    <2>1. PICK w, x : w = info.writer /\ x = aktive_write_done(w)
      OBVIOUS
    <2>2. Sound(w) /\ \A i \in 1 .. w.used : w.bytes[i] \in Byte
      <3>1. CASE InNetpbm
        BY <1>1, <2>1, <3>1 DEF FileInv, Full
      <3>2. CASE ~ InNetpbm
        <4>1. PICK s, r, h : s = info.start /\ r = info.rowsize /\ h = picture.height
          OBVIOUS
        <4>2. /\ Sound(w) /\ s \in Nat /\ s <= w.used /\ w.used <= s + h * r
              /\ \A i \in 1 .. s : w.bytes[i] \in Byte
              /\ \A k \in Rows(picture) : \A i \in s + k * r + 1 .. s + (k + 1) * r : w.bytes[i] \in Byte
              /\ r = picture.width * picture.depth * 8
          BY <1>1, <2>1, <3>2, <4>1 DEF FileInv, RowsLie, RowBytes
        <4>3. w.used \in Nat
          BY <4>2 DEF Sound, WriterSet
        <4>4. h \in Nat /\ r \in Nat /\ h * r \in Nat /\ Rows(picture) = 0 .. h - 1
          <5>1. PICK n : n = picture.width * picture.depth
            OBVIOUS
          <5>2. h \in Nat /\ n \in Nat /\ r = n * 8 /\ Rows(picture) = 0 .. h - 1
            BY <1>1, <4>1, <4>2, <5>1, PictureIs DEF Rows
          <5>3. r \in Nat
            BY <5>2
          <5> QED  BY <5>2, <5>3
        <4>5. ASSUME NEW i \in 1 .. w.used PROVE w.bytes[i] \in Byte
          <5>1. CASE i <= s
            BY <4>2, <4>3, <5>1
          <5>2. CASE ~ (i <= s)
            <6>1. PICK all : all = h * r
              OBVIOUS
            <6>2. i \in s + 1 .. s + all
              BY <4>2, <4>3, <4>4, <5>2, <6>1
            <6>3. i \in s + 1 .. s + h * r
              BY <6>1, <6>2
            <6>4. \E k \in 0 .. h - 1 : i \in s + k * r + 1 .. s + (k + 1) * r
              BY <4>2, <4>4, <6>3, RowFound
            <6> QED  BY <4>2, <4>4, <6>4
          <5> QED  BY <5>1, <5>2
        <4> QED  BY <4>2, <4>5
      <3> QED  BY <3>1, <3>2
    <2>3. x.bytes = w.bytes /\ Len(x.out) = w.used /\ \A i \in 1 .. w.used : x.out[i] = w.bytes[i]
      BY <2>1, <2>2, DoneGives
    <2>4. info'.writer = x
      <3>1. CASE InNetpbm
        <4>1. info \in NetpbmInfo /\ info' = NP!netpbm_final(info)
          BY <1>1, <1>4, <3>1 DEF FinalSink, FileInv
        <4> QED  BY <2>1, <4>1, SameDone DEF NP!netpbm_final, NetpbmInfo
      <3>2. CASE ~ InNetpbm
        <4>1. info \in AktiveInfo /\ info' = aktive_final(info)
          BY <1>1, <1>4, <3>2 DEF FinalSink, FileInv, RowsLie
        <4> QED  BY <2>1, <4>1 DEF aktive_final, AktiveInfo
      <3> QED  BY <3>1, <3>2
    <2>5. \A i \in 1 .. Len(x.out) : x.out[i] # Undefined
      <3> TAKE i \in 1 .. Len(x.out)
      <3>1. x.out[i] \in Byte
        BY <2>2, <2>3
      <3>2. Undefined \notin Byte
        BY DEF Undefined, Byte
      <3> QED  BY <3>1, <3>2
    <2> QED  BY <1>2, <2>1, <2>3, <2>4, <2>5 DEF BytesStay
  <1> QED  BY <1>1, <1>3, <1>4

(* Other steps change nothing of it. *)
LEMMA FileStutter == FileInv /\ UNCHANGED fileVars => FileInv'
  BY DEF fileVars, FileInv, InNetpbm, RowsLie, RowBytes, Rows

(* Bytes of the header and of a row stay what they were once written: neither
   the rows that come later, in whatever order the worker threads are done with
   them, nor the growth of the buffer touch them; and what a sink hands out when
   it closes was written, byte for byte, no gap left between or behind the rows
   (the sinks of op/netpbm.c and op/aktive.c over the writers of
   runtime/writer.c). *)
THEOREM BytesAreKept == FileSpec => WrittenStays
  <1>1. InitFile => FileInv
    BY FileInit
  <1>2. FileInv /\ [FileStep]_fileVars => FileInv'
    BY SetupSinkStep, ProcessRowStep, FinalSinkStep, FileStutter DEF FileStep
  <1>3. FileInv /\ [FileStep]_fileVars => [BytesStay]_fileVars
    BY SetupSinkStep, ProcessRowStep, FinalSinkStep DEF FileStep
  <1> QED  BY <1>1, <1>2, <1>3, PTL DEF FileSpec, WrittenStays

(* The values given to a sink are counted, and at the end they are all. *)
RowSize(p) == p.width * p.depth

CountInv ==
    /\ phase # "panic"
    /\ phase = "pixels" =>
           /\ info.size = picture.height * RowSize(picture)
           /\ info.written = (picture.height - Cardinality(todo)) * RowSize(picture)
    /\ phase = "closed" /\ ~ InNetpbm =>
           Len(info.writer.out) = info.start + picture.height * info.rowsize

(* The rows are as many as the height. *)
LEMMA RowsCounted ==
    ASSUME NEW p \in Pictures
    PROVE  IsFiniteSet(Rows(p)) /\ Cardinality(Rows(p)) = p.height
  <1>1. PICK h : h = p.height
    OBVIOUS
  <1>2. h \in Nat /\ 0 \in Int /\ h - 1 \in Int
    BY <1>1, PictureIs
  <1>3. Rows(p) = 0 .. h - 1
    BY <1>1 DEF Rows
  <1>4. IsFiniteSet(0 .. h - 1) /\ Cardinality(0 .. h - 1) = IF 0 > h - 1 THEN 0 ELSE (h - 1) - 0 + 1
    BY <1>2, FS_Interval
  <1>5. Cardinality(0 .. h - 1) = h
    BY <1>2, <1>4
  <1> QED  BY <1>1, <1>3, <1>4, <1>5

(* A row given to a sink of AKTIVE is counted. *)
LEMMA InfoPutCounts ==
    ASSUME NEW i \in AktiveInfo, NEW w, NEW n
    PROVE  InfoPut(i, w, n).size = i.size /\ InfoPut(i, w, n).written = n
  BY DEF AktiveInfo, InfoPut

LEMMA AktiveRowAdds ==
    ASSUME NEW mode \in {"be", "le"}, NEW i \in AktiveInfo, NEW block, block.height = 1,
           NEW n \in Nat, n = block.width * block.depth, NEW j,
           j = IF mode = "be" THEN aktive_be_pixels(i, block) ELSE aktive_le_pixels(i, block)
    PROVE  Adds(i, j, n)
  <1>1. PICK w, m : /\ w = IF mode = "be" THEN RowBE(i, block, i.writer, 0) ELSE RowLE(i, block, i.writer, 0)
                    /\ m = i.written + block.height * (block.width * block.depth)
    OBVIOUS
  <1>2. j = InfoPut(i, w, m)
    BY <1>1, PixelsAre DEF InfoPut
  <1>3. m = i.written + n
    <2>1. 1 * n = n
      OBVIOUS
    <2> QED  BY <1>1, <2>1
  <1> QED  BY <1>2, <1>3, InfoPutCounts DEF Adds

(* The header begins to count. *)
LEMMA SetupCounts == FileInv /\ CountInv /\ SetupSink => CountInv'
  <1> SUFFICES ASSUME FileInv, CountInv, SetupSink PROVE CountInv'
    OBVIOUS
  <1>1. /\ phase = "setup" /\ phase' = "pixels" /\ picture' = picture /\ format' = format /\ todo' = todo
        /\ picture \in Pictures /\ todo = Rows(picture)
    BY DEF SetupSink, FileInv
  <1>2. info'.size = picture.width * picture.height * picture.depth /\ info'.written = 0
    <2>1. CASE InNetpbm
      <3>1. info \in NetpbmInfo /\ Sound(info.writer)
        BY <1>1, <2>1 DEF FileInv, Full
      <3>2. info' = NP!netpbm_header(info, picture)
        BY <2>1 DEF SetupSink, BE, LE
      <3> QED  BY <1>1, <3>1, <3>2, HeaderMoves, PictureIs
    <2>2. CASE ~ InNetpbm
      <3>1. info \in AktiveInfo /\ Sound(info.writer) /\ info.writer.used = 0 /\ info.writer.pos = 0
        BY <1>1, <2>2 DEF FileInv, Full
      <3>2. PICK mode \in {"be", "le"} :
                info' = IF mode = "be" THEN aktive_be_header(info, picture) ELSE aktive_le_header(info, picture)
        BY <2>2 DEF SetupSink
      <3> QED  BY <1>1, <3>1, <3>2, StartedIs, PictureIs
    <2> QED  BY <2>1, <2>2
  <1>3. PICK w, h, d, n : w = picture.width /\ h = picture.height /\ d = picture.depth /\ n = w * d
    OBVIOUS
  <1>4. w \in Nat /\ h \in Nat /\ d \in Nat /\ n \in Nat
    BY <1>1, <1>3, PictureIs
  <1>5. w * h * d = h * n
    BY <1>3, <1>4
  <1>6. (h - Cardinality(todo)) * n = 0
    <2>1. Cardinality(todo) = h
      BY <1>1, <1>3, RowsCounted
    <2>2. h - h = 0 /\ 0 * n = 0
      BY <1>4
    <2> QED  BY <2>1, <2>2
  <1> QED  BY <1>1, <1>2, <1>3, <1>5, <1>6 DEF CountInv, RowSize

(* A row counts its values. *)
LEMMA RowCounts == FileInv /\ CountInv /\ (\E k \in todo : ProcessRow(k)) => CountInv'
  <1> SUFFICES ASSUME FileInv, CountInv, NEW k \in todo, ProcessRow(k) PROVE CountInv'
    OBVIOUS
  <1>1. /\ phase = "pixels" /\ phase' = "pixels" /\ picture' = picture /\ todo' = todo \ {k}
        /\ picture \in Pictures /\ k \in Rows(picture) /\ todo \subseteq Rows(picture)
    BY DEF ProcessRow, FileInv
  <1>2. PICK n, h, c : n = RowSize(picture) /\ h = picture.height /\ c = Cardinality(todo)
    OBVIOUS
  <1>3. n \in Nat /\ h \in Nat
    BY <1>1, <1>2, PictureIs DEF RowSize
  <1>4. c \in Nat /\ Cardinality(todo') = c - 1
    <2>1. IsFiniteSet(todo)
      BY <1>1, RowsCounted, FS_Subset
    <2>2. Cardinality(todo) \in Nat
      BY <2>1, FS_CardinalityType
    <2>3. Cardinality(todo \ {k}) = Cardinality(todo) - 1
      BY <2>1, FS_RemoveElement
    <2> QED  BY <1>1, <1>2, <2>2, <2>3
  <1>5. info'.size = info.size /\ info'.written = info.written + n
    <2>1. PICK v, block : v = RowValues(picture, k) /\ block = RowBlock(picture, k)
      OBVIOUS
    <2>2. n = picture.width * picture.depth
      BY <1>2 DEF RowSize
    <2>3. n = Len(v) /\ \A j \in 1 .. n : v[j] \in Int
      BY <1>1, <2>1, <2>2, RowValuesAre
    <2>4. CASE InNetpbm
      <3>1. info \in NetpbmInfo /\ Sound(info.writer)
        BY <1>1, <2>4 DEF FileInv, Full
      <3>2. info' = NP!netpbm_process(info, v)
        BY <2>1, <2>4 DEF ProcessRow, BE, LE, RowBlock
      <3> QED  BY <1>3, <2>3, <3>1, <3>2, ProcessMoves DEF Adds
    <2>5. CASE ~ InNetpbm
      <3>1. PICK mode \in {"be", "le"} :
                info' = IF mode = "be" THEN aktive_be_pixels(info, block) ELSE aktive_le_pixels(info, block)
        BY <2>1, <2>5 DEF ProcessRow
      <3>2. info \in AktiveInfo
        BY <1>1, <2>5 DEF FileInv, RowsLie
      <3>3. block.height = 1 /\ n = block.width * block.depth
        BY <2>1, <2>2 DEF RowBlock
      <3>4. PICK i, s : i = info /\ s = info'
        OBVIOUS
      <3>5. Adds(i, s, n)
        BY <1>3, <3>1, <3>2, <3>3, <3>4, AktiveRowAdds
      <3> QED  BY <3>4, <3>5 DEF Adds
    <2> QED  BY <2>4, <2>5
  <1>6. (h - c) * n + n = (h - (c - 1)) * n
    <2>1. PICK e : e = h - c
      OBVIOUS
    <2>2. e \in Int /\ h - (c - 1) = e + 1
      BY <1>3, <1>4, <2>1
    <2>3. (e + 1) * n = e * n + n
      BY <1>3, <2>2
    <2> QED  BY <2>1, <2>2, <2>3
  <1>7. info.size = h * n /\ info.written = (h - c) * n
    BY <1>1, <1>2 DEF CountInv
  <1> QED  BY <1>1, <1>2, <1>4, <1>5, <1>6, <1>7 DEF CountInv

(* At the end all rows are there, and the file is as long as its header says. *)
LEMMA FinalCounts == FileInv /\ CountInv /\ FinalSink => CountInv'
  <1> SUFFICES ASSUME FileInv, CountInv, FinalSink PROVE CountInv'
    OBVIOUS
  <1>1. /\ phase = "pixels" /\ todo = {} /\ picture' = picture /\ format' = format
        /\ picture \in Pictures
    BY DEF FinalSink, FileInv
  <1>2. PICK n, h : n = RowSize(picture) /\ h = picture.height
    OBVIOUS
  <1>3. n \in Nat /\ h \in Nat
    BY <1>1, <1>2, PictureIs DEF RowSize
  <1>4. info.written = info.size
    <2>1. Cardinality(todo) = 0
      BY <1>1, FS_EmptySet
    <2>2. info.size = h * n /\ info.written = (h - 0) * n
      BY <1>1, <1>2, <2>1 DEF CountInv
    <2>3. h - 0 = h
      BY <1>3
    <2> QED  BY <2>2, <2>3
  <1>5. phase' = "closed" /\ (~ InNetpbm => info' = aktive_final(info))
    BY <1>4 DEF FinalSink
  <1>6. InNetpbm' = InNetpbm
    BY <1>1 DEF InNetpbm
  <1>7. ASSUME ~ InNetpbm
        PROVE  Len(info'.writer.out) = info'.start + picture.height * info'.rowsize
    <2>1. RowsLie
      BY <1>1, <1>7 DEF FileInv
    <2>2. PICK w, x, s, r : w = info.writer /\ x = aktive_write_done(w) /\ s = info.start /\ r = info.rowsize
      OBVIOUS
    <2>3. info'.writer = x /\ info'.start = s /\ info'.rowsize = r
      BY <1>5, <1>7, <2>1, <2>2 DEF RowsLie, aktive_final, AktiveInfo
    <2>4. /\ Sound(w) /\ s \in Nat /\ s <= w.used /\ w.used <= s + h * r /\ r = n * 8
          /\ \A k \in Rows(picture) : \A i \in s + k * r + 1 .. s + (k + 1) * r : i \in 1 .. w.used
      BY <1>1, <1>2, <2>1, <2>2 DEF RowsLie, RowBytes, RowSize
    <2>5. w.used \in Nat /\ r \in Nat /\ Rows(picture) = 0 .. h - 1
      <3>1. Sound(w) /\ r = n * 8
        BY <2>4, Zenon
      <3>2. w.used \in Nat
        BY <3>1 DEF Sound, WriterSet
      <3>3. r \in Nat
        BY <1>3, <3>1
      <3>4. Rows(picture) = 0 .. h - 1
        BY <1>2, Zenon DEF Rows
      <3> QED  BY <3>2, <3>3, <3>4, Zenon
    <2>6. Len(x.out) = w.used
      BY <2>2, <2>4, DoneGives
    <2>7. PICK all : all = h * r
      OBVIOUS
    <2>8. all \in Nat
      BY <1>3, <2>5, <2>7
    <2>9. s + all <= w.used
      <3>1. CASE all = 0
        BY <2>4, <3>1
      <3>2. CASE all # 0
        <4>1. s + all \in s + 1 .. s + h * r
          BY <2>4, <2>7, <2>8, <3>2
        <4>2. PICK k \in 0 .. h - 1 : s + all \in s + k * r + 1 .. s + (k + 1) * r
          BY <1>3, <2>4, <2>5, <4>1, RowFound
        <4>3. s + all \in 1 .. w.used
          BY <2>4, <2>5, <4>2
        <4> QED  BY <4>3
      <3> QED  BY <3>1, <3>2
    <2>10. w.used = s + all
      BY <2>4, <2>5, <2>7, <2>8, <2>9
    <2> QED  BY <1>2, <2>3, <2>6, <2>7, <2>10
  <1> QED  BY <1>1, <1>5, <1>6, <1>7 DEF CountInv

(* Other steps change nothing of it. *)
LEMMA CountStutter == CountInv /\ UNCHANGED fileVars => CountInv'
  BY DEF fileVars, CountInv, InNetpbm, RowSize

(* What a closed file is: the sink's count agreed with the size of the image, and
   an AKTIVE file is as long as its header says. *)
FilesComplete ==
    /\ phase # "panic"
    /\ phase = "closed" /\ ~ InNetpbm =>
           Len(info.writer.out) = info.start + picture.height * info.rowsize

(* The assertion of the sinks that as many values were written as the image has
   holds for every image, format and order of rows (netpbm_final, aktive_final);
   and an AKTIVE file has exactly the bytes that its readers ask for
   (header_esize), not one less when the last row is not the last one written. *)
THEOREM SinksComplete == FileSpec => []FilesComplete
  <1>1. InitFile => FileInv /\ CountInv
    <2>1. InitFile => CountInv
      BY DEF InitFile, CountInv
    <2> QED  BY <2>1, FileInit
  <1>2. FileInv /\ CountInv /\ [FileStep]_fileVars => FileInv' /\ CountInv'
    BY SetupSinkStep, ProcessRowStep, FinalSinkStep, FileStutter,
       SetupCounts, RowCounts, FinalCounts, CountStutter DEF FileStep
  <1>3. CountInv => FilesComplete
    BY DEF CountInv, FilesComplete
  <1> QED  BY <1>1, <1>2, <1>3, PTL DEF FileSpec
=============================================================================

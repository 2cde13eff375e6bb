-------------------------------- MODULE Images --------------------------------
(***************************************************************************)
(* runtime/image.c and runtime/objtype_image.c: images, the content that   *)
(* images can share, the Tcl values that hold images, and the counts that  *)
(* decide when all of these are released.  A script creates images from    *)
(* others, keeps them in its variables, and changes their meta data.       *)
(*                                                                         *)
(* Structures are numbered as they are allocated.  Meta data are opaque.   *)
(* The release of an image walks down to its inputs; the C stack of that   *)
(* recursion is `calls`, and the script goes on when it is empty.          *)
(***************************************************************************)
EXTENDS Integers, FiniteSets, Sequences

CONSTANTS Names,        \* the variables of the script
          Metas,        \* meta data
          NoMeta,       \* the null pointer for them
          MaxInputs,    \* bound on the inputs of an image
          MaxImages     \* bound on the images allocated, then on the values

ASSUME ImagesAssumption == MaxInputs \in Nat /\ MaxImages \in Nat

VARIABLES image,        \* refcount, content and meta of the images not freed
          content,      \* refcount and srcs of the contents not freed
          object,       \* the Tcl values: the image of each
          held,         \* per variable: the value it holds, 0 for none
          calls,        \* the calls in progress, innermost last
          allocated,    \* the images allocated so far, ...
          objects,      \* ... and the values
          asked         \* the last change of meta data: [variable, meta], or none

imageVars == << image, content, object, held, calls, allocated, objects, asked >>

NoChange == << >>

InitImages == /\ image = << >> /\ content = << >> /\ object = << >>
              /\ held = [v \in Names |-> 0]
              /\ calls = << >>
              /\ allocated = 0 /\ objects = 0
              /\ asked = NoChange

Dropped(f, x)  == [y \in DOMAIN f \ {x} |-> f[y]]
Added(f, x, e) == [y \in DOMAIN f \cup {x} |-> IF y = x THEN e ELSE f[y]]

-----------------------------------------------------------------------------
(* A call of aktive_image_unref for an image; a release of its content that
   has come to input `next`: for good ("destroy"), or after a failed setup
   ("undo"). *)
Call(kind, i) == [kind |-> kind, image |-> i, next |-> 1]

Running      == calls[Len(calls)]
Returned     == SubSeq(calls, 1, Len(calls) - 1)
InState(kinds) == calls # << >> /\ Running.kind \in kinds
Sources      == content[image[Running.image].content].srcs

SharedContent(c) == content[c].refcount > 1

(* The last reference takes the image with it, and with that the content and
   its references to inputs, unless another image has the same content. *)
aktive_image_destroy(i) ==
    \/ /\ SharedContent(image[i].content)
       /\ content' = [content EXCEPT ![image[i].content].refcount = @ - 1]
       /\ image' = Dropped(image, i)
       /\ calls' = Returned
    \/ /\ ~ SharedContent(image[i].content)
       /\ calls' = Append(Returned, Call("destroy", i))
       /\ UNCHANGED << image, content >>

aktive_image_unref ==
    /\ InState({"unref"})
    /\ \/ /\ image[Running.image].refcount > 1
          /\ image' = [image EXCEPT ![Running.image].refcount = @ - 1]
          /\ calls' = Returned
          /\ UNCHANGED content
       \/ /\ image[Running.image].refcount <= 1
          /\ aktive_image_destroy(Running.image)
    /\ UNCHANGED << object, held, allocated, objects, asked >>

(* The loops over the inputs. *)
UnrefInput ==
    /\ InState({"destroy", "undo"})
    /\ Running.next \in DOMAIN Sources
    /\ calls' = Append(Append(Returned, [Running EXCEPT !.next = @ + 1]),
                       Call("unref", Sources[Running.next]))
    /\ UNCHANGED << image, content, object, held, allocated, objects, asked >>

(* What follows them.  The image of a failed setup keeps a pointer to the
   content it had, but nothing has a pointer to that image. *)
FreeContent ==
    /\ InState({"destroy", "undo"})
    /\ Running.next \notin DOMAIN Sources
    /\ content' = Dropped(content, image[Running.image].content)
    /\ image' = IF Running.kind = "destroy" THEN Dropped(image, Running.image)
                ELSE [image EXCEPT ![Running.image].content = 0]
    /\ calls' = Returned
    /\ UNCHANGED << object, held, allocated, objects, asked >>

-----------------------------------------------------------------------------
(* The release of a value. *)
FreeImage(i) == Call("unref", i)

(* The assignment of a value, 0 for none, to a variable, with the values there
   are.  A value that no variable holds any more is released by Tcl. *)
Assign(objs, w, o) ==
    LET old  == held[w]
        last == old # 0 /\ old # o /\ \A v \in Names \ {w} : held[v] # old
    IN  /\ held' = [held EXCEPT ![w] = o]
        /\ object' = IF last THEN Dropped(objs, old) ELSE objs
        /\ calls' = IF last THEN << FreeImage(objs[old]) >> ELSE << >>

aktive_image_ref(img, i) == [img EXCEPT ![i].refcount = @ + 1]

(* A new value for an image, which becomes the variable's. *)
aktive_new_image_obj(img, w, i) ==
    /\ objects < MaxImages + 1
    /\ objects' = objects + 1
    /\ image' = aktive_image_ref(img, i)
    /\ Assign(Added(object, objects + 1, i), w, objects + 1)

ImageOf(v) == object[held[v]]

Holding == {v \in Names : held[v] # 0}

Arguments == UNION {[1 .. n -> Holding] : n \in 0 .. MaxInputs}

-----------------------------------------------------------------------------
(* Each input of a new content is referenced once for every place it has. *)
WithInputs(img, srcs) ==
    [i \in DOMAIN img |->
        [img[i] EXCEPT !.refcount = @ + Cardinality({k \in DOMAIN srcs : srcs[k] = i})]]

(* An operator makes an image of inputs.  Its setup may set meta data, else
   those of the first input are taken over.  If the setup fails all is undone,
   but for the image structure, which stays. *)
aktive_image_new(w, args, ok, meta) ==
    LET srcs  == [k \in DOMAIN args |-> ImageOf(args[k])]
        i     == allocated + 1
        taken == IF ok /\ meta = NoMeta /\ srcs # << >> THEN image[srcs[1]].meta ELSE meta
        new   == Added(WithInputs(image, srcs), i, [refcount |-> 0, content |-> i, meta |-> taken])
    IN  /\ allocated < MaxImages
        /\ allocated' = i
        /\ content' = Added(content, i, [refcount |-> 1, srcs |-> srcs])
        /\ \/ ok /\ aktive_new_image_obj(new, w, i)
           \/ /\ ~ ok
              /\ image' = new
              /\ calls' = << Call("undo", i) >>
              /\ UNCHANGED << object, held, objects >>

Create == /\ calls = << >>
          /\ \E w \in Names, args \in Arguments, ok \in BOOLEAN, meta \in Metas \cup {NoMeta} :
                 aktive_image_new(w, args, ok, meta)
          /\ asked' = NoChange

(* Variables share a value; a value is duplicated; an input is asked for. *)
Share == /\ calls = << >>
         /\ \E v \in Holding, w \in Names : Assign(object, w, held[v])
         /\ asked' = NoChange
         /\ UNCHANGED << image, content, allocated, objects >>

DupImage == /\ calls = << >>
            /\ \E v \in Holding, w \in Names : aktive_new_image_obj(image, w, ImageOf(v))
            /\ asked' = NoChange
            /\ UNCHANGED << content, allocated >>

aktive_image_get_src ==
    /\ calls = << >>
    /\ \E v \in Holding, w \in Names :
           LET srcs == content[image[ImageOf(v)].content].srcs
           IN  \E k \in DOMAIN srcs : aktive_new_image_obj(image, w, srcs[k])
    /\ asked' = NoChange
    /\ UNCHANGED << content, allocated >>

UnsetVariable == /\ calls = << >>
                 /\ \E v \in Holding : Assign(object, v, 0)
                 /\ asked' = NoChange
                 /\ UNCHANGED << image, content, allocated, objects >>

(* A faulty form of ShareContent: the content is shared without being counted. *)
ShareUncounted(c) == content

ShareContent(c) == [content EXCEPT ![c].refcount = @ + 1]

(* The image's content in a new image, which nothing uses. *)
NewMeta(i, meta) ==
    Added(image, allocated + 1, [refcount |-> 0, content |-> image[i].content, meta |-> meta])

(* An image used only by the value given is changed in place.  For any other
   an image is made, but it is the one given that is returned. *)
aktive_image_meta_set ==
    /\ calls = << >>
    /\ \E v \in Holding, w \in Names, meta \in Metas \cup {NoMeta} :
        LET i == ImageOf(v) IN
        /\ asked' = << w, meta >>
        /\ \/ /\ image[i].refcount <= 1
              /\ aktive_new_image_obj([image EXCEPT ![i].meta = meta], w, i)
              /\ UNCHANGED << content, allocated >>
           \/ /\ image[i].refcount > 1
              /\ allocated < MaxImages
              /\ allocated' = allocated + 1
              /\ content' = ShareContent(image[i].content)
              /\ aktive_new_image_obj(NewMeta(i, meta), w, i)

ImageStep == \/ aktive_image_unref \/ UnrefInput \/ FreeContent
             \/ Create \/ Share \/ DupImage \/ aktive_image_get_src \/ UnsetVariable
             \/ aktive_image_meta_set

ImagesSpec == InitImages /\ [][ImageStep]_imageVars

-----------------------------------------------------------------------------
(* The places that keep an image: values, contents whose release has not come
   to that input yet, and calls for the image. *)
Passed(c, k) == \E n \in DOMAIN calls :
                    /\ calls[n].kind # "unref"
                    /\ image[calls[n].image].content = c /\ k < calls[n].next

UsesByValue(i) == {u \in {"value"} \X (DOMAIN object) \X {0} : object[u[2]] = i}
UsesAsInput(i) == {u \in {"input"} \X (DOMAIN content) \X (1 .. MaxInputs) :
                      /\ u[3] \in DOMAIN content[u[2]].srcs /\ content[u[2]].srcs[u[3]] = i
                      /\ ~ Passed(u[2], u[3])}
UsesByCall(i)  == {u \in {"call"} \X (DOMAIN calls) \X {0} :
                      calls[u[2]].kind # "undo" /\ calls[u[2]].image = i}
Uses(i) == UsesByValue(i) \cup UsesAsInput(i) \cup UsesByCall(i)

SharedBy(c) == {i \in DOMAIN image : image[i].content = c}

(* Whatever a script does, failing operators and shared contents included: a
   structure that is used exists, and its count is that of its uses, so that
   it is released with the last of them, and no call in a release meets a
   structure that is gone.  Images that were never used, of a failed setup or
   a change of meta data, stay, and their content with them (aktive_image_new,
   _ref, _unref, _destroy, _meta_set). *)
CountsExact ==
    /\ \A o \in DOMAIN object : object[o] \in DOMAIN image
    /\ \A c \in DOMAIN content : \A k \in DOMAIN content[c].srcs :
           Passed(c, k) \/ content[c].srcs[k] \in DOMAIN image
    /\ \A n \in DOMAIN calls : calls[n].image \in DOMAIN image
    /\ \A i \in DOMAIN image : image[i].refcount = Cardinality(Uses(i))
    /\ \A c \in DOMAIN content : content[c].refcount = Cardinality(SharedBy(c))
    /\ \A i \in DOMAIN image : image[i].content \in DOMAIN content \cup {0}

(* etc/transformer/meta.tcl: "Returns input with specified meta data replacing
   the old." *)
MetaReplaced ==
    asked # NoChange => image[ImageOf(asked[1])].meta = asked[2]
=============================================================================

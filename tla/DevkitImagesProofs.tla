------------------------- MODULE DevkitImagesProofs -------------------------
(***************************************************************************)
(* The proofs about DevkitImages: tags say what is in an image, and while  *)
(* the checkouts of a namespace agree no cleanup that could tell what to   *)
(* keep takes away an image that a session is about to use, for any number *)
(* of sessions, checkouts and images, and any images they are based on.    *)
(***************************************************************************)
EXTENDS DevkitImages, TLAPS

----------------------------------------------------------------------------
(* TagsOf is defined by recursion over what the images are based on.  That *)
(* there is such a function follows from deps.json having no cycle: if not *)
(* all images had a tag, one of those without would be based on none of    *)
(* them, and could be given one.                                           *)

(* f gives tags to a set of images and to all that these are based on.     *)
Tagging(k, files, f) ==
    /\ DOMAIN f \subseteq Images
    /\ \A i \in DOMAIN f : Deps[i] \subseteq DOMAIN f
    /\ f = [i \in DOMAIN f |-> image_tag(k, i, files[i], [d \in Deps[i] |-> f[d]])]

(* In every set of images there is one that is based on none of them.      *)
LEMMA LowestImage ==
    ASSUME NEW S, S \subseteq Images, S # {}
    PROVE  \E i \in S : Deps[i] \cap S = {}
  BY DevkitAssumption

(* Two taggings agree.                                                     *)
LEMMA TaggingUnique ==
    ASSUME NEW k, NEW files, NEW f, NEW g, Tagging(k, files, f), Tagging(k, files, g)
    PROVE  \A i \in DOMAIN f \cap DOMAIN g : f[i] = g[i]
<1> DEFINE Bad == {i \in DOMAIN f \cap DOMAIN g : f[i] # g[i]}
<1>1. SUFFICES ASSUME Bad # {} PROVE FALSE
  OBVIOUS
<1>2. PICK i \in Bad : Deps[i] \cap Bad = {}
  BY <1>1, LowestImage DEF Tagging
<1>3. Deps[i] \subseteq DOMAIN f \cap DOMAIN g
  BY DEF Tagging
<1>4. [d \in Deps[i] |-> f[d]] = [d \in Deps[i] |-> g[d]]
  BY <1>2, <1>3
<1>5. f[i] = image_tag(k, i, files[i], [d \in Deps[i] |-> f[d]])
  BY DEF Tagging
<1>6. g[i] = image_tag(k, i, files[i], [d \in Deps[i] |-> g[d]])
  BY DEF Tagging
<1>. QED BY <1>4, <1>5, <1>6

(* TagsOf is what its definition says.                                     *)
LEMMA TagsOfAll ==
    ASSUME NEW k, NEW files
    PROVE  TagsOf(k, files) =
             [i \in Images |->
                image_tag(k, i, files[i], [d \in Deps[i] |-> TagsOf(k, files)[d]])]
<1> DEFINE Tagged == {i \in Images : \E f : Tagging(k, files, f) /\ i \in DOMAIN f}
           U == [i \in Tagged |->
                   CHOOSE v : \E f : Tagging(k, files, f) /\ i \in DOMAIN f /\ v = f[i]]
<1>1. ASSUME NEW f, Tagging(k, files, f), NEW i \in DOMAIN f
      PROVE  i \in Tagged /\ U[i] = f[i]
  <2>1. i \in Tagged
    BY <1>1 DEF Tagging
  <2>2. PICK g : Tagging(k, files, g) /\ i \in DOMAIN g /\ U[i] = g[i]
    BY <1>1, <2>1
  <2>. QED BY <1>1, <2>1, <2>2, TaggingUnique
<1>2. ASSUME NEW i \in Tagged
      PROVE  /\ Deps[i] \subseteq Tagged
             /\ U[i] = image_tag(k, i, files[i], [d \in Deps[i] |-> U[d]])
  <2>1. PICK f : Tagging(k, files, f) /\ i \in DOMAIN f
    OBVIOUS
  <2>2. Deps[i] \subseteq DOMAIN f
    BY <2>1 DEF Tagging
  <2>3. \A d \in Deps[i] : d \in Tagged /\ U[d] = f[d]
    BY <1>1, <2>1, <2>2
  <2>4. [d \in Deps[i] |-> U[d]] = [d \in Deps[i] |-> f[d]]
    BY <2>3
  <2>5. f[i] = image_tag(k, i, files[i], [d \in Deps[i] |-> f[d]])
    BY <2>1 DEF Tagging
  <2>6. U[i] = f[i]
    BY <1>1, <2>1
  <2>. QED BY <2>3, <2>4, <2>5, <2>6
<1> HIDE DEF U
<1>3. DOMAIN U = Tagged
  BY DEF U
<1>4. U = [i \in Tagged |-> image_tag(k, i, files[i], [d \in Deps[i] |-> U[d]])]
  <2>1. U = [i \in Tagged |-> U[i]]
    BY DEF U
  <2>. QED BY <1>2, <2>1
<1>5. Tagged = Images
  <2>1. SUFFICES ASSUME Images \ Tagged # {} PROVE FALSE
    OBVIOUS
  <2>2. PICK i \in Images \ Tagged : Deps[i] \cap (Images \ Tagged) = {}
    BY <2>1, LowestImage
  <2>3. Deps[i] \subseteq Tagged
    BY <2>2, DevkitAssumption
  <2> HIDE DEF Tagged
  <2> DEFINE g == [j \in Tagged \cup {i} |->
                     IF j = i THEN image_tag(k, i, files[i], [d \in Deps[i] |-> U[d]]) ELSE U[j]]
  <2>4. i \notin Tagged /\ i \in Images /\ Tagged \subseteq Images
    BY DEF Tagged
  <2>5. \A j \in Tagged : g[j] = U[j] /\ Deps[j] \subseteq Tagged
    BY <1>2, <2>4
  <2>6. g[i] = image_tag(k, i, files[i], [d \in Deps[i] |-> U[d]])
    OBVIOUS
  <2>7. ASSUME NEW j \in Tagged \cup {i}
        PROVE  g[j] = image_tag(k, j, files[j], [d \in Deps[j] |-> g[d]])
    <3>1. Deps[j] \subseteq Tagged
      BY <2>3, <2>5
    <3>2. [d \in Deps[j] |-> g[d]] = [d \in Deps[j] |-> U[d]]
      BY <2>5, <3>1
    <3>3. CASE j = i
      BY <2>6, <3>2, <3>3
    <3>4. CASE j # i
      <4>1. j \in Tagged
        BY <3>4
      <4>2. g[j] = image_tag(k, j, files[j], [d \in Deps[j] |-> U[d]])
        BY <1>2, <2>5, <4>1
      <4>. QED BY <3>2, <4>2
    <3>. QED BY <3>3, <3>4
  <2>8. DOMAIN g = Tagged \cup {i} /\ g = [j \in Tagged \cup {i} |-> g[j]]
    OBVIOUS
  <2> HIDE DEF g
  <2>9. g = [j \in DOMAIN g |-> image_tag(k, j, files[j], [d \in Deps[j] |-> g[d]])]
    BY <2>7, <2>8
  <2>10. Tagging(k, files, g)
    BY <2>3, <2>4, <2>5, <2>8, <2>9 DEF Tagging
  <2>11. i \in DOMAIN g
    BY <2>8
  <2>. QED BY <2>4, <2>10, <2>11 DEF Tagged
<1>6. \E f : f = [i \in Images |-> image_tag(k, i, files[i], [d \in Deps[i] |-> f[d]])]
  BY <1>4, <1>5
<1>. QED BY <1>6 DEF TagsOf

(* What is expected of an image, one level down.                           *)
LEMMA ExpectedTag ==
    ASSUME NEW s \in Sessions, NEW i \in Images
    PROVE  /\ Expected(s)[i] = image_tag(config[CheckoutOf[s]], i, text[CheckoutOf[s]][i],
                                        [d \in Deps[i] |-> Expected(s)[d]])
           /\ Expected(s)[i].space = get_image_prefix(config[CheckoutOf[s]])
<1>1. Expected(s)[i] = image_tag(config[CheckoutOf[s]], i, text[CheckoutOf[s]][i],
                                 [d \in Deps[i] |-> Expected(s)[d]])
  BY TagsOfAll DEF Expected
<1>. QED BY <1>1 DEF image_tag

----------------------------------------------------------------------------
(* Stores.                                                                 *)

LEMMA PutHas ==
    ASSUME NEW store, NEW t, NEW content, NEW u
    PROVE  Has(Put(store, t, content), u) <=> u = t \/ Has(store, u)
<1> DEFINE new == [tag |-> t, content |-> content]
<1>1. new.tag = t
  OBVIOUS
<1>2. Put(store, t, content) = {e \in store : e.tag # t} \cup {new}
  BY DEF Put
<1> HIDE DEF new
<1>3. \A e : e \in Put(store, t, content) <=> (e \in store /\ e.tag # t) \/ e = new
  BY <1>2
<1>. QED BY <1>1, <1>3 DEF Has

LEMMA ContentOfStored ==
    ASSUME NEW store, NEW t, Has(store, t)
    PROVE  \E e \in store : e.tag = t /\ e.content = ContentOf(store, t)
  BY DEF Has, ContentOf

(* A stored image under a tag is what the tag says, or it was raced.       *)
LEMMA StoredContent ==
    ASSUME ContentAddressed, NEW store, store \in {local, registry}, NEW t, Has(store, t)
    PROVE  ContentOf(store, t) = t \/ t \in raced
  BY ContentOfStored DEF ContentAddressed

(* No image is removed, and the tags still say what is in the images.      *)
StoresKept ==
    /\ \A t : Has(local, t) => Has(local', t)
    /\ \A t : Has(registry, t) => Has(registry', t)
    /\ ContentAddressed'

LEMMA StoresUnchanged ==
    ASSUME ContentAddressed, UNCHANGED storeVars
    PROVE  StoresKept
  BY DEF ContentAddressed, StoresKept, storeVars

(* An image is stored that is what its tag says, or raced.                 *)
LEMMA LocalPut ==
    ASSUME ContentAddressed, NEW t, NEW content, content = t \/ t \in raced',
           local' = Put(local, t, content), registry' = registry, raced \subseteq raced'
    PROVE  StoresKept /\ Has(local', t)
<1>1. \A u : Has(local', u) <=> u = t \/ Has(local, u)
  BY PutHas
<1>2. \A e \in local' : e \in local \/ e = [tag |-> t, content |-> content]
  BY DEF Put
<1>3. ContentAddressed'
  BY <1>2 DEF ContentAddressed
<1>. QED BY <1>1, <1>3 DEF StoresKept

LEMMA RegistryPut ==
    ASSUME ContentAddressed, NEW t, NEW content, content = t \/ t \in raced,
           registry' = Put(registry, t, content), local' = local, raced' = raced
    PROVE  StoresKept
<1>1. \A u : Has(registry', u) <=> u = t \/ Has(registry, u)
  BY PutHas
<1>2. \A e \in registry' : e \in registry \/ e = [tag |-> t, content |-> content]
  BY DEF Put
<1>3. ContentAddressed'
  BY <1>2 DEF ContentAddressed
<1>. QED BY <1>1, <1>3 DEF StoresKept

----------------------------------------------------------------------------
(* Steps.                                                                  *)

LEMMA InitInv == Init => IInv
<1> SUFFICES ASSUME Init PROVE IInv
  OBVIOUS
<1>1. TypeOK
  BY DevkitAssumption DEF Init, TypeOK, BuildRun, Options, NoTags
<1>2. OrderInv /\ TagInv
  BY DEF Init, OrderInv, TagInv, Building, Processing, HasImage, NoTags
<1>3. ContentAddressed
  BY DEF Init, ContentAddressed
<1>4. UnchangedInv
  BY DEF Init, UnchangedInv, Building, Processing, NoTags
<1>5. KeptInv /\ SteadyKeepsImages
  BY DEF Init, KeptInv, SteadyKeepsImages, Building, Processing
<1>. QED BY <1>1, <1>2, <1>3, <1>4, <1>5 DEF IInv

(* A session ends, or its build does, without an image.                    *)
LEMMA EndsStep ==
    ASSUME IInv, NEW s \in Sessions, NEW from, NEW to, Ends(s, from, to),
           to \in {"finish", "ended", "failed", "nobase", "noimage"},
           to \in {"nobase", "noimage"} /\ Steady => Blinded(s),
           StoresKept, cancelled' \subseteq Sessions,
           UNCHANGED <<fileVars, cleaner, doomed, blind>>
    PROVE  IInv'
<1> USE DEF fileVars
<1>1. /\ pc' = [pc EXCEPT ![s] = to] /\ tags' = [tags EXCEPT ![s] = NoTags]
      /\ conf' = [conf EXCEPT ![s] = Invalid] /\ opt' = [opt EXCEPT ![s] = BuildRun]
      /\ todo' = [todo EXCEPT ![s] = {}] /\ cur' = [cur EXCEPT ![s] = NoImage]
  BY DEF Ends, Goes, Leaves
<1>2. TypeOK
  BY DEF IInv
<1>3. /\ pc'[s] = to /\ DOMAIN tags'[s] = {}
      /\ \A q \in Sessions \ {s} : /\ pc'[q] = pc[q] /\ tags'[q] = tags[q] /\ conf'[q] = conf[q]
                                  /\ todo'[q] = todo[q] /\ cur'[q] = cur[q]
  BY <1>1, <1>2 DEF TypeOK, NoTags
<1>4. TypeOK'
  BY <1>1, <1>2 DEF TypeOK, BuildRun, Options, NoTags
<1>5. OrderInv' /\ TagInv'
  BY <1>3 DEF IInv, OrderInv, TagInv, TagOf, StoresKept, Building, Processing, HasImage
<1>6. UnchangedInv'
  BY <1>3 DEF IInv, UnchangedInv, Expected, Building, Processing
<1>7. KeptInv' /\ SteadyKeepsImages'
  BY <1>3 DEF IInv, KeptInv, SteadyKeepsImages, Steady, Blinded, StoresKept, TagOf, Building, Processing
<1>. QED BY <1>4, <1>5, <1>6, <1>7 DEF IInv, StoresKept

(* Somebody changes files: nothing is steady any more, if it was.          *)
LEMMA FilesStep ==
    ASSUME IInv, NEW c \in Changing,
           \/ \E i \in Images, x \in Texts : Edit(c, i, x)
           \/ BeginSwitch(c)
           \/ \E k \in Configs \cup {Invalid} : EndSwitch(c, k)
    PROVE  IInv'
<1>1. /\ changes' # 0
      /\ UNCHANGED <<storeVars, pc, buildVars, cleanVars>>
  BY DEF IInv, TypeOK, UnchangedInv, Edit, BeginSwitch, EndSwitch
<1>2. TypeOK'
  <2>1. /\ config' \in [Checkouts -> Configs \cup {Invalid}]
        /\ text' \in [Checkouts -> [Images -> Texts]]
        /\ switching' \subseteq Checkouts
        /\ changes' \in 0 .. MaxChanges
        /\ edited' \subseteq Sessions
    <3>1. TypeOK /\ c \in Checkouts
      BY DevkitAssumption DEF IInv
    <3>2. ASSUME NEW i \in Images, NEW x \in Texts, Edit(c, i, x)
          PROVE  text' \in [Checkouts -> [Images -> Texts]]
      BY <3>1, <3>2 DEF TypeOK, Edit
    <3>3. ASSUME NEW k \in Configs \cup {Invalid}, EndSwitch(c, k)
          PROVE  config' \in [Checkouts -> Configs \cup {Invalid}]
      BY <3>1, <3>3 DEF TypeOK, EndSwitch
    <3>4. ASSUME \/ \E i \in Images, x \in Texts : Edit(c, i, x)
                 \/ BeginSwitch(c)
          PROVE  changes' \in 0 .. MaxChanges
      BY <3>1, <3>4, DevkitAssumption DEF TypeOK, Edit, BeginSwitch
    <3>5. switching' \subseteq Checkouts
      BY <3>1 DEF TypeOK, Edit, BeginSwitch, EndSwitch
    <3>6. edited' \subseteq Sessions
      BY <3>1 DEF TypeOK, Edit, BeginSwitch, EndSwitch
    <3>. QED BY <3>1, <3>2, <3>3, <3>4, <3>5, <3>6 DEF TypeOK, Edit, BeginSwitch, EndSwitch
  <2>. QED BY <1>1, <2>1 DEF IInv, TypeOK, buildVars, cleanVars
<1>3. OrderInv'
  BY <1>1 DEF IInv, OrderInv, buildVars
<1>4. TagInv'
  <2>1. ASSUME NEW s \in Sessions, pc[s] \in Processing, s \notin edited'
        PROVE  s \notin edited /\ text'[CheckoutOf[s]][cur[s]] = text[CheckoutOf[s]][cur[s]]
    <3>1. /\ TypeOK /\ CheckoutOf[s] \in Checkouts /\ c \in Checkouts
          /\ cur[s] \in Images
      BY <2>1, DevkitAssumption DEF IInv, TypeOK, OrderInv, Processing
    <3>2. CASE \E i \in Images, x \in Texts : Edit(c, i, x)
      <4>1. PICK i \in Images, x \in Texts : Edit(c, i, x)
        BY <3>2
      <4>2. s \notin edited /\ (CheckoutOf[s] # c \/ cur[s] # i)
        BY <2>1, <4>1 DEF Edit
      <4>. QED BY <3>1, <4>1, <4>2 DEF TypeOK, Edit
    <3>3. CASE BeginSwitch(c) \/ \E k \in Configs \cup {Invalid} : EndSwitch(c, k)
      BY <2>1, <3>3 DEF BeginSwitch, EndSwitch
    <3>. QED BY <3>2, <3>3
  <2>2. UNCHANGED <<pc, tags, cur, conf, registry>>
    BY <1>1 DEF storeVars, buildVars
  <2>. QED BY <2>1, <2>2 DEF IInv, TagInv, TagOf
<1>5. ContentAddressed'
  BY <1>1 DEF IInv, ContentAddressed, storeVars
<1>6. UnchangedInv' /\ KeptInv' /\ SteadyKeepsImages'
  BY <1>1 DEF UnchangedInv, KeptInv, SteadyKeepsImages, Steady, Blinded
<1>. QED BY <1>2, <1>3, <1>4, <1>5, <1>6 DEF IInv

(* A build begins: what is to be processed is closed under Deps.           *)
LEMMA SubgraphClosed ==
    ASSUME NEW targets
    PROVE  LET G == get_dependency_subgraph(targets)
           IN  G \subseteq Images /\ \A i \in G : Deps[i] \subseteq G
  BY DevkitAssumption DEF get_dependency_subgraph

LEMMA LoadStep ==
    ASSUME IInv, NEW s \in Sessions, NEW i \in Targets, NEW o \in Invocations, load_config(s, i, o)
    PROVE  IInv'
<1> USE DEF fileVars, storeVars, cleanVars
<1> DEFINE G == get_dependency_subgraph({i})
<1>1. /\ pc[s] = "new" /\ pc' = [pc EXCEPT ![s] = "image"] /\ tags' = tags
      /\ conf' = [conf EXCEPT ![s] = config[CheckoutOf[s]]] /\ opt' = [opt EXCEPT ![s] = o]
      /\ todo' = [todo EXCEPT ![s] = G] /\ cur' = [cur EXCEPT ![s] = i]
      /\ UNCHANGED <<fileVars, storeVars, cleanVars>>
  BY DEF load_config, Goes
<1>2. G \subseteq Images /\ \A j \in G : Deps[j] \subseteq G
  BY SubgraphClosed
<1> HIDE DEF G
<1>3. TypeOK /\ DOMAIN tags[s] = {}
  BY <1>1 DEF IInv, OrderInv
<1>4. /\ pc'[s] = "image" /\ DOMAIN tags'[s] = {}
      /\ conf'[s] = config'[CheckoutOf[s]] /\ todo'[s] = G
      /\ \A q \in Sessions \ {s} : /\ pc'[q] = pc[q] /\ conf'[q] = conf[q]
                                  /\ todo'[q] = todo[q] /\ cur'[q] = cur[q]
  BY <1>1, <1>3 DEF TypeOK
<1>5. TypeOK'
  <2>1. o \in Options /\ config[CheckoutOf[s]] \in Configs \cup {Invalid}
    BY <1>3, DevkitAssumption DEF TypeOK
  <2>2. /\ opt' \in [Sessions -> Options] /\ conf' \in [Sessions -> Configs \cup {Invalid}]
        /\ todo' \in [Sessions -> SUBSET Images]
    BY <1>1, <1>2, <1>3, <2>1 DEF TypeOK
  <2>. QED BY <1>1, <1>3, <2>2 DEF TypeOK, Building
<1>6. OrderInv' /\ TagInv'
  BY <1>1, <1>2, <1>4 DEF IInv, OrderInv, TagInv, TagOf, Building, Processing, HasImage
<1>7. ContentAddressed'
  BY <1>1 DEF IInv, ContentAddressed
<1>8. UnchangedInv'
  BY <1>1, <1>4 DEF IInv, UnchangedInv, Expected, Building, Processing
<1>9. KeptInv' /\ SteadyKeepsImages'
  BY <1>1, <1>4 DEF IInv, KeptInv, SteadyKeepsImages, Steady, Blinded, TagOf, Building, Processing
<1>. QED BY <1>5, <1>6, <1>7, <1>8, <1>9 DEF IInv

(* The tag of the next image is calculated: what it is based on has been   *)
(* processed, and until files change the tag is the expected one.          *)
LEMMA CalculateStep ==
    ASSUME IInv, NEW s \in Sessions, NEW i \in Images, calculate_tag_for_image(s, i)
    PROVE  IInv'
<1> USE DEF fileVars, storeVars, cleanVars
<1> DEFINE deps == [d \in Deps[i] |-> tags[s][d]]
           t == image_tag(conf[s], i, text[CheckoutOf[s]][i], deps)
           known == [j \in DOMAIN tags[s] \cup {i} |-> IF j = i THEN t ELSE tags[s][j]]
<1>1. TypeOK
  BY DEF IInv
<1>2. /\ pc[s] = "image" /\ pc' = [pc EXCEPT ![s] = "inspect"]
      /\ i \in todo[s] /\ Deps[i] \cap todo[s] = {}
      /\ tags' = [tags EXCEPT ![s] = known] /\ cur' = [cur EXCEPT ![s] = i]
      /\ edited' = edited \ {s}
      /\ UNCHANGED <<config, text, switching, changes, storeVars, opt, conf, todo, cleanVars>>
  BY <1>1 DEF TypeOK, calculate_tag_for_image, get_build_order, Goes
<1>3. /\ DOMAIN known = DOMAIN tags[s] \cup {i} /\ known[i] = t
      /\ \A j \in DOMAIN tags[s] \ {i} : known[j] = tags[s][j]
  OBVIOUS
<1>4. t.text = text[CheckoutOf[s]][i] /\ t.deps = deps
  BY DEF image_tag
<1>5. t = image_tag(conf[s], i, t.text, [d \in Deps[i] |-> t.deps[d]])
  <2>1. deps = [d \in Deps[i] |-> deps[d]]
    OBVIOUS
  <2>. QED BY <1>4, <2>1
<1>6. Deps[i] \subseteq DOMAIN tags[s]
  BY <1>2 DEF IInv, OrderInv, Building
<1>7. changes = 0 => t = Expected(s)[i]
  <2> SUFFICES ASSUME changes = 0 PROVE t = Expected(s)[i]
    OBVIOUS
  <2>1. conf[s] = config[CheckoutOf[s]]
    BY <1>2 DEF IInv, UnchangedInv, Building
  <2>2. \A d \in Deps[i] : tags[s][d] = Expected(s)[d]
    BY <1>6 DEF IInv, UnchangedInv
  <2>3. deps = [d \in Deps[i] |-> Expected(s)[d]]
    BY <2>2
  <2>. QED BY <2>1, <2>3, ExpectedTag
<1> HIDE DEF t, known, deps
<1>8. /\ pc'[s] = "inspect" /\ tags'[s] = known /\ cur'[s] = i
      /\ \A q \in Sessions \ {s} : pc'[q] = pc[q] /\ tags'[q] = tags[q] /\ cur'[q] = cur[q]
  BY <1>1, <1>2 DEF TypeOK
<1>9. TypeOK'
  BY <1>1, <1>2, <1>3 DEF TypeOK, Building, Processing
<1>10. OrderInv'
  BY <1>2, <1>3, <1>8 DEF IInv, OrderInv, Building, Processing, HasImage
<1>11. TagInv'
  <2>1. TagOf(s)' = t
    BY <1>3, <1>8 DEF TagOf
  <2>2. \A q \in Sessions \ {s} : TagOf(q)' = TagOf(q)
    BY <1>8 DEF TagOf
  <2>. QED BY <1>2, <1>4, <1>5, <1>8, <2>1, <2>2 DEF IInv, TagInv
<1>12. ContentAddressed'
  BY <1>2 DEF IInv, ContentAddressed
<1>13. UnchangedInv'
  BY <1>2, <1>3, <1>7, <1>8 DEF IInv, UnchangedInv, Expected, Building, Processing
<1>14. KeptInv' /\ SteadyKeepsImages'
  BY <1>2, <1>3, <1>8
  DEF IInv, KeptInv, SteadyKeepsImages, Steady, Blinded, TagOf, Building, Processing
<1>. QED BY <1>9, <1>10, <1>11, <1>12, <1>13, <1>14 DEF IInv

(* An image is done, and in the daemon: build.py goes on to the next one,  *)
(* hands the target to docker_run.py or ends.                              *)
LEMMA DoneStep ==
    ASSUME IInv, NEW s \in Sessions, NEW from \in Processing, pc[s] = from, Done(s, from),
           Steady /\ ~Blinded(s) => Has(local', TagOf(s)), StoresKept, UNCHANGED <<fileVars, cleanVars>>
    PROVE  IInv'
<1> USE DEF fileVars, cleanVars
<1>1. TypeOK
  BY DEF IInv
<1>2. cur[s] \in todo[s] \cap DOMAIN tags[s]
  BY DEF IInv, OrderInv
<1>3. CASE /\ pc' = [pc EXCEPT ![s] = "image"]
           /\ todo' = [todo EXCEPT ![s] = @ \ {cur[s]}]
           /\ UNCHANGED <<opt, conf, tags, cur>>
  <2>1. /\ pc'[s] = "image" /\ todo'[s] = todo[s] \ {cur[s]}
        /\ \A q \in Sessions \ {s} : pc'[q] = pc[q] /\ todo'[q] = todo[q]
    BY <1>1, <1>3 DEF TypeOK
  <2>2. TypeOK'
    BY <1>1, <1>3 DEF TypeOK, Building
  <2>3. OrderInv'
    BY <1>2, <1>3, <2>1 DEF IInv, OrderInv, Building, Processing, HasImage
  <2>4. TagInv'
    BY <1>3, <2>1 DEF IInv, TagInv, TagOf, StoresKept, Processing
  <2>5. UnchangedInv'
    BY <1>3, <2>1 DEF IInv, UnchangedInv, Expected, Building
  <2>6. KeptInv'
    BY <1>3, <2>1 DEF IInv, KeptInv, Steady, Blinded, StoresKept, TagOf, Building
  <2>7. SteadyKeepsImages'
    BY <2>1 DEF IInv, SteadyKeepsImages, Steady, Blinded
  <2>. QED BY <2>2, <2>3, <2>4, <2>5, <2>6, <2>7 DEF IInv, StoresKept
<1>4. CASE /\ pc' = [pc EXCEPT ![s] = "built"]
           /\ Leaves(s, [i \in {cur[s]} |-> TagOf(s)])
           /\ UNCHANGED cur
  <2> DEFINE known == [i \in {cur[s]} |-> TagOf(s)]
  <2>1. /\ pc'[s] = "built" /\ tags'[s] = known
        /\ \A q \in Sessions \ {s} : /\ pc'[q] = pc[q] /\ todo'[q] = todo[q]
                                    /\ tags'[q] = tags[q] /\ conf'[q] = conf[q]
    BY <1>1, <1>4 DEF TypeOK, Leaves
  <2>2. DOMAIN known = {cur[s]} /\ known[cur[s]] = TagOf(s)
    OBVIOUS
  <2>3. TypeOK'
    BY <1>1, <1>2, <1>4 DEF TypeOK, Leaves, BuildRun, Options, HasImage
  <2> HIDE DEF known
  <2>4. OrderInv'
    BY <1>4, <2>1, <2>2 DEF IInv, OrderInv, Building, Processing, HasImage
  <2>5. TagInv'
    BY <1>4, <2>1 DEF IInv, TagInv, TagOf, StoresKept, Processing
  <2>6. UnchangedInv'
    BY <1>2, <1>4, <2>1, <2>2 DEF IInv, UnchangedInv, Expected, TagOf, Building, Processing
  <2>7. KeptInv'
    BY <1>4, <2>1, <2>2 DEF IInv, KeptInv, Steady, Blinded, StoresKept, TagOf, Building, Processing
  <2>8. SteadyKeepsImages'
    BY <2>1 DEF IInv, SteadyKeepsImages, Steady, Blinded
  <2>. QED BY <2>3, <2>4, <2>5, <2>6, <2>7, <2>8 DEF IInv, StoresKept
<1>5. CASE Ends(s, from, "ended")
  BY <1>1, <1>5, EndsStep DEF TypeOK
<1>. QED BY <1>3, <1>4, <1>5 DEF Done, Goes

(* A session goes on with the image it processes.                          *)
LEMMA GoesStep ==
    ASSUME IInv, NEW s \in Sessions, NEW to \in Processing, pc[s] \in Processing,
           pc' = [pc EXCEPT ![s] = to],
           to = "pull" => Has(registry, TagOf(s)),
           to = "push" => Has(local', TagOf(s)),
           StoresKept, UNCHANGED <<fileVars, buildVars, cleanVars>>
    PROVE  IInv'
<1> USE DEF fileVars, buildVars, cleanVars
<1>1. TypeOK
  BY DEF IInv
<1>2. pc'[s] = to /\ \A q \in Sessions \ {s} : pc'[q] = pc[q]
  BY <1>1 DEF TypeOK
<1>3. TypeOK'
  BY <1>1 DEF TypeOK, Building
<1>4. OrderInv' /\ TagInv'
  BY <1>2 DEF IInv, OrderInv, TagInv, TagOf, StoresKept, Building, Processing, HasImage
<1>5. UnchangedInv'
  BY <1>2 DEF IInv, UnchangedInv, Expected, Building
<1>6. KeptInv' /\ SteadyKeepsImages'
  BY <1>2 DEF IInv, KeptInv, SteadyKeepsImages, Steady, Blinded, StoresKept, TagOf, Building, Processing
<1>. QED BY <1>3, <1>4, <1>5, <1>6 DEF IInv, StoresKept

LEMMA InspectStep ==
    ASSUME IInv, NEW s \in Sessions, check_if_image_exists_locally(s)
    PROVE  IInv'
<1>1. /\ StoresKept /\ pc[s] = "inspect"
      /\ UNCHANGED <<fileVars, storeVars, cleanVars>>
  BY StoresUnchanged DEF IInv, check_if_image_exists_locally
<1>2. CASE Has(local, TagOf(s)) /\ Done(s, "inspect")
  BY <1>1, <1>2, DoneStep DEF Processing, storeVars
<1>3. ASSUME NEW to \in {"build", "manifest"}, Goes(s, "inspect", to), UNCHANGED buildVars
      PROVE  IInv'
  BY <1>1, <1>3, GoesStep DEF Processing, Goes, storeVars
<1>. QED BY <1>2, <1>3 DEF check_if_image_exists_locally

LEMMA ManifestStep ==
    ASSUME IInv, NEW s \in Sessions, check_if_image_exists_in_remote_registry(s)
    PROVE  IInv'
<1>1. /\ StoresKept /\ pc[s] = "manifest"
      /\ UNCHANGED <<fileVars, storeVars, buildVars, cleanVars>>
  BY StoresUnchanged DEF IInv, check_if_image_exists_in_remote_registry
<1>2. CASE Has(registry, TagOf(s)) /\ Goes(s, "manifest", "pull")
  BY <1>1, <1>2, GoesStep DEF Processing, Goes, storeVars
<1>3. CASE Goes(s, "manifest", "build")
  BY <1>1, <1>3, GoesStep DEF Processing, Goes, storeVars
<1>. QED BY <1>2, <1>3 DEF check_if_image_exists_in_remote_registry

LEMMA PullStep ==
    ASSUME IInv, NEW s \in Sessions, pull_image_from_registry(s)
    PROVE  IInv'
<1> DEFINE content == ContentOf(registry, TagOf(s))
<1>1. /\ pc[s] = "pull" /\ Done(s, "pull")
      /\ local' = Put(local, TagOf(s), content)
      /\ UNCHANGED <<fileVars, registry, raced, cleanVars>>
  BY DEF pull_image_from_registry
<1>2. Has(registry, TagOf(s))
  BY <1>1 DEF IInv, TagInv
<1>3. content = TagOf(s) \/ TagOf(s) \in raced
  BY <1>2, StoredContent DEF IInv
<1> HIDE DEF content
<1>4. StoresKept /\ Has(local', TagOf(s))
  BY <1>1, <1>3, LocalPut DEF IInv
<1>. QED BY <1>1, <1>4, DoneStep DEF Processing

(* An image is built.  Its tag says what it was made of unless its         *)
(* Dockerfile changed: the bases are found by their tags, and these say    *)
(* what is in them.                                                        *)
LEMMA BuildStep ==
    ASSUME IInv, NEW s \in Sessions, build_image(s)
    PROVE  IInv'
<1> DEFINE t == TagOf(s)
           found(d) == IF Has(local, d) THEN ContentOf(local, d) ELSE ContentOf(registry, d)
           x == text[CheckoutOf[s]][cur[s]]
           bases == [d \in Deps[cur[s]] |-> found(t.deps[d])]
           content == image_tag(conf[s], cur[s], x, bases)
<1>1. /\ pc[s] = "build" /\ \A d \in Range(t.deps) : Has(local, d) \/ Has(registry, d)
      /\ UNCHANGED <<fileVars, registry, cleanVars>>
      /\ IF LocalMode(s) THEN Done(s, "build")
                         ELSE Goes(s, "build", "push") /\ UNCHANGED buildVars
  BY DEF build_image
<1>2. t = image_tag(conf[s], cur[s], t.text, [d \in Deps[cur[s]] |-> t.deps[d]])
  BY <1>1 DEF IInv, TagInv, Processing
<1> HIDE DEF t
<1>3. t.deps = [d \in Deps[cur[s]] |-> t.deps[d]]
  BY <1>2 DEF image_tag
<1>4. [space |-> t.space, img |-> t.img, text |-> x, extra |-> extra(conf[s], cur[s]),
       deps |-> [d \in DOMAIN t.deps |-> found(t.deps[d])]] = content
  <2>1. DOMAIN t.deps = Deps[cur[s]]
    BY <1>3
  <2>2. t.space = get_image_prefix(conf[s]) /\ t.img = cur[s]
    BY <1>2 DEF image_tag
  <2>. QED BY <2>1, <2>2 DEF image_tag
<1>5. s \notin edited => t.text = x
  BY <1>1 DEF IInv, TagInv, Processing, t
<1>6. /\ local' = Put(local, t, content)
      /\ raced' = IF s \notin edited /\ Range(t.deps) \cap raced = {} THEN raced ELSE raced \cup {t}
  BY <1>4 DEF build_image, t
<1>7. content = t \/ t \in raced'
  <2> SUFFICES ASSUME x = t.text, Range(t.deps) \cap raced = {} PROVE content = t
    BY <1>5, <1>6
  <2>1. ASSUME NEW d \in Deps[cur[s]] PROVE found(t.deps[d]) = t.deps[d]
    <3>1. t.deps[d] \in Range(t.deps)
      BY <1>3 DEF Range
    <3>. QED BY <1>1, <3>1, StoredContent DEF IInv
  <2>2. bases = t.deps
    BY <1>3, <2>1
  <2>. QED BY <1>2, <1>3, <2>2
<1>8. StoresKept /\ Has(local', t)
  BY <1>1, <1>6, <1>7, LocalPut DEF IInv
<1>9. CASE Done(s, "build")
  BY <1>1, <1>8, <1>9, DoneStep DEF Processing, t
<1>10. CASE Goes(s, "build", "push") /\ UNCHANGED buildVars
  BY <1>1, <1>8, <1>10, GoesStep DEF Processing, Goes, t
<1>. QED BY <1>1, <1>9, <1>10

(* A base is missing: not while the checkouts of a namespace agree.        *)
LEMMA NoBaseStep ==
    ASSUME IInv, NEW s \in Sessions, base_not_found(s)
    PROVE  IInv'
<1>1. pc[s] = "build" /\ Ends(s, "build", "nobase") /\ UNCHANGED <<fileVars, storeVars, cleanVars>>
  BY DEF base_not_found
<1>2. PICK d \in DOMAIN TagOf(s).deps : ~Has(local, TagOf(s).deps[d])
  BY DEF base_not_found, Range
<1>3. ASSUME Steady, ~Blinded(s) PROVE FALSE
  <2>1. /\ cur[s] \in DOMAIN tags[s] /\ cur[s] \in Images
        /\ \A i \in Deps[cur[s]] : i \in DOMAIN tags[s] \ todo[s]
    BY <1>1 DEF IInv, TypeOK, OrderInv, Building, Processing
  <2>2. \A i \in DOMAIN tags[s] : tags[s][i] = Expected(s)[i]
    BY <1>3 DEF IInv, UnchangedInv, Steady
  <2>3. TagOf(s).deps = [i \in Deps[cur[s]] |-> Expected(s)[i]]
    <3>1. TagOf(s) = image_tag(config[CheckoutOf[s]], cur[s], text[CheckoutOf[s]][cur[s]],
                               [i \in Deps[cur[s]] |-> Expected(s)[i]])
      BY <2>1, <2>2, ExpectedTag DEF TagOf
    <3>. QED BY <3>1 DEF image_tag
  <2>4. d \in Deps[cur[s]] /\ TagOf(s).deps[d] = tags[s][d]
    BY <1>2, <2>1, <2>2, <2>3
  <2>5. Has(local, tags[s][d])
    BY <1>1, <1>3, <2>1, <2>4 DEF IInv, KeptInv, Building, Processing
  <2>. QED BY <1>2, <2>4, <2>5
<1>4. StoresKept /\ cancelled' \subseteq Sessions
  BY <1>1, StoresUnchanged DEF IInv, TypeOK, cleanVars
<1>. QED BY <1>1, <1>3, <1>4, EndsStep DEF cleanVars

LEMMA PushStep ==
    ASSUME IInv, NEW s \in Sessions, push_image_to_registry(s)
    PROVE  IInv'
<1>1. /\ pc[s] = "push" /\ Done(s, "push")
      /\ UNCHANGED <<fileVars, local, raced, cleanVars>>
  BY DEF push_image_to_registry
<1>2. Steady /\ ~Blinded(s) => Has(local', TagOf(s))
  BY <1>1 DEF IInv, KeptInv
<1>3. CASE Has(local, TagOf(s)) /\ registry' = Put(registry, TagOf(s), ContentOf(local, TagOf(s)))
  <2>1. ContentOf(local, TagOf(s)) = TagOf(s) \/ TagOf(s) \in raced
    BY <1>3, StoredContent DEF IInv
  <2>2. StoresKept
    BY <1>1, <1>3, <2>1, RegistryPut DEF IInv
  <2>. QED BY <1>1, <1>2, <2>2, DoneStep DEF Processing
<1>4. CASE UNCHANGED registry
  <2>1. StoresKept
    BY <1>1, <1>4, StoresUnchanged DEF IInv, storeVars
  <2>. QED BY <1>1, <1>2, <2>1, DoneStep DEF Processing
<1>. QED BY <1>3, <1>4 DEF push_image_to_registry

(* The build fails.                                                        *)
LEMMA FailStep ==
    ASSUME IInv, NEW s \in Sessions,
           \/ load_fails(s) \/ check_docker_fails(s)
           \/ dockerfile_not_found(s) \/ docker_fails(s)
    PROVE  IInv'
<1>1. PICK from : Ends(s, from, "failed")
  BY DEF load_fails, check_docker_fails, dockerfile_not_found, docker_fails
<1>2. UNCHANGED <<fileVars, storeVars, cleanVars>>
  BY DEF load_fails, check_docker_fails, dockerfile_not_found, docker_fails
<1>3. StoresKept /\ cancelled' \subseteq Sessions
  BY <1>2, StoresUnchanged DEF IInv, TypeOK, cleanVars
<1>. QED BY <1>1, <1>2, <1>3, EndsStep DEF cleanVars

(* docker_run.py goes on, or a cleanup begins: the session keeps what it   *)
(* has built.                                                              *)
LEMMA RunStep ==
    ASSUME IInv, NEW s \in Sessions, NEW to,
           \/ pc[s] \in HasImage /\ to \in HasImage
           \/ pc[s] \in {"new", "finish"} /\ to \in {"cleaning", "ended"},
           pc' = [pc EXCEPT ![s] = to],
           to \in {"built", "start"} /\ Steady /\ ~Blinded(s) => Has(local, TagOf(s)),
           cleaner' \in [Sessions -> {"off", "delay", "listed", "removing", "done"}],
           doomed' = [q \in Sessions |-> doomed'[q]],
           \A q \in Sessions :
              \/ cleaner'[q] = cleaner[q] /\ doomed'[q] = doomed[q]
              \/ cleaner'[q] \in {"delay", "done"},
           StoresKept, UNCHANGED <<fileVars, buildVars, cancelled, blind>>
    PROVE  IInv'
<1> USE DEF fileVars, buildVars
<1>1. TypeOK
  BY DEF IInv
<1>2. pc'[s] = to /\ \A q \in Sessions \ {s} : pc'[q] = pc[q]
  BY <1>1 DEF TypeOK
<1>3. TypeOK'
  BY <1>1 DEF TypeOK, HasImage
<1>4. OrderInv' /\ TagInv'
  BY <1>2 DEF IInv, OrderInv, TagInv, TagOf, StoresKept, Building, Processing, HasImage
<1>5. UnchangedInv'
  BY <1>2 DEF IInv, UnchangedInv, Expected, Building, Processing, HasImage
<1>6. KeptInv' /\ SteadyKeepsImages'
  BY <1>2
  DEF IInv, KeptInv, SteadyKeepsImages, Steady, Blinded, StoresKept, TagOf, Building, Processing, HasImage
<1>. QED BY <1>3, <1>4, <1>5, <1>6 DEF IInv, StoresKept

LEMMA StartStep ==
    ASSUME IInv, NEW s \in Sessions,
           start_background_cleanup(s) \/ exit(s) \/ cleanup_main(s)
    PROVE  IInv'
<1>1. TypeOK
  BY DEF IInv
<1>2. StoresKept
  BY StoresUnchanged DEF IInv, start_background_cleanup, exit, cleanup_main
<1>3. CASE start_background_cleanup(s)
  <2>1. pc[s] = "built" => (Steady /\ ~Blinded(s) => Has(local, TagOf(s)))
    BY DEF IInv, KeptInv
  <2>. QED BY <1>1, <1>2, <1>3, <2>1, RunStep
           DEF TypeOK, start_background_cleanup, Goes, HasImage
<1>4. CASE exit(s)
  BY <1>1, <1>2, <1>4, RunStep DEF TypeOK, exit, Goes
<1>5. CASE cleanup_main(s)
  BY <1>1, <1>2, <1>5, RunStep DEF TypeOK, cleanup_main, Goes
<1>. QED BY <1>3, <1>4, <1>5

LEMMA DockerRunStep ==
    ASSUME IInv, NEW s \in Sessions, docker_run(s)
    PROVE  IInv'
<1>1. TypeOK
  BY DEF IInv
<1>2. /\ pc[s] = "start" /\ pc' = [pc EXCEPT ![s] = "up"]
      /\ Has(local, TagOf(s)) \/ Has(registry, TagOf(s))
      /\ local' = IF Has(local, TagOf(s))
                    THEN local ELSE Put(local, TagOf(s), ContentOf(registry, TagOf(s)))
      /\ UNCHANGED <<fileVars, registry, raced, buildVars, cleanVars>>
  BY DEF docker_run, Goes
<1>3. StoresKept
  <2>1. CASE Has(local, TagOf(s))
    BY <1>2, <2>1, StoresUnchanged DEF IInv, storeVars
  <2>2. CASE ~Has(local, TagOf(s))
    <3>1. ContentOf(registry, TagOf(s)) = TagOf(s) \/ TagOf(s) \in raced
      BY <1>2, <2>2, StoredContent DEF IInv
    <3>. QED BY <1>2, <2>2, <3>1, LocalPut DEF IInv
  <2>. QED BY <2>1, <2>2
<1>. QED BY <1>1, <1>2, <1>3, RunStep DEF TypeOK, HasImage, cleanVars

(* The image is missing: not while the checkouts of a namespace agree.     *)
LEMMA NoImageStep ==
    ASSUME IInv, NEW s \in Sessions, image_not_found(s)
    PROVE  IInv'
<1>1. Steady => Blinded(s)
  BY DEF IInv, KeptInv, image_not_found
<1>2. StoresKept /\ cancelled' \subseteq Sessions
  BY StoresUnchanged DEF IInv, TypeOK, image_not_found
<1>. QED BY <1>1, <1>2, EndsStep DEF image_not_found

LEMMA ContainerEndsStep ==
    ASSUME IInv, NEW s \in Sessions, container_ends(s)
    PROVE  IInv'
<1>1. PICK from : Ends(s, from, "finish")
  BY DEF container_ends
<1>2. StoresKept /\ cancelled' \subseteq Sessions
  BY StoresUnchanged DEF IInv, TypeOK, container_ends
<1>. QED BY <1>1, <1>2, EndsStep DEF container_ends

----------------------------------------------------------------------------
(* The cleanup.                                                            *)

(* The steps of a thread that remove no image.                             *)
LEMMA CleanerStep ==
    ASSUME IInv, NEW s \in Sessions, NEW to \in {"listed", "removing", "done"}, NEW others,
           cleaner' = [cleaner EXCEPT ![s] = to], doomed' = [doomed EXCEPT ![s] = others],
           changes = 0 /\ to # "done" =>
               \A t \in others : t.space = get_image_prefix(config[CheckoutOf[s]]),
           blind' \in {blind, blind \cup {s}},
           changes = 0 /\ to = "removing" /\ s \notin blind' =>
               \A i \in Images : Expected(s)[i] \notin others,
           UNCHANGED <<fileVars, storeVars, pc, buildVars, cancelled>>
    PROVE  IInv'
<1> USE DEF fileVars, buildVars
<1>1. TypeOK
  BY DEF IInv
<1>2. /\ cleaner'[s] = to /\ doomed'[s] = others
      /\ \A q \in Sessions \ {s} : cleaner'[q] = cleaner[q] /\ doomed'[q] = doomed[q]
  BY <1>1 DEF TypeOK
<1>3. TypeOK'
  BY <1>1 DEF TypeOK
<1>4. OrderInv' /\ TagInv' /\ ContentAddressed' /\ KeptInv' /\ SteadyKeepsImages'
  BY DEF IInv, OrderInv, TagInv, TagOf, ContentAddressed, KeptInv, SteadyKeepsImages, Steady, Blinded, storeVars
<1>5. UnchangedInv'
  BY <1>2 DEF IInv, UnchangedInv, Expected
<1>. QED BY <1>3, <1>4, <1>5 DEF IInv

LEMMA ListStep ==
    ASSUME IInv, NEW s \in Sessions, NEW old, get_images(s, old)
    PROVE  IInv'
<1>1. \A t \in old : t.space = get_image_prefix(config[CheckoutOf[s]])
  BY DEF get_images
<1>. QED BY <1>1, CleanerStep DEF get_images

LEMMA IgnoreStep ==
    ASSUME IInv, NEW s \in Sessions, NEW fails \in BOOLEAN, get_images_to_cleanup(s, fails)
    PROVE  IInv'
<1> DEFINE c == CheckoutOf[s]
           others == doomed[s] \ get_ignored_images(c, fails)
<1>1. /\ doomed' = [doomed EXCEPT ![s] = others]
      /\ cleaner' = [cleaner EXCEPT ![s] = "removing"]
      /\ blind' = IF fails THEN blind \cup {s} ELSE blind
      /\ UNCHANGED <<fileVars, storeVars, pc, buildVars, cancelled>>
  BY DEF IInv, TypeOK, get_images_to_cleanup
<1>2. changes = 0 => \A t \in others : t.space = get_image_prefix(config[c])
  BY DEF IInv, UnchangedInv, get_images_to_cleanup
<1>3. changes = 0 /\ ~fails => \A i \in Images : Expected(s)[i] \notin others
  BY DEF IInv, UnchangedInv, Expected, get_ignored_images, get_all_docker_image_tags,
         load_image_configs
<1> HIDE DEF others
<1>4. blind' \in {blind, blind \cup {s}} /\ (fails => s \in blind')
  BY <1>1
<1>. QED BY <1>1, <1>2, <1>3, <1>4, CleanerStep

LEMMA StopStep ==
    ASSUME IInv, NEW s \in Sessions, cleanup_stops(s) \/ sys_exit(s)
    PROVE  IInv'
  BY CleanerStep DEF cleanup_stops, sys_exit, CleanerStops

(* An image is removed.  If it was what a session of the same namespace    *)
(* has built it would be ignored, and other namespaces are not looked at.  *)
LEMMA RemoveStep ==
    ASSUME IInv, NEW s \in Sessions, NEW t \in doomed[s], cleanup_images_batch(s, t)
    PROVE  IInv'
<1>1. TypeOK
  BY DEF IInv
<1>2. /\ cleaner[s] = "removing" /\ doomed' = [doomed EXCEPT ![s] = doomed[s] \ {t}]
      /\ local' \subseteq local /\ \A e \in local : e \in local' \/ e.tag = t
      /\ UNCHANGED <<fileVars, registry, raced, pc, buildVars, cleaner, cancelled, blind>>
  BY <1>1 DEF TypeOK, cleanup_images_batch
<1>3. ASSUME Steady, NEW q \in Sessions, ~Blinded(q), NEW i \in DOMAIN tags[q],
             Has(local, tags[q][i])
      PROVE  Has(local', tags[q][i])
  <2>1. /\ tags[q][i] = Expected(q)[i] /\ i \in Images
        /\ t.space = get_image_prefix(config[CheckoutOf[s]])
        /\ s \in blind \/ \A j \in Images : Expected(s)[j] # t
    BY <1>1, <1>2, <1>3 DEF IInv, TypeOK, UnchangedInv, Steady
  <2>2. tags[q][i] # t
    <3> SUFFICES ASSUME tags[q][i] = t PROVE FALSE
      OBVIOUS
    <3>1. get_image_prefix(config[CheckoutOf[q]]) = get_image_prefix(config[CheckoutOf[s]])
      BY <2>1, ExpectedTag
    <3>2. Expected(q) = Expected(s)
      BY <1>3, <3>1, DevkitAssumption DEF Steady, Expected
    <3>3. s \notin blind
      BY <1>3, <3>1 DEF Blinded
    <3>. QED BY <2>1, <3>2, <3>3
  <2>. QED BY <1>2, <1>3, <2>2 DEF Has
<1> USE DEF fileVars, buildVars
<1>4. /\ doomed'[s] = doomed[s] \ {t}
      /\ \A q \in Sessions \ {s} : doomed'[q] = doomed[q]
  BY <1>1, <1>2 DEF TypeOK
<1>5. TypeOK'
  BY <1>1, <1>2 DEF TypeOK
<1>6. OrderInv' /\ TagInv' /\ ContentAddressed' /\ SteadyKeepsImages'
  BY <1>2 DEF IInv, OrderInv, TagInv, TagOf, ContentAddressed, SteadyKeepsImages, Steady, Blinded
<1>7. UnchangedInv'
  BY <1>2, <1>4 DEF IInv, UnchangedInv, Expected
<1>8. KeptInv'
  <2>1. \A q \in Sessions : pc[q] \in {"push", "built", "start"} => cur[q] \in DOMAIN tags[q]
    BY DEF IInv, OrderInv, Processing, HasImage
  <2>. QED BY <1>2, <1>3, <2>1 DEF IInv, KeptInv, Steady, Blinded, TagOf, Building
<1>. QED BY <1>5, <1>6, <1>7, <1>8 DEF IInv

----------------------------------------------------------------------------
(* Every step keeps the invariant.                                         *)
LEMMA StepInv == IInv /\ [Next]_vars => IInv'
<1> SUFFICES ASSUME IInv, [Next]_vars PROVE IInv'
  OBVIOUS
<1>1. CASE UNCHANGED vars
  BY <1>1 DEF IInv, TypeOK, OrderInv, TagInv, TagOf, ContentAddressed, UnchangedInv, Expected,
     KeptInv, SteadyKeepsImages, Steady, Blinded, vars, fileVars, storeVars, buildVars, cleanVars
<1>2. CASE \E c \in Changing :
              \/ \E i \in Images, x \in Texts : Edit(c, i, x)
              \/ BeginSwitch(c)
              \/ \E k \in Configs \cup {Invalid} : EndSwitch(c, k)
  BY <1>2, FilesStep
<1>3. ASSUME NEW s \in Sessions, Start(s) PROVE IInv'
  BY <1>3, LoadStep, FailStep, StartStep DEF Start
<1>4. ASSUME NEW s \in Sessions, Build(s) PROVE IInv'
  BY <1>4, CalculateStep, FailStep, InspectStep, ManifestStep, PullStep, BuildStep, NoBaseStep,
     PushStep
  DEF Build
<1>5. ASSUME NEW s \in Sessions, Run(s) \/ container_ends(s) PROVE IInv'
  BY <1>5, StartStep, DockerRunStep, NoImageStep, ContainerEndsStep DEF Run
<1>6. ASSUME NEW s \in Sessions, Cleanup(s) PROVE IInv'
  BY <1>6, ListStep, IgnoreStep, RemoveStep, StopStep DEF Cleanup
<1>. QED BY <1>1, <1>2, <1>3, <1>4, <1>5, <1>6 DEF Next

(* IInv is an invariant of the sessions.                                   *)
THEOREM Invariance == Spec => []IInv
  BY InitInv, StepInv, PTL DEF Spec

(* Types, and the order in which images are processed, for any deps.json.  *)
THEOREM TypeCorrect == Spec => []TypeOK
<1>1. IInv => TypeOK BY DEF IInv
<1>. QED BY <1>1, Invariance, PTL

(* A tag says what is in the image, in the daemon and in the registry,     *)
(* unless a Dockerfile was edited between its hash and its build           *)
(* (calculate_tag_for_image, build_image).                                 *)
THEOREM TagsAreHonest == Spec => []ContentAddressed
<1>1. IInv => ContentAddressed BY DEF IInv
<1>. QED BY <1>1, Invariance, PTL

(* While checkouts of a namespace agree, no cleanup removes an image that  *)
(* a session has built or found and is going to use, whatever other        *)
(* sessions do (get_images_to_cleanup), unless a cleanup of the namespace  *)
(* could not calculate what to keep (get_ignored_images).                  *)
THEOREM CleanupIsSafe == Spec => []SteadyKeepsImages
<1>1. IInv => SteadyKeepsImages BY DEF IInv
<1>. QED BY <1>1, Invariance, PTL
=============================================================================

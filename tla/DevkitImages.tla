---------------------------- MODULE DevkitImages ----------------------------
(***************************************************************************)
(* The Docker images the project's tools run in.  A DevKit session builds  *)
(* or fetches its image and those it is based on (docker/build.py), starts *)
(* a container from it (docker_run.py) and meanwhile removes old images in *)
(* a background thread (docker_cleanup.py).  Several sessions, of several  *)
(* checkouts, share one Docker daemon and one registry; every docker       *)
(* command is one step, and the files of a checkout may change between     *)
(* any two of them.                                                        *)
(*                                                                         *)
(* An image is tagged with the hash of what it is made of: the text of its *)
(* Dockerfile, its extra packages, keys and repositories, and the tags of  *)
(* the images it is based on.  The hash is modelled as injective: a tag is *)
(* the record of those parts, and the content of an image is a record of   *)
(* the same shape that says what it really was made of.                    *)
(***************************************************************************)
EXTENDS Naturals, Functions

CONSTANTS
    Sessions,       \* invocations of a DevKit command on one host
    Checkouts,      \* working trees of projects that use DevKit
    CheckoutOf,     \* the checkout a session runs in
    Images,         \* the images of deps.json
    Deps,           \* the images each of them is based on
    LocalImages,    \* those with "local": true
    AllowedImages,  \* ALLOWED_IMAGE_NAMES
    Targets,        \* the images commands ask for
    Invocations,    \* the options build.py is invoked with
    Texts,          \* contents of a Dockerfile
    Configs,        \* contents of devkit.json
    Invalid,        \* a devkit.json that CONFIG_SCHEMA rejects or JSON does not allow
    SpaceOf,        \* the repository and namespace a devkit.json, or an unreadable one, stands for
    WithRepo,       \* those that name a complete registry
    ExtraOf,        \* the extra packages, keys and repositories of each image
    Failing,        \* bound: the sessions whose cleanup may fail to calculate a tag
    Changing,       \* bound: the checkouts whose files change
    MaxChanges      \* bound: changes of files in the checkouts

Options == [noCache : BOOLEAN, local : BOOLEAN, run : BOOLEAN]
BuildRun == [noCache |-> FALSE, local |-> FALSE, run |-> TRUE]

ASSUME DevkitAssumption ==
    /\ CheckoutOf \in [Sessions -> Checkouts]
    /\ Deps \in [Images -> SUBSET Images]
    /\ LocalImages \subseteq Images /\ AllowedImages \subseteq Images
    /\ Targets \subseteq Images
    \* build_and_run passes no options; build.py alone takes them.
    /\ Invocations \subseteq Options /\ \A o \in Invocations : o.run => o = BuildRun
    /\ Invalid \notin Configs
    /\ WithRepo \subseteq Configs
    /\ Failing \subseteq Sessions /\ Changing \subseteq Checkouts
    /\ MaxChanges \in Nat
    \* deps.json has no cycle: TopologicalSorter would refuse it.
    /\ \A S \in (SUBSET Images) \ {{}} : \E i \in S : Deps[i] \cap S = {}

VARIABLES
    config,     \* config[c]: devkit.json of checkout c
    text,       \* text[c][i]: its Dockerfile of image i
    switching,  \* the checkouts whose deps.json is missing: git is replacing files
    changes,    \* how many changes there were
    edited,     \* history: the sessions whose Dockerfile was edited since they hashed it
    local,      \* the images of the daemon: [tag, content] records
    registry,   \* the images of the registry
    pc,         \* pc[s]: where session s is
    opt,        \* opt[s]: the options of its build
    conf,       \* conf[s]: the devkit.json it has loaded
    todo,       \* todo[s]: the images it has still to process
    tags,       \* tags[s]: generated_tags
    cur,        \* cur[s]: the image it processes, in the end the one it runs
    cleaner,    \* cleaner[s]: where its cleanup thread is
    doomed,     \* doomed[s]: the tags the thread has yet to remove
    cancelled,  \* the sessions whose cleanup is cancelled
    blind,      \* history: the sessions whose cleanup could not tell what to keep
    raced       \* history: the tags built after such an edit, or on an image that was

fileVars == <<config, text, switching, changes, edited>>
storeVars == <<local, registry, raced>>
buildVars == <<opt, conf, todo, tags, cur>>
cleanVars == <<cleaner, doomed, cancelled, blind>>
vars == <<fileVars, storeVars, pc, buildVars, cleanVars>>

NoTags == [i \in {} |-> i]
NoImage == CHOOSE i \in Images : TRUE     \* cur[s] of a session without one

Init ==
    /\ config \in [Checkouts -> Configs]
    /\ text \in [Checkouts -> [Images -> Texts]]
    /\ switching = {}
    /\ changes = 0
    /\ edited = {}
    /\ local = {}
    /\ registry = {}
    /\ pc = [s \in Sessions |-> "new"]
    /\ opt = [s \in Sessions |-> BuildRun]
    /\ conf = [s \in Sessions |-> Invalid]
    /\ todo = [s \in Sessions |-> {}]
    /\ tags = [s \in Sessions |-> NoTags]
    /\ cur = [s \in Sessions |-> NoImage]
    /\ cleaner = [s \in Sessions |-> "off"]
    /\ doomed = [s \in Sessions |-> {}]
    /\ cancelled = {}
    /\ blind = {}
    /\ raced = {}

Processing == {"inspect", "manifest", "pull", "build", "push"}

Goes(s, from, to) == pc[s] = from /\ pc' = [pc EXCEPT ![s] = to]

(* The process of build.py ends; of what it knew, known is left.           *)
Leaves(s, known) ==
    /\ conf' = [conf EXCEPT ![s] = Invalid]
    /\ opt' = [opt EXCEPT ![s] = BuildRun]
    /\ todo' = [todo EXCEPT ![s] = {}]
    /\ tags' = [tags EXCEPT ![s] = known]

Ends(s, from, to) ==
    Goes(s, from, to) /\ Leaves(s, NoTags) /\ cur' = [cur EXCEPT ![s] = NoImage]

Has(store, t) == \E e \in store : e.tag = t

ContentOf(store, t) == (CHOOSE e \in store : e.tag = t).content

Put(store, t, content) ==
    {e \in store : e.tag # t} \cup {[tag |-> t, content |-> content]}

----------------------------------------------------------------------------
(* Files change: somebody edits a Dockerfile, perhaps of an image whose    *)
(* tag a session has calculated, or git switches branches, which takes a   *)
(* moment.                                                                 *)

Edit(c, i, x) ==
    /\ changes < MaxChanges
    /\ text[c][i] # x
    /\ text' = [text EXCEPT ![c][i] = x]
    /\ changes' = changes + 1
    /\ edited' = edited \cup {s \in Sessions :
                    CheckoutOf[s] = c /\ pc[s] \in Processing /\ cur[s] = i}
    /\ UNCHANGED <<config, switching, storeVars, pc, buildVars, cleanVars>>

BeginSwitch(c) ==
    /\ changes < MaxChanges
    /\ c \notin switching
    /\ switching' = switching \cup {c}
    /\ changes' = changes + 1
    /\ UNCHANGED <<config, text, edited, storeVars, pc, buildVars, cleanVars>>

EndSwitch(c, k) ==
    /\ c \in switching
    /\ switching' = switching \ {c}
    /\ config' = [config EXCEPT ![c] = k]
    /\ UNCHANGED <<text, changes, edited, storeVars, pc, buildVars, cleanVars>>

----------------------------------------------------------------------------
(* build.py                                                                *)

(* get_dependency_subgraph: the targets and all they are based on, as the  *)
(* smallest set that contains the targets and is closed under Deps.        *)
get_dependency_subgraph(targets) ==
    {i \in Images : \A S \in SUBSET Images :
        targets \subseteq S /\ (\A j \in S : Deps[j] \subseteq S) => i \in S}

(* What the files of a checkout say: whether devkit.json is valid, which   *)
(* images deps.json lists - none while it is missing -, and of a           *)
(* devkit.json the prefix of its images' names, whether it has a complete  *)
(* registry and what is to be added to an image.                           *)
validate_config(c) == config[c] # Invalid
load_image_configs(c) == IF c \in switching THEN {} ELSE Images
get_image_prefix(k) == SpaceOf[k]
has_registry(k) == k \in WithRepo
extra(k, i) == ExtraOf[k][i]

load_config(s, target, options) ==
    LET c == CheckoutOf[s] IN
    /\ validate_config(c) /\ target \in load_image_configs(c)
    /\ Goes(s, "new", "image")
    /\ conf' = [conf EXCEPT ![s] = config[c]]
    /\ opt' = [opt EXCEPT ![s] = options]
    /\ cur' = [cur EXCEPT ![s] = target]
    /\ todo' = [todo EXCEPT ![s] = get_dependency_subgraph({target})]
    /\ UNCHANGED <<fileVars, storeVars, tags, cleanVars>>

(* A devkit.json that cannot be loaded, and a target that deps.json does   *)
(* not list, end the process.                                              *)
load_fails(s) ==
    LET c == CheckoutOf[s] IN
    /\ ~validate_config(c) \/ ~(Targets \subseteq load_image_configs(c))
    /\ Ends(s, "new", "failed")
    /\ UNCHANGED <<fileVars, storeVars, cleanVars>>

(* docker or buildx is not there.                                          *)
check_docker_fails(s) ==
    /\ Ends(s, "new", "failed")
    /\ UNCHANGED <<fileVars, storeVars, cleanVars>>

(* The hash of what the image is going to be made of, and the name.        *)
image_tag_NoExtras(k, i, dockerfile, deps) ==       \* mutant: EXTRA_* are not hashed
    [space |-> get_image_prefix(k), img |-> i, text |-> dockerfile,
     extra |-> CHOOSE x \in Range(ExtraOf[k]) : TRUE, deps |-> deps]

image_tag(k, i, dockerfile, deps) ==
    [space |-> get_image_prefix(k), img |-> i, text |-> dockerfile,
     extra |-> extra(k, i), deps |-> deps]

(* The next image in topological order: all it is based on is processed.   *)
get_build_order(s) == {i \in todo[s] : Deps[i] \cap todo[s] = {}}

(* Its Dockerfile is read and its tag is remembered.                       *)
calculate_tag_for_image(s, i) ==
    LET c == CheckoutOf[s]
        deps == [d \in Deps[i] |-> tags[s][d]]
        t == image_tag(conf[s], i, text[c][i], deps) IN
    /\ i \in get_build_order(s)
    /\ Goes(s, "image", "inspect")
    /\ tags' = [tags EXCEPT ![s] = [j \in DOMAIN @ \cup {i} |-> IF j = i THEN t ELSE @[j]]]
    /\ cur' = [cur EXCEPT ![s] = i]
    /\ edited' = edited \ {s}
    /\ UNCHANGED <<config, text, switching, changes, storeVars, opt, conf, todo, cleanVars>>

(* There is no Dockerfile of the image, or it cannot be read.              *)
dockerfile_not_found(s) ==
    /\ Ends(s, "image", "failed")
    /\ UNCHANGED <<fileVars, storeVars, cleanVars>>

TagOf(s) == tags[s][cur[s]]

LocalMode(s) == opt[s].local \/ cur[s] \in LocalImages \/ ~has_registry(conf[s])

(* The image is done: build.py goes on to the next or, having processed    *)
(* the target, which comes last, prints its tag and exits.                 *)
Done(s, from) ==
    \/ /\ todo[s] # {cur[s]}
       /\ Goes(s, from, "image")
       /\ todo' = [todo EXCEPT ![s] = @ \ {cur[s]}]
       /\ UNCHANGED <<opt, conf, tags, cur>>
    \/ /\ todo[s] = {cur[s]}
       /\ opt[s].run
       /\ Goes(s, from, "built")
       /\ Leaves(s, [i \in {cur[s]} |-> TagOf(s)])
       /\ UNCHANGED cur
    \/ /\ todo[s] = {cur[s]}
       /\ ~opt[s].run
       /\ Ends(s, from, "ended")

check_if_image_exists_locally(s) ==
    /\ pc[s] = "inspect"
    /\ IF ~opt[s].noCache /\ Has(local, TagOf(s))
         THEN Done(s, "inspect")
         ELSE /\ Goes(s, "inspect", IF LocalMode(s) \/ opt[s].noCache THEN "build" ELSE "manifest")
              /\ UNCHANGED buildVars
    /\ UNCHANGED <<fileVars, storeVars, cleanVars>>

(* Any failure of docker manifest inspect means that there is no image.    *)
check_if_image_exists_in_remote_registry(s) ==
    /\ pc[s] = "manifest"
    /\ \/ Has(registry, TagOf(s)) /\ Goes(s, "manifest", "pull")
       \/ Goes(s, "manifest", "build")
    /\ UNCHANGED <<fileVars, storeVars, buildVars, cleanVars>>

pull_image_from_registry(s) ==
    /\ pc[s] = "pull"
    /\ local' = Put(local, TagOf(s), ContentOf(registry, TagOf(s)))
    /\ Done(s, "pull")
    /\ UNCHANGED <<fileVars, registry, raced, cleanVars>>

(* A docker command fails: the process exits with its code.                *)
docker_fails(s) ==
    /\ Ends(s, "pull", "failed") \/ Ends(s, "build", "failed")
    /\ UNCHANGED <<fileVars, storeVars, cleanVars>>

(* docker buildx build reads the Dockerfile again; the images it is based  *)
(* on come from the daemon or else from the registry, by their tags.       *)
build_image(s) ==
    LET t == TagOf(s)
        known == Range(t.deps)
        found(d) == IF Has(local, d) THEN ContentOf(local, d) ELSE ContentOf(registry, d)
        content == [space |-> t.space, img |-> t.img, text |-> text[CheckoutOf[s]][cur[s]],
                    extra |-> extra(conf[s], cur[s]),
                    deps |-> [d \in DOMAIN t.deps |-> found(t.deps[d])]] IN
    /\ pc[s] = "build"
    /\ \A d \in known : Has(local, d) \/ Has(registry, d)
    /\ local' = Put(local, t, content)
    /\ raced' = IF s \notin edited /\ known \cap raced = {} THEN raced ELSE raced \cup {t}
    /\ IF LocalMode(s) THEN Done(s, "build")
                       ELSE Goes(s, "build", "push") /\ UNCHANGED buildVars
    /\ UNCHANGED <<fileVars, registry, cleanVars>>

base_not_found(s) ==
    /\ pc[s] = "build"
    /\ \E d \in Range(TagOf(s).deps) : ~Has(local, d) /\ ~Has(registry, d)
    /\ Ends(s, "build", "nobase")
    /\ UNCHANGED <<fileVars, storeVars, cleanVars>>

(* A failed push is tolerated.  docker push sends what the tag names now,  *)
(* if there still is such an image.                                        *)
push_image_to_registry(s) ==
    /\ pc[s] = "push"
    /\ \/ /\ Has(local, TagOf(s))
          /\ registry' = Put(registry, TagOf(s), ContentOf(local, TagOf(s)))
       \/ UNCHANGED registry
    /\ Done(s, "push")
    /\ UNCHANGED <<fileVars, local, raced, cleanVars>>

----------------------------------------------------------------------------
(* docker_run.py, as far as the images are concerned: the cleanup thread   *)
(* is started, then the container; when it ends the cleanup is cancelled   *)
(* and given a moment before the process, and with it the thread, ends.    *)

start_background_cleanup(s) ==
    /\ Goes(s, "built", "start")
    /\ cleaner' = [cleaner EXCEPT ![s] = "delay"]
    /\ UNCHANGED <<fileVars, storeVars, buildVars, doomed, cancelled, blind>>

(* docker run takes the image from the daemon or else from the registry.   *)
docker_run(s) ==
    LET t == TagOf(s) IN
    /\ pc[s] = "start"
    /\ Has(local, t) \/ Has(registry, t)
    /\ local' = IF Has(local, t) THEN local ELSE Put(local, t, ContentOf(registry, t))
    /\ Goes(s, "start", "up")
    /\ UNCHANGED <<fileVars, registry, raced, buildVars, cleanVars>>

image_not_found(s) ==
    /\ pc[s] = "start"
    /\ ~Has(local, TagOf(s)) /\ ~Has(registry, TagOf(s))
    /\ Ends(s, "start", "noimage")
    /\ cancelled' = cancelled \cup {s}
    /\ UNCHANGED <<fileVars, storeVars, cleaner, doomed, blind>>

(* The container ends, or docker could not start it.                       *)
container_ends(s) ==
    /\ Ends(s, "up", "finish") \/ Ends(s, "start", "finish")
    /\ cancelled' = cancelled \cup {s}
    /\ UNCHANGED <<fileVars, storeVars, cleaner, doomed, blind>>

(* The process ends after a join of at most one second.                    *)
exit(s) ==
    /\ Goes(s, "finish", "ended")
    /\ cleaner' = [cleaner EXCEPT ![s] = "done"]
    /\ doomed' = [doomed EXCEPT ![s] = {}]
    /\ UNCHANGED <<fileVars, storeVars, buildVars, cancelled, blind>>

(* docker_cleanup.py as a command of its own.                              *)
cleanup_main(s) ==
    /\ Goes(s, "new", "cleaning")
    /\ cleaner' = [cleaner EXCEPT ![s] = "delay"]
    /\ UNCHANGED <<fileVars, storeVars, buildVars, doomed, cancelled, blind>>

----------------------------------------------------------------------------
(* docker_cleanup.py: the thread                                           *)

CleanerStops(s) ==
    /\ cleaner' = [cleaner EXCEPT ![s] = "done"]
    /\ doomed' = [doomed EXCEPT ![s] = {}]

(* Cancelled during the initial delay, between two batches or before the   *)
(* removal of an image; or nothing is left to remove.                      *)
cleanup_stops(s) ==
    /\ \/ s \in cancelled /\ cleaner[s] \in {"delay", "removing"}
       \/ cleaner[s] = "removing" /\ doomed[s] = {}
    /\ CleanerStops(s)
    /\ UNCHANGED <<fileVars, storeVars, pc, buildVars, cancelled, blind>>

(* get_images and filter_allowed_images: the tags of the namespace that    *)
(* devkit.json names, of images with a known name that are old enough; how *)
(* old an image is counts from its creation, wherever that was.  Docker    *)
(* may fail to list them.                                                  *)
get_images_AnySpace(s, old) ==             \* mutant: the prefix is ignored
    /\ cleaner[s] = "delay"
    /\ old \subseteq {e.tag : e \in {e \in local : e.tag.img \in AllowedImages}}
    /\ cleaner' = [cleaner EXCEPT ![s] = "listed"]
    /\ doomed' = [doomed EXCEPT ![s] = old]
    /\ UNCHANGED <<fileVars, storeVars, pc, buildVars, cancelled, blind>>

get_images(s, old) ==
    /\ cleaner[s] = "delay"
    /\ old \subseteq {e.tag : e \in {e \in local :
                          /\ e.tag.space = get_image_prefix(config[CheckoutOf[s]])
                          /\ e.tag.img \in AllowedImages}}
    /\ cleaner' = [cleaner EXCEPT ![s] = "listed"]
    /\ doomed' = [doomed EXCEPT ![s] = old]
    /\ UNCHANGED <<fileVars, storeVars, pc, buildVars, cancelled, blind>>

(* The tags that a devkit.json and the Dockerfiles define.                 *)
TagsOf(k, dockerfiles) ==
    LET T[i \in Images] == image_tag(k, i, dockerfiles[i], [d \in Deps[i] |-> T[d]])
    IN  T

(* The tags of all the images that the files of the checkout define.       *)
get_all_docker_image_tags(c) == {TagsOf(config[c], text[c])[i] : i \in load_image_configs(c)}

(* Without deps.json there are no images, and nothing is ignored; nor is   *)
(* anything after an exception in the calculation of any image's tag, as   *)
(* when one Dockerfile cannot be read ("except Exception: return []").     *)
get_ignored_images(c, fails) == IF fails THEN {} ELSE get_all_docker_image_tags(c)

(* get_images_to_cleanup: what the checkout needs is not removed.  A       *)
(* devkit.json that cannot be loaded, or a Dockerfile that is missing,     *)
(* ends the thread (SystemExit is not an Exception).                       *)
get_images_to_cleanup(s, fails) ==
    LET c == CheckoutOf[s] IN
    /\ cleaner[s] = "listed"
    /\ fails => doomed[s] # {} /\ s \in Failing
    /\ validate_config(c)
    /\ doomed' = [doomed EXCEPT ![s] = @ \ get_ignored_images(c, fails)]
    /\ cleaner' = [cleaner EXCEPT ![s] = "removing"]
    /\ blind' = IF fails THEN blind \cup {s} ELSE blind
    /\ UNCHANGED <<fileVars, storeVars, pc, buildVars, cancelled>>

sys_exit(s) ==
    /\ cleaner[s] = "listed"
    /\ CleanerStops(s)
    /\ UNCHANGED <<fileVars, storeVars, pc, buildVars, cancelled, blind>>

InUse(t) == \E s \in Sessions : pc[s] = "up" /\ TagOf(s) = t

(* docker rmi of one image: docker refuses while a container uses it, the  *)
(* command may fail, and the thread goes on with the next one.             *)
cleanup_images_batch(s, t) ==
    /\ cleaner[s] = "removing"
    /\ s \notin cancelled
    /\ t \in doomed[s]
    /\ doomed' = [doomed EXCEPT ![s] = @ \ {t}]
    /\ \/ ~InUse(t) /\ local' = {e \in local : e.tag # t}
       \/ UNCHANGED local
    /\ UNCHANGED <<fileVars, registry, raced, pc, buildVars, cleaner, cancelled, blind>>

----------------------------------------------------------------------------
Build(s) ==
    \/ \E i \in Images : calculate_tag_for_image(s, i)
    \/ dockerfile_not_found(s)
    \/ check_if_image_exists_locally(s)
    \/ check_if_image_exists_in_remote_registry(s)
    \/ pull_image_from_registry(s)
    \/ docker_fails(s)
    \/ build_image(s)
    \/ base_not_found(s)
    \/ push_image_to_registry(s)

Cleanup(s) ==
    \/ \E old \in SUBSET {e.tag : e \in local} : get_images(s, old)
    \/ \E fails \in BOOLEAN : get_images_to_cleanup(s, fails)
    \/ sys_exit(s)
    \/ \E t \in doomed[s] : cleanup_images_batch(s, t)
    \/ cleanup_stops(s)

Start(s) ==
    \/ \E i \in Targets, o \in Invocations : load_config(s, i, o)
    \/ load_fails(s)
    \/ check_docker_fails(s)
    \/ cleanup_main(s)

Run(s) ==
    start_background_cleanup(s) \/ docker_run(s) \/ image_not_found(s) \/ exit(s)

Next ==
    \/ \E c \in Changing :
          \/ \E i \in Images, x \in Texts : Edit(c, i, x)
          \/ BeginSwitch(c)
          \/ \E k \in Configs \cup {Invalid} : EndSwitch(c, k)
    \/ \E s \in Sessions : Start(s) \/ Build(s) \/ Run(s) \/ container_ends(s) \/ Cleanup(s)

Spec == Init /\ [][Next]_vars

----------------------------------------------------------------------------
(* Properties.                                                             *)

(* A tag says what is in the image ("content-addressable tagging",         *)
(* docker/build.py:16), in the daemon and in the registry that everybody   *)
(* else pulls from, whichever sessions built, pulled, pushed and removed   *)
(* images in between - except where somebody edited a Dockerfile between   *)
(* a session's hash of it (build.py:453) and the build, of the image or of *)
(* one under it: no other edit, and nothing else, puts an image under a    *)
(* tag that does not describe it.                                          *)
ContentAddressed ==
    \A e \in local \cup registry : e.content = e.tag \/ e.tag \in raced

(* No checkout has changed, and those that share a namespace agree.        *)
Steady ==
    /\ changes = 0
    /\ \A c, d \in Checkouts :
          get_image_prefix(config[c]) = get_image_prefix(config[d])
              => config[c] = config[d] /\ text[c] = text[d]

(* A cleanup in the namespace of session s could not calculate the tags to *)
(* keep and has gone on without them.                                      *)
Blinded(s) ==
    \E q \in blind : get_image_prefix(config[CheckoutOf[q]]) = get_image_prefix(config[CheckoutOf[s]])

(* While the checkouts of a namespace agree, the cleanup of one session    *)
(* never takes away what another one has just found or built and is about  *)
(* to build on or to run: the images a checkout needs are ignored and      *)
(* other namespaces are not looked at (get_images_to_cleanup) - unless, in *)
(* this namespace, the tags to keep could not be calculated, when the code *)
(* keeps nothing (docker_cleanup.py:75-77).                                *)
SteadyKeepsImages ==
    Steady => \A s \in Sessions : pc[s] \in {"nobase", "noimage"} => Blinded(s)

----------------------------------------------------------------------------
(* The inductive invariant of DevkitImagesProofs.                          *)

Building == Processing \cup {"image"}
HasImage == {"built", "start", "up"}

TypeOK ==
    /\ config \in [Checkouts -> Configs \cup {Invalid}]
    /\ text \in [Checkouts -> [Images -> Texts]]
    /\ switching \subseteq Checkouts
    /\ changes \in 0 .. MaxChanges
    /\ edited \subseteq Sessions
    /\ pc \in [Sessions -> Building \cup HasImage \cup
              {"new", "cleaning", "finish", "ended", "failed", "nobase", "noimage"}]
    /\ opt \in [Sessions -> Options]
    /\ conf \in [Sessions -> Configs \cup {Invalid}]
    /\ todo \in [Sessions -> SUBSET Images]
    /\ tags = [s \in Sessions |-> tags[s]]
    /\ \A s \in Sessions : DOMAIN tags[s] \subseteq Images
    /\ cur = [s \in Sessions |-> cur[s]]
    /\ cleaner \in [Sessions -> {"off", "delay", "listed", "removing", "done"}]
    /\ doomed = [s \in Sessions |-> doomed[s]]
    /\ cancelled \subseteq Sessions
    /\ blind \subseteq Sessions

(* A session has processed, or has still to process, all that its images   *)
(* are based on, and what its current image is based on first.             *)
OrderInv ==
    \A s \in Sessions :
        /\ pc[s] = "new" => DOMAIN tags[s] = {}
        /\ pc[s] \in Building =>
              \A i \in todo[s] \cup DOMAIN tags[s] : Deps[i] \subseteq todo[s] \cup DOMAIN tags[s]
        /\ pc[s] \in Processing =>
              cur[s] \in todo[s] \cap DOMAIN tags[s] /\ Deps[cur[s]] \cap todo[s] = {}
        /\ pc[s] \in HasImage => DOMAIN tags[s] = {cur[s]}

(* The tag of the image it processes is made of what the image will be     *)
(* made of, the text included unless that was edited since; what it pulls  *)
(* is in the registry.                                                     *)
TagInv ==
    \A s \in Sessions :
        /\ pc[s] \in Processing =>
              LET t == TagOf(s)
              IN  t = image_tag(conf[s], cur[s], t.text, [d \in Deps[cur[s]] |-> t.deps[d]])
        /\ pc[s] \in Processing /\ s \notin edited => TagOf(s).text = text[CheckoutOf[s]][cur[s]]
        /\ pc[s] = "pull" => Has(registry, TagOf(s))

(* Until files change all tags are those of the checkouts, and a cleanup   *)
(* is after other tags of its checkout's namespace, but for a blind one.   *)
Expected(s) == TagsOf(config[CheckoutOf[s]], text[CheckoutOf[s]])

UnchangedInv ==
    changes = 0 =>
        /\ switching = {}
        /\ \A s \in Sessions :
              /\ pc[s] \in Building => conf[s] = config[CheckoutOf[s]]
              /\ \A i \in DOMAIN tags[s] : tags[s][i] = Expected(s)[i]
              /\ cleaner[s] \in {"listed", "removing"} =>
                    \A t \in doomed[s] : t.space = get_image_prefix(config[CheckoutOf[s]])
              /\ cleaner[s] = "removing" /\ s \notin blind => \A i \in Images : Expected(s)[i] \notin doomed[s]

(* While the checkouts of a namespace agree, what a session has processed  *)
(* stays in the daemon until it ends or a cleanup is blind.                *)
KeptInv ==
    Steady => \A s \in Sessions : ~Blinded(s) =>
        /\ pc[s] \in Building => \A i \in DOMAIN tags[s] \ todo[s] : Has(local, tags[s][i])
        /\ pc[s] \in {"push", "built", "start"} => Has(local, TagOf(s))

IInv ==
    TypeOK /\ OrderInv /\ TagInv /\ ContentAddressed /\ UnchangedInv /\ KeptInv /\ SteadyKeepsImages
=============================================================================

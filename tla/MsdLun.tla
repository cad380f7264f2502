------------------------------- MODULE MsdLun -------------------------------
(***************************************************************************)
(* The emulated USB drive (capability msd): four attributes of the gadget, *)
(* written one at a time under the capability's lock by msd_mount and      *)
(* msd_eject, each write of which may fail, and msd_build, which makes an  *)
(* image in place without the lock.  A host that has the drive open keeps  *)
(* its image from being changed; a machine that is off keeps nothing.      *)
(***************************************************************************)
EXTENDS Naturals, Sequences

CONSTANTS
    Images,     \* names in image_dir
    Callers,    \* threads
    NoImage, Nobody

LunAssumption == NoImage \notin Images /\ Nobody \notin Callers

VARIABLES
    file, cdrom, ro,    \* the LUN's attributes
    images,     \* name -> "none", "building" or "whole"
    lock,       \* who holds MsdCapability.lock
    work,       \* what that caller has still to write
    asked,      \* history: the mounts asked for since the image was last changed
    builds      \* the image each caller is building, or NoImage

vars == <<file, cdrom, ro, images, lock, work, asked, builds>>

Mounts == [file : Images, cdrom : BOOLEAN, ro : BOOLEAN]

TypeOK ==
    /\ file \in Images \cup {NoImage} /\ cdrom \in BOOLEAN /\ ro \in BOOLEAN
    /\ images \in [Images -> {"none", "building", "whole"}]
    /\ lock \in Callers \cup {Nobody} /\ asked \subseteq Mounts
    /\ builds \in [Callers -> Images \cup {NoImage}]

Init ==
    /\ file = NoImage /\ cdrom = FALSE /\ ro = FALSE
    /\ images \in [Images -> {"none", "whole"}]
    /\ lock = Nobody /\ work = <<>> /\ asked = {}
    /\ builds = [c \in Callers |-> NoImage]

Free(c) == lock # c /\ builds[c] = NoImage

\* Mutant: the image first, as an operator would say it.
WritesImageFirst(m) ==
    << <<"file", m.file>>, <<"cdrom", m.cdrom>>, <<"ro", m.ro>> >>

\* _msd_mount: out with the old image, then what the new one is, then the image.
Writes(m) ==
    << <<"file", NoImage>>, <<"cdrom", m.cdrom>>, <<"ro", m.ro>>, <<"file", m.file>> >>

\* A mode is a drive or a CD; a CD is read-only unless the request says no.
Mount(c, m) ==
    /\ lock = Nobody /\ Free(c) /\ images[m.file] # "none"
    /\ lock' = c /\ work' = Writes(m) /\ asked' = asked \cup {m}
    /\ UNCHANGED <<file, cdrom, ro, images, builds>>

Eject(c) ==
    /\ lock = Nobody /\ Free(c)
    /\ lock' = c /\ work' = << <<"file", NoImage>> >>
    /\ UNCHANGED <<file, cdrom, ro, images, asked, builds>>

Done == work' = Tail(work) /\ lock' = IF Tail(work) = <<>> THEN Nobody ELSE lock

Write ==
    /\ lock # Nobody
    /\ LET w == Head(work)
       IN  /\ file' = IF w[1] = "file" THEN w[2] ELSE file
           /\ cdrom' = IF w[1] = "cdrom" THEN w[2] ELSE cdrom
           /\ ro' = IF w[1] = "ro" THEN w[2] ELSE ro
    /\ asked' = IF Tail(work) = <<>> /\ file' # NoImage
                THEN {[file |-> file', cdrom |-> cdrom', ro |-> ro']} ELSE asked
    /\ Done /\ UNCHANGED <<images, builds>>

\* The host has the drive open, or the attribute cannot be written: the rest is
\* left undone.
WriteFails ==
    /\ lock # Nobody
    /\ work' = <<>> /\ lock' = Nobody
    /\ UNCHANGED <<file, cdrom, ro, images, asked, builds>>

Build(c, i) ==
    /\ Free(c) /\ images[i] = "none"
    /\ builds' = [builds EXCEPT ![c] = i]
    /\ images' = [images EXCEPT ![i] = "building"]
    /\ UNCHANGED <<file, cdrom, ro, lock, work, asked>>

BuildEnds(c) ==
    /\ builds[c] # NoImage
    /\ builds' = [builds EXCEPT ![c] = NoImage]
    /\ \E how \in {"whole", "none"} : images' = [images EXCEPT ![builds[c]] = how]
    /\ UNCHANGED <<file, cdrom, ro, lock, work, asked>>

Next ==
    \/ Write \/ WriteFails
    \/ \E c \in Callers :
          \/ \E m \in Mounts : Mount(c, m)
          \/ Eject(c)
          \/ \E i \in Images : Build(c, i)
          \/ BuildEnds(c)

Spec == Init /\ [][Next]_vars

\* An image the host can see is there as one request asked for it, never with
\* the mode or the write protection of another, whichever write failed.
ExposedAsAsked ==
    file # NoImage => [file |-> file, cdrom |-> cdrom, ro |-> ro] \in asked

\* Only whole images are exposed (not so: msd_build works on the image's own
\* name, so a list shows it and a mount takes it before it is done, and removes
\* it under the host if the build fails).
WholeExposed == file # NoImage => images[file] = "whole"
=============================================================================

--------------------------- MODULE CameraDetector ---------------------------
(***************************************************************************)
(* CameraDetector.Capabilities (internal/service/cameras.go): ffmpeg is    *)
(* asked, once or several times, what a camera can deliver, and one mode   *)
(* is recommended for the configuration.  On Windows and Linux the answer  *)
(* is a list of lines; on macOS ffmpeg names its pixel formats when it is  *)
(* asked for an absurd one, and its modes when asked for an absurd size.   *)
(***************************************************************************)
EXTENDS Integers, Sequences, SequencesExt

CONSTANTS
    Platform,       \* those to be looked at: "darwin", "windows", "linux"
    FormatList,     \* lists of pixel formats that ffmpeg reports at once
    Codec,          \* codecs that it reports
    Size,           \* frame sizes with frame rates: records of width, height and fps
    Request,        \* what clients prefer: records of format and codec, "" for none
    MaxLines        \* bound: lines of a report

\* No format, no codec.
Unset == ""

ASSUME DetectorAssumption ==
    /\ Platform \subseteq {"darwin", "windows", "linux"} /\ MaxLines \in Nat
    /\ Codec \subseteq STRING \ {Unset}
    /\ Size \subseteq [width : Nat, height : Nat, fps : Nat]
    /\ \A l \in FormatList : l \in Seq(STRING \ {Unset}) /\ IsInjective(l)
    /\ Request \subseteq [format : STRING, codec : STRING]

VARIABLES
    platform, requested,
    at,             \* where Capabilities is
    candidates,     \* formats still to be probed with
    formats, codecs, modes, recommended,    \* of its result
    lines,          \* the lines of ffmpeg's report that were parsed
    failed          \* probeErr: did the last run of ffmpeg report an error?

detectorVars == <<platform, requested, at, candidates, formats, codecs, modes,
                  recommended, lines, failed>>

Format == UNION {ToSet(l) : l \in FormatList}
mode(format, codec, size) == [format |-> format, codec |-> codec, size |-> size]
NoMode == mode(Unset, Unset, [width |-> 0, height |-> 0, fps |-> 0])

DetectorInit ==
    /\ platform \in Platform /\ requested \in Request
    /\ at = IF platform = "darwin" THEN "formats" ELSE "lines"
    /\ candidates = <<>> /\ formats = <<>> /\ codecs = <<>> /\ modes = <<>>
    /\ recommended = NoMode /\ lines = 0 /\ failed = FALSE

appendUnique(values, value) ==
    IF Contains(values, value) THEN values ELSE Append(values, value)
appendUniqueString(values, value) ==
    IF value = Unset THEN values ELSE appendUnique(values, value)
appendAll(values, more) == FoldLeft(appendUniqueString, values, more)
formatsOf(someModes) == [k \in DOMAIN someModes |-> someModes[k].format]
codecsOf(someModes) == [k \in DOMAIN someModes |-> someModes[k].codec]

----------------------------------------------------------------------------
\* macOS

Common == <<"nv12", "yuyv422", "uyvy422", "bgr0", "0rgb">>

recommendedPixelFormat(found) ==
    LET i == SelectInSeq(Common, LAMBDA f : Contains(found, f))
    IN  IF i # 0 THEN Common[i] ELSE IF found # <<>> THEN found[1] ELSE Unset

avFoundationProbeFormats(format, detected) ==
    IF format # Unset THEN <<format>>
    ELSE IF detected = <<>> THEN <<"nv12", "uyvy422", "yuyv422", "bgr0", "0rgb">>
    ELSE appendAll(<<recommendedPixelFormat(detected)>>, detected)

ListFormats ==
    /\ at = "formats" /\ at' = "probe"
    /\ \E found \in FormatList :
        \/ formats' = found
        \/ found = <<>> /\ formats' = <<"monob">>   \* the absurd format was accepted
    /\ candidates' = avFoundationProbeFormats(requested.format, formats')
    /\ UNCHANGED <<platform, requested, codecs, modes, recommended, lines, failed>>

\* A run that starts the camera after all shows the mode of its stream.
Stream == {<<>>} \cup {<<mode(f, Unset, s)>> : f \in Format \cup {Unset}, s \in Size}

SizeList == {<<>>} \cup {<<s>> : s \in Size} \cup {<<s, t>> : s \in Size, t \in Size}

ProbeFormat ==
    /\ at = "probe"
    /\ \E found \in FormatList, sizes \in SizeList, stream \in Stream :
        LET listed == FoldLeft(appendUnique, <<>>,
                        [k \in DOMAIN sizes |-> mode(Head(candidates), Unset, sizes[k])])
            shown == IF listed = <<>> THEN stream ELSE <<>>
        IN  /\ stream = shown
            /\ modes' = listed \o shown
            /\ formats' = appendAll(formats, found \o formatsOf(shown))
    /\ candidates' = Tail(candidates)
    /\ at' = IF modes' # <<>> THEN "recommend"
             ELSE IF candidates' # <<>> THEN "probe" ELSE "default"
    /\ failed' \in BOOLEAN
    /\ UNCHANGED <<platform, requested, codecs, recommended, lines>>

ProbeDefault ==
    /\ at = "default" /\ at' = "recommend"
    /\ modes' \in Stream
    /\ formats' = appendAll(formats, formatsOf(modes'))
    /\ failed' \in BOOLEAN
    /\ UNCHANGED <<platform, requested, codecs, candidates, recommended, lines>>

----------------------------------------------------------------------------
\* Windows and Linux: one line of the report each

\* Least and largest size, each at the least and the largest rate.
DirectShowLine ==
    /\ at = "lines" /\ platform = "windows" /\ lines < MaxLines
    /\ \E input \in {<<f, Unset>> : f \in Format} \cup {<<Unset, c>> : c \in Codec},
         least \in Size, most \in Size :
        /\ formats' = appendUniqueString(formats, input[1])
        /\ codecs' = appendUniqueString(codecs, input[2])
        /\ modes' = FoldLeft(appendUnique, modes,
                       [k \in 1..4 |-> mode(input[1], input[2],
                           [IF k \in {1, 2} THEN least ELSE most
                             EXCEPT !.fps = IF k \in {1, 3} THEN least.fps ELSE most.fps])])
    /\ lines' = lines + 1
    /\ UNCHANGED <<platform, requested, at, candidates, recommended, failed>>

\* A raw format with its sizes; rates are not reported.
V4L2Line ==
    /\ at = "lines" /\ platform = "linux" /\ lines < MaxLines
    /\ \E f \in Format, sizes \in SizeList :
        /\ formats' = appendUniqueString(formats, f)
        /\ modes' = FoldLeft(appendUnique, modes,
                       [k \in DOMAIN sizes |-> mode(f, Unset, [sizes[k] EXCEPT !.fps = 0])])
    /\ lines' = lines + 1
    /\ UNCHANGED <<platform, requested, at, candidates, codecs, recommended, failed>>

EndOfReport ==
    /\ at = "lines" /\ at' = "recommend"
    /\ failed' \in BOOLEAN
    /\ UNCHANGED <<platform, requested, candidates, formats, codecs, modes, recommended,
                   lines>>

----------------------------------------------------------------------------

distance(a, b) == IF a < b THEN b - a ELSE a - b

\* Codecs that differ in case only are one value: the code compares with EqualFold.
score(m) ==
    distance(m.size.width, 1280) * 2 + distance(m.size.height, 720) * 3
    + distance(m.size.fps, 30) * 20 + (IF m.size.fps = 0 THEN 1000 ELSE 0)
    - (IF m.codec = "mjpeg" THEN 1 ELSE 0)

\* Slip: of two equally good modes the later one is taken.
betterOrEqual(m, n) == score(m) <= score(n)

better(m, n) == score(m) < score(n)

\* The loop over the modes, and what is recommended without a mode.
recommendCameraMode(format, codec, someFormats, someCodecs) ==
    LET wanted(m) == format \in {Unset, m.format} /\ codec \in {Unset, m.codec}
        best[k \in 0..Len(modes)] ==    \* the place of the best of the first k, or 0
            IF k = 0 THEN 0
            ELSE IF /\ wanted(modes[k])
                    /\ best[k - 1] # 0 => better(modes[k], modes[best[k - 1]])
                 THEN k ELSE best[k - 1]
        found == best[Len(modes)]
    IN  IF found # 0 THEN modes[found]
        ELSE IF format # Unset \/ codec # Unset THEN mode(format, codec, NoMode.size)
        ELSE IF someCodecs # <<>> THEN mode(Unset, someCodecs[1], NoMode.size)
        ELSE mode(recommendedPixelFormat(someFormats), Unset, NoMode.size)

Recommend ==
    /\ at = "recommend"
    /\ ~(formats = <<>> /\ modes = <<>> /\ failed)
    /\ formats' = IF formats = <<>> THEN appendAll(<<>>, formatsOf(modes)) ELSE formats
    /\ codecs' = IF codecs = <<>> THEN appendAll(<<>>, codecsOf(modes)) ELSE codecs
    /\ LET ifOffered(input, known) == IF Contains(known, input) THEN input ELSE Unset
       IN  recommended' = recommendCameraMode(
               ifOffered(requested.format, formats' \o formatsOf(modes)),
               ifOffered(requested.codec, codecs' \o codecsOf(modes)), formats', codecs')
    /\ at' = "answered"
    /\ UNCHANGED <<platform, requested, candidates, modes, lines, failed>>

\* Nothing was found, and ffmpeg had failed; or ten seconds have passed.
GiveUp ==
    /\ \/ at = "recommend" /\ formats = <<>> /\ modes = <<>> /\ failed
       \/ at \in {"formats", "probe", "default", "lines", "recommend"}
    /\ at' = "failed"
    /\ UNCHANGED <<platform, requested, candidates, formats, codecs, modes, recommended,
                   lines, failed>>

DetectorStep ==
    \/ ListFormats \/ ProbeFormat \/ ProbeDefault
    \/ DirectShowLine \/ V4L2Line \/ EndOfReport
    \/ Recommend \/ GiveUp

DetectorSpec == DetectorInit /\ [][DetectorStep]_detectorVars

----------------------------------------------------------------------------

\* The recommendation is one the camera has reported, keeps the input the client asked
\* for if that was reported, and among the modes with this input no other is nearer to
\* 1280x720 at 30 frames a second, nor equally near and reported earlier
\* (cameras.go:162-170, 336-377).
RecommendationIsBest ==
    at = "answered" =>
        LET inputs == ToSet(formats \o formatsOf(modes)) \cup {Unset}
            coded == ToSet(codecs \o codecsOf(modes)) \cup {Unset}
            asked == {f \in inputs : f = requested.format} \ {Unset}
            askedCodec == {c \in coded : c = requested.codec} \ {Unset}
            fits == {i \in DOMAIN modes : /\ asked \subseteq {modes[i].format}
                                          /\ askedCodec \subseteq {modes[i].codec}}
        IN  /\ recommended.format \in inputs /\ recommended.codec \in coded
            /\ asked \subseteq {recommended.format}
            /\ askedCodec \subseteq {recommended.codec}
            /\ fits # {} =>
                 \E i \in fits :
                    /\ recommended = modes[i]
                    /\ \A j \in fits :
                        /\ score(modes[i]) <= score(modes[j])
                        /\ j < i => score(modes[i]) < score(modes[j])
=============================================================================

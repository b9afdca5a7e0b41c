------------------------------ MODULE GpuLibs ------------------------------
(***************************************************************************)
(* The EGL and GLES libraries of one process.  Two pieces of code load     *)
(* them with dlopen, which counts references: gpu/qnx/gpu_qnx.cc, called   *)
(* on the main thread, keeps the handles and the entry points it resolved  *)
(* in statics and gives its references back; QnxScreenGLOzoneEGL, called   *)
(* on the GL thread, hands its handles to Chromium's GL bindings for good. *)
(* A function of gpu_qnx is a walk through the calls it makes.             *)
(***************************************************************************)
EXTENDS Naturals

CONSTANT MaxRefs   \* bound: references taken to a library

Libs == {"screen", "egl", "gles"}

\* Entry points by what the code does with a missing one: it gives up, it gives
\* up the probe, or it goes without.  eglTerminate is never called, and
\* glGetIntegerv only where glGetString is.
Critical == {"eglGetDisplay", "eglInitialize", "eglChooseConfig"}
ForProbe == {"eglCreatePbufferSurface", "eglCreateContext", "eglMakeCurrent"}
Optional == {"eglBindAPI", "eglGetError", "glGetString"}
Entries == Critical \cup ForProbe \cup Optional

LibOf(e) == IF e = "glGetString" THEN "gles" ELSE "egl"

VARIABLES
  exports,   \* the entry points the driver has
  refs,      \* refs[l]: references to library l in this process
  handles,   \* g_screen_lib, g_egl_lib, g_gles2_lib that are not NULL
  loaded,    \* the entry points whose pfn_ is not NULL
  context,   \* g_screen_ctx of gpu_qnx
  op,        \* the function of gpu_qnx that is running
  pc,        \* the next call it makes
  glStep,    \* how far LoadGLES2Bindings is
  glScreen   \* g_screen_lib, g_screen_ctx of the GL thread: "none", "lib", "context"

gpuVars == <<handles, loaded, context, op, pc>>
glVars == <<glStep, glScreen>>
vars == <<exports, refs, gpuVars, glVars>>

Functions == {"InitializeGpuLibraries", "InitializeEglDisplay", "WarmUpEglEarly",
              "ProbeGpuContext", "PrintGpuInfo"}

Init ==
  /\ exports \in SUBSET Entries
  /\ refs = [l \in Libs |-> 0]
  /\ handles = {} /\ loaded = {} /\ context = FALSE
  /\ op = "none" /\ pc = "idle"
  /\ glStep = "start" /\ glScreen = "none"

Opens(l) == refs[l] < MaxRefs /\ refs' = [refs EXCEPT ![l] = @ + 1]

Goto(l) == pc' = l /\ UNCHANGED op
Return == pc' = "idle" /\ op' = "none"
-----------------------------------------------------------------------------
(* gpu_qnx, on the main thread. *)

\* A function is called, and checks the entry points it needs.
Call(f) ==
  /\ pc = "idle"
  /\ \/ /\ f = "InitializeGpuLibraries"
        /\ op' = f /\ pc' = "openEgl"
     \/ /\ f \in {"InitializeEglDisplay", "WarmUpEglEarly"}
        /\ op' = f /\ pc' = IF Critical \subseteq loaded THEN "context" ELSE "openEgl"
     \/ /\ f = "ProbeGpuContext" /\ Critical \cup ForProbe \subseteq loaded
        /\ op' = f /\ pc' = "context"
     \/ /\ f = "PrintGpuInfo" /\ "glGetString" \in loaded
        /\ op' = f /\ pc' = "info"
  /\ UNCHANGED <<exports, refs, handles, loaded, context, glVars>>

OpenEgl ==
  /\ pc = "openEgl"
  /\ \/ Opens("egl") /\ handles' = handles \cup {"egl"} /\ Goto("openGles")
     \/ handles' = handles \ {"egl"} /\ Return /\ UNCHANGED refs
  /\ UNCHANGED <<exports, loaded, context, glVars>>

\* Faulty variant: g_egl_lib is closed but not reset.
OpenGlesKeepingHandle ==
  /\ pc = "openGles"
  /\ \/ Opens("gles") /\ handles' = handles \cup {"gles"} /\ Goto("resolve")
     \/ /\ handles' = handles \ {"gles"}
        /\ refs' = [refs EXCEPT !["egl"] = @ - 1]
        /\ Return
  /\ UNCHANGED <<exports, loaded, context, glVars>>

\* Without libGLESv2 the reference to libEGL is given back.
OpenGles ==
  /\ pc = "openGles"
  /\ \/ Opens("gles") /\ handles' = handles \cup {"gles"} /\ Goto("resolve")
     \/ /\ handles' = handles \ {"egl", "gles"}
        /\ refs' = [refs EXCEPT !["egl"] = @ - 1]
        /\ Return
  /\ UNCHANGED <<exports, loaded, context, glVars>>

\* Faulty variant: the pointers that decide on a new initialisation are kept.
ReleaseKeepingPointers(resolved) ==
  /\ loaded' = resolved
  /\ refs' = [l \in Libs |-> IF l \in handles \ {"screen"} THEN refs[l] - 1 ELSE refs[l]]
  /\ handles' = handles \cap {"screen"}

\* Faulty variant: the handles are not reset.
ReleaseKeepingHandles(resolved) ==
  /\ loaded' = resolved \ (Critical \cup {"glGetString"})
  /\ refs' = [l \in Libs |-> IF l \in handles \ {"screen"} THEN refs[l] - 1 ELSE refs[l]]
  /\ UNCHANGED handles

\* ShutdownGpu: the libraries are closed, most pointers reset.
Release(resolved) ==
  /\ loaded' = resolved \ (Critical \cup {"glGetString"})
  /\ refs' = [l \in Libs |-> IF l \in handles \ {"screen"} THEN refs[l] - 1 ELSE refs[l]]
  /\ handles' = handles \cap {"screen"}

\* dlsym of every entry point; without the critical ones all is shut down.
Resolve ==
  /\ pc = "resolve"
  /\ IF Critical \subseteq exports
     THEN /\ loaded' = exports
          /\ IF op = "InitializeGpuLibraries" THEN Return ELSE Goto("context")
          /\ UNCHANGED <<refs, handles>>
     ELSE Release(exports) /\ Return
  /\ UNCHANGED <<exports, context, glVars>>

\* EnsureScreenContext loads libscreen again until a context was created.
EnsureScreenContext ==
  /\ pc = "context"
  /\ \/ /\ context
        /\ Goto("eglGetDisplay")
        /\ UNCHANGED <<refs, handles, context>>
     \/ /\ ~context /\ Opens("screen") /\ handles' = handles \cup {"screen"}
        /\ \/ context' = TRUE /\ Goto("eglGetDisplay")
           \/ context' = FALSE /\ Return
     \/ /\ ~context /\ handles' = handles \ {"screen"} /\ Return
        /\ UNCHANGED <<refs, context>>
  /\ UNCHANGED <<exports, loaded, glVars>>

\* What follows each call into EGL if it succeeds.
After(l) ==
  CASE l = "eglGetDisplay" -> "eglInitialize"
    [] l = "eglInitialize" -> "eglChooseConfig"
    [] l = "eglChooseConfig" -> IF op = "ProbeGpuContext" THEN "eglCreatePbufferSurface" ELSE "idle"
    [] l = "eglCreatePbufferSurface" -> "eglCreateContext"
    [] l = "eglCreateContext" -> "eglMakeCurrent"
    [] l = "eglMakeCurrent" -> IF "glGetString" \in loaded THEN "info" ELSE "idle"

\* A call that fails ends the function; nothing made before is given back.
CallEgl ==
  /\ pc \in Critical \cup ForProbe
  /\ \/ After(pc) # "idle" /\ Goto(After(pc))
     \/ Return
  /\ UNCHANGED <<exports, refs, handles, loaded, context, glVars>>

\* PrintGpuInfo
PrintInfo ==
  /\ pc = "info"
  /\ Return
  /\ UNCHANGED <<exports, refs, handles, loaded, context, glVars>>

ShutdownGpu ==
  /\ pc = "idle"
  /\ Release(loaded)
  /\ UNCHANGED <<exports, context, op, pc, glVars>>
-----------------------------------------------------------------------------
(* QnxScreenGLOzoneEGL, on the GL thread. *)

\* EnsureScreenContext there keeps the handle of a library that gave no context.
GlScreenContext ==
  /\ glScreen # "context"
  /\ \/ /\ IF glScreen = "none" THEN Opens("screen") ELSE UNCHANGED refs
        /\ glScreen' \in {"lib", "context"}
     \/ glScreen = "none" /\ UNCHANGED <<refs, glScreen>>

\* LoadGLES2Bindings and GetNativeDisplay go on without a context.
GlThreadStarts ==
  /\ glStep = "start"
  /\ GlScreenContext
  /\ glStep' = "egl"
  /\ UNCHANGED <<exports, gpuVars>>

GetNativeDisplay ==
  /\ glStep = "bound"
  /\ GlScreenContext
  /\ UNCHANGED <<exports, gpuVars, glStep>>

LoadEgl ==
  /\ glStep = "egl"
  /\ \/ Opens("egl") /\ glStep' = "gles"
     \/ glStep' = "failed" /\ UNCHANGED refs
  /\ UNCHANGED <<exports, gpuVars, glScreen>>

\* Failing here leaves the reference to libEGL behind.
LoadGles ==
  /\ glStep = "gles"
  /\ \/ Opens("gles") /\ glStep' \in {"bound", "failed"}
     \/ glStep' = "failed" /\ UNCHANGED refs
  /\ UNCHANGED <<exports, gpuVars, glScreen>>
-----------------------------------------------------------------------------
Next ==
  \/ \E f \in Functions : Call(f)
  \/ OpenEgl \/ OpenGles \/ Resolve \/ EnsureScreenContext \/ CallEgl \/ PrintInfo
  \/ ShutdownGpu
  \/ GlThreadStarts \/ GetNativeDisplay \/ LoadEgl \/ LoadGles

Spec == Init /\ [][Next]_vars
-----------------------------------------------------------------------------
TypeOK ==
  /\ exports \subseteq Entries
  /\ refs \in [Libs -> Nat]
  /\ handles \subseteq Libs /\ loaded \subseteq exports
  /\ context \in BOOLEAN
  /\ op \in Functions \cup {"none"}
  /\ pc \in {"idle", "openEgl", "openGles", "resolve", "context", "info"} \cup Critical \cup ForProbe
  /\ glStep \in {"start", "egl", "gles", "bound", "failed"}
  /\ glScreen \in {"none", "lib", "context"}

\* The entry points the next call goes to: the one the program counter names,
\* and the optional ones around it if their pointers are set.
Called ==
  CASE pc = "info" -> {"glGetString"}
    [] pc \in Critical \cup ForProbe -> {pc} \cup (loaded \cap {"eglBindAPI", "eglGetError"})
    [] OTHER -> {}

\* No call goes through a null pointer or into a library that is not mapped,
\* and none asks for a display before the process is connected to Screen,
\* after any sequence of initialisations, failures and shutdowns (gpu_qnx.cc).
NoWildCall ==
  /\ Called \subseteq loaded
  /\ \A e \in Called : refs[LibOf(e)] > 0
  /\ pc \in Critical \cup ForProbe => context

\* libGLESv2 is never mapped without libEGL, whose internals it uses, and what
\* gpu_qnx opens and closes never unmaps the libraries that Chromium's GL
\* bindings were loaded from (InitializeGpuLibraries, LoadGLES2Bindings).
BindingsStayMapped ==
  /\ refs["gles"] > 0 => refs["egl"] > 0
  /\ glStep = "bound" => refs["gles"] > 0
=============================================================================

--------------------------- MODULE GpuLibs_proofs ---------------------------
(***************************************************************************)
(* gpu_qnx keeps no count of its own: the proofs compare the references    *)
(* dlopen has counted with what the handles, the pointers and the GL       *)
(* thread rely on.                                                         *)
(***************************************************************************)
EXTENDS GpuLibs, TLAPS

Calling == Critical \cup ForProbe

\* The pointers that are reset by ShutdownGpu.
Deciding == Critical \cup {"glGetString"}

\* A function that has passed its checks has the entry points it goes on to call.
Checked ==
  /\ pc = "idle" => op = "none"
  /\ pc \in {"openEgl", "openGles", "resolve"} => op # "ProbeGpuContext"
  /\ op = "ProbeGpuContext" => Calling \subseteq loaded
  /\ pc \in {"context"} \cup Calling => Critical \subseteq loaded
  /\ pc \in ForProbe => op = "ProbeGpuContext"
  /\ pc = "info" => "glGetString" \in loaded
  /\ pc \in Calling => context

\* A handle of libGLESv2, or a pointer that decides, stands for a reference
\* which the GL thread's own comes on top of.
Owned ==
  /\ pc = "resolve" => "gles" \in handles
  /\ pc # "openGles" /\ "egl" \in handles => "gles" \in handles
  /\ "gles" \in handles \/ (\E e \in Deciding : e \in loaded) =>
       /\ refs["gles"] >= 1
       /\ glStep = "bound" => refs["gles"] >= 2
  /\ glStep = "bound" => refs["gles"] >= 1

\* libEGL has at least as many references as libGLESv2, and one more for each
\* thread that is about to open the latter.
Balanced ==
  /\ refs["egl"] >= refs["gles"]
  /\ pc = "openGles" => refs["egl"] >= refs["gles"] + 1
  /\ glStep = "gles" => refs["egl"] >= refs["gles"] + 1
  /\ pc = "openGles" /\ glStep = "gles" => refs["egl"] >= refs["gles"] + 2

IInv == TypeOK /\ Checked /\ Owned /\ Balanced

LEMMA InitHolds == Init => IInv
<1> SUFFICES ASSUME Init PROVE IInv
  OBVIOUS
<1>1. refs \in [Libs -> Nat] /\ refs["egl"] = 0 /\ refs["gles"] = 0
  BY DEF Init, Libs
<1>2. TypeOK
  BY <1>1 DEF Init, TypeOK
<1>3. Checked
  BY DEF Init, Checked, Calling, Critical, ForProbe
<1>4. Owned /\ Balanced
  BY <1>1 DEF Init, Owned, Balanced
<1> QED
  BY <1>2, <1>3, <1>4 DEF IInv

LEMMA OpensOne ==
  ASSUME TypeOK, NEW l \in Libs, Opens(l)
  PROVE  /\ refs' \in [Libs -> Nat]
         /\ refs'[l] = refs[l] + 1
         /\ \A m \in Libs \ {l} : refs'[m] = refs[m]
  BY DEF TypeOK, Opens

\* A library that gpu_qnx holds a handle of is referenced.
LEMMA HeldIsReferenced ==
  ASSUME IInv, NEW l \in handles \ {"screen"} PROVE refs[l] \in Nat \ {0}
<1>1. refs["egl"] \in Nat /\ refs["gles"] \in Nat /\ l \in {"egl", "gles"}
  BY DEF IInv, TypeOK, Libs
<1>2. l = "gles" => refs["gles"] >= 1
  BY DEF IInv, Owned
<1>3. l = "egl" => refs["egl"] >= 1
  BY <1>1 DEF IInv, Owned, Balanced
<1> QED
  BY <1>1, <1>2, <1>3

\* What ShutdownGpu leaves, outside an initialisation that has no libGLESv2 yet.
LEMMA ReleaseKeeps ==
  ASSUME IInv, pc # "openGles", NEW resolved \in SUBSET exports, Release(resolved),
         UNCHANGED glVars
  PROVE  /\ refs' \in [Libs -> Nat]
         /\ handles' \subseteq {"screen"}
         /\ \A e \in Deciding : e \notin loaded'
         /\ loaded' \subseteq exports
         /\ refs'["egl"] >= refs'["gles"]
         /\ glStep = "gles" => refs'["egl"] >= refs'["gles"] + 1
         /\ glStep = "bound" => refs'["gles"] >= 1
<1> DEFINE held == handles \ {"screen"}
<1>1. refs' = [l \in Libs |-> IF l \in held THEN refs[l] - 1 ELSE refs[l]]
  BY DEF Release
<1>2. \A l \in Libs : refs[l] \in Nat /\ (l \in held => refs[l] - 1 \in Nat)
  BY HeldIsReferenced DEF IInv, TypeOK
<1>3. refs' \in [Libs -> Nat]
  BY <1>1, <1>2
<1>4. handles' \subseteq {"screen"} /\ loaded' \subseteq exports
      /\ (\A e \in Deciding : e \notin loaded')
  BY DEF Release, Deciding
<1>5. /\ refs'["egl"] = IF "egl" \in handles THEN refs["egl"] - 1 ELSE refs["egl"]
      /\ refs'["gles"] = IF "gles" \in handles THEN refs["gles"] - 1 ELSE refs["gles"]
      /\ refs["egl"] \in Nat /\ refs["gles"] \in Nat
  BY <1>1, <1>2 DEF Libs
<1>6. refs["egl"] >= refs["gles"] /\ (glStep = "gles" => refs["egl"] >= refs["gles"] + 1)
  BY DEF IInv, Balanced
<1>7. /\ "egl" \in handles => "gles" \in handles
      /\ glStep = "bound" => refs["gles"] >= 1
      /\ "gles" \in handles => (glStep = "bound" => refs["gles"] >= 2)
  BY DEF IInv, Owned
<1> HIDE DEF held
<1> QED
  BY <1>3, <1>4, <1>5, <1>6, <1>7

LEMMA StepKeeps == ASSUME IInv, [Next]_vars PROVE IInv'
<1> USE DEF IInv
<1>1. ASSUME NEW f \in Functions, Call(f) PROVE IInv'
  <2>1. TypeOK'
    BY <1>1 DEF Call, TypeOK, Functions, glVars
  <2>2. Checked'
    BY <1>1 DEF Call, Checked, Calling, Critical, ForProbe, Functions
  <2>3. Owned'
    BY <1>1 DEF Call, Owned, glVars
  <2>4. Balanced'
    BY <1>1 DEF Call, Balanced, glVars
  <2> QED
    BY <2>1, <2>2, <2>3, <2>4
<1>2. CASE OpenEgl
  <2>1. TypeOK'
    BY <1>2, OpensOne DEF OpenEgl, TypeOK, Goto, Return, glVars, Libs
  <2>2. Checked'
    BY <1>2 DEF OpenEgl, Checked, Goto, Return, Calling, Critical, ForProbe
  <2>3. Owned'
    BY <1>2, OpensOne DEF OpenEgl, Owned, Goto, Return, glVars, Libs
  <2>4. Balanced'
    BY <1>2, OpensOne DEF OpenEgl, Balanced, TypeOK, Goto, Return, glVars, Libs
  <2> QED
    BY <2>1, <2>2, <2>3, <2>4
<1>3. CASE OpenGles
  <2>0. refs["gles"] \in Nat /\ refs["egl"] \in Nat /\ refs["egl"] >= refs["gles"] + 1
    BY <1>3 DEF OpenGles, TypeOK, Balanced, Libs
  <2>1. TypeOK'
    <3>1. refs["egl"] - 1 \in Nat
      BY <2>0
    <3>2. refs' \in [Libs -> Nat]
      BY <1>3, <3>1, OpensOne DEF OpenGles, TypeOK, Libs
    <3> QED
      BY <1>3, <3>2 DEF OpenGles, TypeOK, Goto, Return, glVars, Libs
  <2>2. Checked'
    BY <1>3 DEF OpenGles, Checked, Goto, Return, Calling, Critical, ForProbe
  <2>3. Owned'
    BY <1>3, OpensOne DEF OpenGles, Owned, TypeOK, Goto, Return, glVars, Libs
  <2>4. Balanced'
    BY <1>3, OpensOne DEF OpenGles, Balanced, TypeOK, Goto, Return, glVars, Libs
  <2> QED
    BY <2>1, <2>2, <2>3, <2>4
<1>4. CASE Resolve
  <2>1. TypeOK'
    <3>1. /\ refs' \in [Libs -> Nat] /\ handles' \subseteq Libs /\ loaded' \subseteq exports
          /\ exports' = exports
      BY <1>4, ReleaseKeeps DEF Resolve, TypeOK, glVars, Libs
    <3>2. pc' \in {"idle", "context"} /\ op' \in {"none", op}
      BY <1>4 DEF Resolve, Goto, Return
    <3> QED
      BY <1>4, <3>1, <3>2 DEF Resolve, TypeOK, glVars
  <2>2. Checked'
    <3>1. CASE Return
      BY <1>4, <3>1 DEF Resolve, Return, Checked, Calling, Critical, ForProbe
    <3>2. CASE Goto("context") /\ Critical \subseteq exports /\ loaded' = exports
      <4>1. pc' = "context" /\ op' = op /\ op # "ProbeGpuContext" /\ Critical \subseteq loaded'
        BY <1>4, <3>2 DEF Resolve, Goto, Checked
      <4> QED
        BY <4>1 DEF Checked, Calling, Critical, ForProbe
    <3> QED
      BY <1>4, <3>1, <3>2 DEF Resolve
  <2>3. Owned'
    BY <1>4, ReleaseKeeps DEF Resolve, Owned, Goto, Return, glVars
  <2>4. Balanced'
    BY <1>4, ReleaseKeeps DEF Resolve, Balanced, Goto, Return, glVars
  <2> QED
    BY <2>1, <2>2, <2>3, <2>4
<1>5. CASE EnsureScreenContext
  <2>0. /\ refs' \in [Libs -> Nat] /\ refs'["egl"] = refs["egl"] /\ refs'["gles"] = refs["gles"]
        /\ handles' \subseteq Libs
        /\ ("egl" \in handles' <=> "egl" \in handles) /\ ("gles" \in handles' <=> "gles" \in handles)
    BY <1>5, OpensOne DEF EnsureScreenContext, TypeOK, Libs
  <2>1. TypeOK'
    BY <1>5, <2>0 DEF EnsureScreenContext, TypeOK, Goto, Return, glVars, Critical
  <2>2. Checked'
    BY <1>5 DEF EnsureScreenContext, Checked, Goto, Return, Calling, Critical, ForProbe
  <2>3. Owned'
    BY <1>5, <2>0 DEF EnsureScreenContext, Owned, Goto, Return, glVars
  <2>4. Balanced'
    BY <1>5, <2>0 DEF EnsureScreenContext, Balanced, Goto, Return, glVars
  <2> QED
    BY <2>1, <2>2, <2>3, <2>4
<1>6. CASE CallEgl
  <2>0. After(pc) \in {"idle", "info"} \cup Calling
    BY <1>6 DEF CallEgl, After, Calling, Critical, ForProbe
  <2>1. TypeOK'
    BY <1>6, <2>0 DEF CallEgl, TypeOK, Goto, Return, glVars, Calling
  <2>2. Checked'
    BY <1>6 DEF CallEgl, Checked, Goto, Return, After, Calling, Critical, ForProbe
  <2>3. Owned'
    BY <1>6, <2>0 DEF CallEgl, Owned, Goto, Return, glVars, Calling, Critical, ForProbe
  <2>4. Balanced'
    BY <1>6, <2>0 DEF CallEgl, Balanced, Goto, Return, glVars, Calling, Critical, ForProbe
  <2> QED
    BY <2>1, <2>2, <2>3, <2>4
<1>7. CASE PrintInfo
  BY <1>7 DEF PrintInfo, TypeOK, Checked, Owned, Balanced, Return, glVars, Calling, Critical,
              ForProbe
<1>8. CASE ShutdownGpu
  <2>0. pc = "idle" /\ op = "none" /\ loaded \in SUBSET exports
    BY <1>8 DEF ShutdownGpu, Checked, TypeOK
  <2>1. TypeOK'
    BY <1>8, <2>0, ReleaseKeeps DEF ShutdownGpu, TypeOK, glVars, Libs
  <2>2. Checked'
    BY <1>8, <2>0 DEF ShutdownGpu, Checked, Calling, Critical, ForProbe
  <2>3. Owned'
    BY <1>8, <2>0, ReleaseKeeps DEF ShutdownGpu, Owned, glVars
  <2>4. Balanced'
    BY <1>8, <2>0, ReleaseKeeps DEF ShutdownGpu, Balanced, glVars
  <2> QED
    BY <2>1, <2>2, <2>3, <2>4
<1>9. CASE GlThreadStarts \/ GetNativeDisplay
  <2>0. /\ refs' \in [Libs -> Nat] /\ refs'["egl"] = refs["egl"] /\ refs'["gles"] = refs["gles"]
        /\ glScreen' \in {"none", "lib", "context"}
        /\ glStep' \in {"egl", "bound"} /\ (glStep' = "bound" => glStep = "bound")
        /\ UNCHANGED <<exports, handles, loaded, context, op, pc>>
    BY <1>9, OpensOne DEF GlThreadStarts, GetNativeDisplay, GlScreenContext, TypeOK, gpuVars, Libs
  <2>1. TypeOK'
    BY <2>0 DEF TypeOK
  <2>2. Checked'
    BY <2>0 DEF Checked
  <2>3. Owned'
    BY <2>0 DEF Owned
  <2>4. Balanced'
    BY <2>0 DEF Balanced
  <2> QED
    BY <2>1, <2>2, <2>3, <2>4
<1>10. CASE LoadEgl
  <2>1. TypeOK'
    BY <1>10, OpensOne DEF LoadEgl, TypeOK, gpuVars, Libs
  <2>2. Checked'
    BY <1>10 DEF LoadEgl, Checked, gpuVars
  <2>3. Owned'
    BY <1>10, OpensOne DEF LoadEgl, Owned, gpuVars, Libs
  <2>4. Balanced'
    BY <1>10, OpensOne DEF LoadEgl, Balanced, TypeOK, gpuVars, Libs
  <2> QED
    BY <2>1, <2>2, <2>3, <2>4
<1>11. CASE LoadGles
  <2>1. TypeOK'
    BY <1>11, OpensOne DEF LoadGles, TypeOK, gpuVars, Libs
  <2>2. Checked'
    BY <1>11 DEF LoadGles, Checked, gpuVars
  <2>3. Owned'
    BY <1>11, OpensOne DEF LoadGles, Owned, TypeOK, gpuVars, Libs
  <2>4. Balanced'
    BY <1>11, OpensOne DEF LoadGles, Balanced, TypeOK, gpuVars, Libs
  <2> QED
    BY <2>1, <2>2, <2>3, <2>4
<1>12. CASE UNCHANGED vars
  BY <1>12 DEF vars, gpuVars, glVars, TypeOK, Checked, Owned, Balanced
<1> QED
  BY <1>1, <1>2, <1>3, <1>4, <1>5, <1>6, <1>7, <1>8, <1>9, <1>10, <1>11, <1>12 DEF Next

LEMMA AlwaysIInv == Spec => []IInv
  BY InitHolds, StepKeeps, PTL DEF Spec

\* No call of gpu_qnx.cc goes through a null pointer, into a library that is
\* not mapped or to a display without Screen, however often the libraries are
\* loaded, shut down and loaded by the GL thread.
THEOREM CallsGoSomewhere == Spec => []NoWildCall
<1>1. ASSUME IInv PROVE NoWildCall
  <2> USE <1>1 DEF IInv
  <2>1. Called \subseteq loaded
    BY DEF Checked, Called, Calling, Critical, ForProbe
  <2>2. Called # {} => \E e \in Deciding : e \in loaded
    BY DEF Checked, Called, Calling, Critical, ForProbe, Deciding
  <2>3. Called # {} => refs["gles"] > 0 /\ refs["egl"] > 0
    BY <2>2 DEF Owned, Balanced, TypeOK, Libs
  <2>4. \A e \in Called : LibOf(e) \in {"egl", "gles"}
    BY DEF LibOf
  <2> QED
    BY <2>1, <2>3, <2>4 DEF NoWildCall, Checked, Calling
<1> QED
  BY <1>1, AlwaysIInv, PTL

\* libGLESv2 is never mapped without libEGL, and the libraries of Chromium's GL
\* bindings stay mapped, whatever gpu_qnx.cc opens and closes.
THEOREM BindingsKept == Spec => []BindingsStayMapped
<1>1. ASSUME IInv PROVE BindingsStayMapped
  <2>1. refs["egl"] \in Nat /\ refs["gles"] \in Nat
    BY <1>1 DEF IInv, TypeOK, Libs
  <2> QED
    BY <1>1, <2>1 DEF IInv, Owned, Balanced, BindingsStayMapped
<1> QED
  BY <1>1, AlwaysIInv, PTL
=============================================================================

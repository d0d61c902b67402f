-------------------------- MODULE ProductTheorems ----------------------------
(***************************************************************************)
(* What holds of items and products on their way between master and        *)
(* workers, for any jobs, wherever they die and whatever fails.            *)
(***************************************************************************)
EXTENDS ProductInvariant, TLAPS

(***************************************************************************)
(* The tokens the empty constructor makes are those of the first power     *)
(* spectrum and of the first loop parameters of a database.  A kernel      *)
(* record is only stored right if the job asks for these: serialize() of   *)
(* loop_integral.h leaves both out.                                        *)
(***************************************************************************)
FirstTokens == \A j \in Jobs : j.init = Default /\ j.loop = Default

------------------------------------------------------------------------------
(***************************************************************************)
(* From the work record to the rows, kind by kind.                         *)
(***************************************************************************)
\* A filtered power spectrum.
LEMMA FilterTrip ==
  ASSUME NEW j \in Job, NEW key \in FilterKeys(j), NEW r, NEW q, NEW p, NEW x,
         r = filter_Pk_work_record(key),
         q = build_payload("filter_Pk", j.model, r),
         p = Through(q, new_filter_Pk),
         x = filter_Pk_ready(FilterSample(p, TRUE))
  PROVE  store_filtered_Pk_value(x) = {Row("filter_Pk", key, FilterValue(j.model, key))}
<1>1. /\ DOMAIN r = {"k", "k_tok", "Pk_lin", "Pk_tok", "params_tok", "params"}
      /\ r.k = key.k /\ r.k_tok = key.k /\ r.Pk_lin = key.Pk /\ r.Pk_tok = key.Pk
      /\ r.params_tok = key.params /\ r.params = key.params
  BY DEF filter_Pk_work_record
<1>2. q = [f \in {"model"} \cup DOMAIN r |-> IF f = "model" THEN j.model ELSE r[f]]
  BY DEF build_payload
<1>3. /\ DOMAIN q = {"model", "k", "k_tok", "Pk_lin", "Pk_tok", "params_tok", "params"}
      /\ q.model = j.model /\ q.k = key.k /\ q.k_tok = key.k /\ q.Pk_lin = key.Pk
      /\ q.Pk_tok = key.Pk /\ q.params_tok = key.params /\ q.params = key.params
  BY <1>1, <1>2
<1>4. /\ p.model = j.model /\ p.k = key.k /\ p.k_tok = key.k /\ p.Pk_lin = key.Pk
      /\ p.Pk_tok = key.Pk /\ p.params_tok = key.params /\ p.params = key.params
  BY <1>3 DEF Through, new_filter_Pk
<1>5. PICK v : v = [model |-> p.model, k |-> p.k, Pk |-> p.Pk_lin, params |-> p.params]
  OBVIOUS
<1>6. /\ x.k_tok = p.k_tok /\ x.Pk_tok = p.Pk_tok /\ x.params_tok = p.params_tok
      /\ x.value = v
  BY <1>5 DEF filter_Pk_ready, FilterSample, Through, filtered_Pk_value
<1>7. [Pk |-> x.Pk_tok, params |-> x.params_tok, k |-> x.k_tok] = key
  BY <1>4, <1>6 DEF FilterKeys
<1>8. x.value = FilterValue(j.model, key)
  BY <1>4, <1>5, <1>6 DEF FilterValue
<1> QED BY <1>7, <1>8 DEF store_filtered_Pk_value

\* The Matsubara coefficients.
LEMMA XYTrip ==
  ASSUME NEW j \in Job, NEW key \in XYKeys(j), NEW r, NEW p, NEW x,
         r = Matsubara_XY_work_record(key),
         p = Through(r, new_Matsubara_XY),
         x = Matsubara_XY_ready(calculate_Matsubara_XY(p))
  PROVE  store_Matsubara_XY(j.model, x) = {Row("Matsubara_XY", key, XYValue(key))}
<1>1. /\ p.IR_resum = key.resum /\ p.IR_resum_tok = key.resum /\ p.Pk = wiggle_Pk(key.Pk)
      /\ p.params_tok = key.params /\ p.params = key.params
  BY DEF Matsubara_XY_work_record, Through, new_Matsubara_XY
<1>2. p.Pk.tok = key.Pk /\ p.Pk.data = key.Pk
  BY <1>1 DEF wiggle_Pk
<1>3. PICK v : v = [resum |-> p.IR_resum, Pk |-> p.Pk.data, params |-> p.params]
  OBVIOUS
<1>4. /\ x.params_tok = p.params_tok /\ x.IR_resum_tok = p.IR_resum_tok
      /\ x.Pk_lin = p.Pk.tok /\ x.value = v
  BY <1>3 DEF Matsubara_XY_ready, calculate_Matsubara_XY, Through, Matsubara_XY
<1>5. [model |-> j.model, params |-> x.params_tok, Pk |-> x.Pk_lin,
       resum |-> x.IR_resum_tok] = key
  BY <1>1, <1>2, <1>4 DEF XYKeys
<1>6. x.value = XYValue(key)
  BY <1>1, <1>2, <1>3, <1>4 DEF XYValue
<1> QED BY <1>5, <1>6 DEF store_Matsubara_XY

\* The loop integrals: two tokens are lost, and made again by the constructor.
LEMMA LoopTrip ==
  ASSUME NEW j \in Job, j.init = Default, j.loop = Default,
         NEW key \in LoopKeys(j), NEW r, NEW q, NEW p, NEW x,
         r = loop_integral_work_record(key),
         q = build_payload("loop_integral", j.model, r),
         p = Through(q, new_loop_momentum_integration),
         x = loop_momentum_integration_ready(LoopSample(Begin(p)))
  PROVE  store_loop_kernel(j.model, x) = {Row("loop_integral", key, LoopValue(key))}
<1>1. /\ DOMAIN r = {"k", "k_tok", "UV_cutoff", "UV_tok", "IR_cutoff", "IR_tok", "Pk",
                     "params_tok", "params"}
      /\ r.k = key.k /\ r.k_tok = key.k /\ r.UV_cutoff = key.UV /\ r.UV_tok = key.UV
      /\ r.IR_cutoff = key.IR /\ r.IR_tok = key.IR /\ r.Pk = wiggle_Pk(key.Pk)
  BY DEF loop_integral_work_record
<1>2. q = [f \in {"model"} \cup DOMAIN r |-> IF f = "model" THEN j.model ELSE r[f]]
  BY DEF build_payload
<1>3. /\ DOMAIN q = {"model", "k", "k_tok", "UV_cutoff", "UV_tok", "IR_cutoff", "IR_tok",
                     "Pk", "params_tok", "params"}
      /\ q.model = j.model /\ q.k = key.k /\ q.k_tok = key.k /\ q.UV_cutoff = key.UV
      /\ q.UV_tok = key.UV /\ q.IR_cutoff = key.IR /\ q.IR_tok = key.IR
      /\ q.Pk = wiggle_Pk(key.Pk)
  BY <1>1, <1>2
<1>4. /\ p.model = j.model /\ p.k = key.k /\ p.k_tok = key.k /\ p.UV_cutoff = key.UV
      /\ p.UV_tok = key.UV /\ p.IR_cutoff = key.IR /\ p.IR_tok = key.IR
      /\ p.Pk = wiggle_Pk(key.Pk) /\ p.params_tok = Default /\ p.params = Default
  BY <1>3 DEF Through, new_loop_momentum_integration
<1>5. p.Pk.data = key.Pk
  BY <1>4 DEF wiggle_Pk
<1>6. PICK v : v = [model |-> p.model, k |-> p.k, UV |-> p.UV_cutoff, IR |-> p.IR_cutoff,
                    Pk |-> p.Pk.data, params |-> p.params, unset |-> {}]
  OBVIOUS
<1>7. PICK y : y = LoopSample(Begin(p))
  OBVIOUS
<1>8. /\ DOMAIN y = {"k", "params", "Pk_lin", "UV_cutoff", "IR_cutoff", "ker"}
      /\ y.k = p.k_tok /\ y.UV_cutoff = p.UV_tok /\ y.IR_cutoff = p.IR_tok
      /\ y.ker.value = v
  BY <1>6, <1>7 DEF LoopSample, Begin
<1>9. /\ x.k = y.k /\ x.UV_cutoff = y.UV_cutoff /\ x.IR_cutoff = y.IR_cutoff
      /\ x.ker = y.ker /\ x.params = Default /\ x.Pk_lin = Default
  BY <1>7, <1>8 DEF loop_momentum_integration_ready, Through, loop_integral
<1>10. key = [model |-> j.model, params |-> Default, k |-> key.k, Pk |-> Default,
              UV |-> key.UV, IR |-> key.IR]
  BY DEF LoopKeys
<1>11. [model |-> j.model, params |-> x.params, k |-> x.k, Pk |-> x.Pk_lin,
        UV |-> x.UV_cutoff, IR |-> x.IR_cutoff] = key
  BY <1>4, <1>8, <1>9, <1>10
<1>12. x.ker.value = LoopValue(key)
  BY <1>4, <1>5, <1>6, <1>8, <1>9, <1>10 DEF LoopValue
<1> QED BY <1>11, <1>12 DEF store_loop_kernel

\* No power spectrum and a power spectrum are told apart.
LEMMA OptionalFacts ==
  ASSUME NEW j \in Jobs, NEW Pk, Pk = optional_Pk(j.final)
  PROVE  /\ FinalToken(Pk) = j.final
         /\ FinalData(Pk) = j.final
         /\ Pk = None <=> j.final = None
         /\ j.final # None => Pk.data = j.final
<1>1. CASE j.final = None
  BY <1>1 DEF optional_Pk, FinalToken, FinalData
<1>2. CASE j.final # None
  <2>1. Pk = wiggle_Pk(j.final) /\ Pk # None
    BY <1>2, NoneAssumption DEF optional_Pk
  <2>2. Pk.tok = j.final /\ Pk.data = j.final
    BY <2>1 DEF wiggle_Pk
  <2> QED BY <1>2, <2>1, <2>2 DEF FinalToken, FinalData
<1> QED BY <1>1, <1>2

\* The one-loop spectra of a loop configuration.
LEMMA SpectrumTrip ==
  ASSUME job \in Jobs, job.init = Default, job.loop = Default,
         NEW key \in SpectrumKeys(job), NEW r, NEW p, NEW xs,
         Find("loop_integral", LoopKeyOf(key)) = LoopValue(LoopKeyOf(key)),
         r = one_loop_Pk_work_record(key),
         p = ThroughParts(r, new_one_loop_Pk, [loop_data |-> loop_integral]),
         xs = one_loop_Pk_ready(calculate_Pk(p))
  PROVE  store_one_loop_rsd_Pk(job.model, xs)
           = {Row("one_loop_Pk", [key EXCEPT !.z = z],
                  SpectrumValue([key EXCEPT !.z = z])) : z \in job.z}
<1>0. job \in Job
  BY JobsAssumption
<1>1. key = [model |-> job.model, growth |-> job.growth, loop |-> Default, k |-> key.k,
             init |-> Default, final |-> job.final, UV |-> key.UV, IR |-> key.IR,
             z |-> key.z]
  BY DEF SpectrumKeys
<1>2. PICK lk : lk = LoopKeyOf(key)
  OBVIOUS
<1>3. /\ lk.k = key.k /\ lk.UV = key.UV /\ lk.IR = key.IR /\ lk.params = Default
      /\ lk.Pk = Default
  BY <1>1, <1>2 DEF LoopKeyOf
<1>4. PICK l : l = FoundLoop(lk)
  OBVIOUS
<1>5. /\ DOMAIN l = {"k", "params", "Pk_lin", "UV_cutoff", "IR_cutoff", "ker"}
      /\ l.k = key.k /\ l.UV_cutoff = key.UV /\ l.IR_cutoff = key.IR
      /\ l.ker.value = LoopValue(lk)
  BY <1>2, <1>3, <1>4 DEF FoundLoop
<1>6. /\ DOMAIN r = {"k", "gf_factors", "loop_data", "Pk_init", "Pk_final"}
      /\ r.k = key.k /\ r.gf_factors.params = key.growth /\ r.gf_factors.z = job.z
      /\ r.loop_data = l /\ r.Pk_init = wiggle_Pk(key.init)
      /\ r.Pk_final = optional_Pk(key.final)
  BY <1>2, <1>4 DEF one_loop_Pk_work_record
<1>7. /\ p.k = key.k /\ p.gf_factors = r.gf_factors /\ p.Pk_init = wiggle_Pk(key.init)
      /\ p.Pk_final = optional_Pk(key.final) /\ p.loop_data = Through(l, loop_integral)
  BY <1>6 DEF ThroughParts, new_one_loop_Pk
<1>8. PICK ld : ld = p.loop_data
  OBVIOUS
<1>9. /\ ld.k = key.k /\ ld.UV_cutoff = key.UV /\ ld.IR_cutoff = key.IR
      /\ ld.ker = l.ker /\ ld.params = Default
  BY <1>5, <1>7, <1>8 DEF Through, loop_integral
<1>10. /\ p.Pk_init.tok = key.init /\ p.Pk_init.data = key.init
       /\ FinalToken(p.Pk_final) = key.final /\ FinalData(p.Pk_final) = key.final
  <2>1. key.final = job.final
    BY <1>1
  <2>2. FinalToken(p.Pk_final) = job.final /\ FinalData(p.Pk_final) = job.final
    BY <1>7, <2>1, OptionalFacts
  <2>3. p.Pk_init.tok = key.init /\ p.Pk_init.data = key.init
    BY <1>7 DEF wiggle_Pk
  <2> QED BY <2>1, <2>2, <2>3
<1> DEFINE V(z) == [k |-> key.k, ker |-> LoopValue(lk), Df |-> <<key.growth, z>>,
                    init |-> key.init, final |-> key.final]
           S(z) == [k |-> key.k, loop_params |-> Default, growth_params |-> key.growth,
                    init_Pk |-> key.init, final_Pk |-> key.final, UV_cutoff |-> key.UV,
                    IR_cutoff |-> key.IR, z |-> z, value |-> V(z)]
<1>11. calculate_Pk(p) = {S(z) : z \in job.z}
  <2>1. p.gf_factors.z = job.z /\ p.gf_factors.params = key.growth
    BY <1>6, <1>7
  <2>2. p.loop_data.ker.value = LoopValue(lk)
    BY <1>5, <1>8, <1>9
  <2> QED BY <1>7, <1>8, <1>9, <1>10, <2>1, <2>2 DEF calculate_Pk
<1>12. \A z \in job.z : Through(S(z), oneloop_Pk) = S(z)
  <2> HIDE DEF V
  <2> QED BY DEF Through, oneloop_Pk
<1>13. xs = {S(z) : z \in job.z}
  <2>1. xs = {Through(x, oneloop_Pk) : x \in {S(z) : z \in job.z}}
    BY <1>11 DEF one_loop_Pk_ready
  <2> HIDE DEF S
  <2> QED BY <1>12, <2>1
<1> DEFINE K(z) == [model |-> job.model, growth |-> key.growth, loop |-> Default,
                    k |-> key.k, init |-> key.init, final |-> key.final, UV |-> key.UV,
                    IR |-> key.IR, z |-> z]
<1>14. store_one_loop_rsd_Pk(job.model, xs) = {Row("one_loop_Pk", K(z), V(z)) : z \in job.z}
  <2> DEFINE R(x) == Row("one_loop_Pk",
                         [model |-> job.model, growth |-> x.growth_params,
                          loop |-> x.loop_params, k |-> x.k, init |-> x.init_Pk,
                          final |-> x.final_Pk, UV |-> x.UV_cutoff, IR |-> x.IR_cutoff,
                          z |-> x.z], x.value)
  <2>1. store_one_loop_rsd_Pk(job.model, xs) = {R(x) : x \in {S(z) : z \in job.z}}
    BY <1>13 DEF store_one_loop_rsd_Pk
  <2>2. \A z \in job.z : R(S(z)) = Row("one_loop_Pk", K(z), V(z))
    <3> HIDE DEF V
    <3> QED OBVIOUS
  <2> HIDE DEF R, S, K, V
  <2> QED BY <2>1, <2>2
<1>15. \A z \in job.z : K(z) = [key EXCEPT !.z = z]
  BY <1>1
<1>16. \A z \in job.z : V(z) = SpectrumValue(K(z))
  <2> SUFFICES ASSUME NEW z \in job.z PROVE V(z) = SpectrumValue(K(z))
    OBVIOUS
  <2>1. LoopKeyOf(K(z)) = lk
    BY <1>1, <1>2 DEF LoopKeyOf
  <2>2. /\ K(z).k = key.k /\ K(z).growth = key.growth /\ K(z).z = z
        /\ K(z).init = key.init /\ K(z).final = key.final
    OBVIOUS
  <2> HIDE DEF K
  <2> QED BY <2>1, <2>2 DEF SpectrumValue
<1> HIDE DEF V, K
<1> QED BY <1>14, <1>15, <1>16

\* X and Y as they are found, and as they arrive within a payload.
LEMMA XYArrives ==
  ASSUME NEW key, NEW xk, NEW o, NEW a,
         xk = XYKeyOf(key), Find("Matsubara_XY", xk) = XYValue(xk),
         o = FoundXY(xk), a = Through(o, Matsubara_XY)
  PROVE  /\ a.params_tok = key.XY /\ a.IR_resum_tok = key.resum
         /\ a.value = XYValue(xk)
<1>1. xk.params = key.XY /\ xk.resum = key.resum
  BY DEF XYKeyOf
<1>2. /\ DOMAIN o = {"params_tok", "IR_resum_tok", "Pk_lin", "value"}
      /\ o.params_tok = key.XY /\ o.IR_resum_tok = key.resum /\ o.value = XYValue(xk)
  BY <1>1 DEF FoundXY
<1> QED BY <1>2 DEF Through, Matsubara_XY

\* The multipoles.
LEMMA MultipoleTrip ==
  ASSUME job \in Jobs, job.init = Default, job.loop = Default,
         NEW key \in MultipoleKeys(job), NEW r, NEW p, NEW x,
         Find("one_loop_Pk", SpectrumKeyOf(key)) = SpectrumValue(SpectrumKeyOf(key)),
         Find("Matsubara_XY", XYKeyOf(key)) = XYValue(XYKeyOf(key)),
         r = multipole_Pk_work_record(key),
         p = ThroughParts(r, new_multipole_Pk, [XY |-> Matsubara_XY, data |-> oneloop_Pk]),
         x = multipole_Pk_ready(calculate_Legendre(p))
  PROVE  store_multipole_Pk(job.model, x)
           = {Row(t, key, MultipoleValue(key)) : t \in Tables("multipole_Pk")}
<1>1. key = [model |-> job.model, growth |-> key.growth, loop |-> key.loop,
             XY |-> key.XY, k |-> key.k, init |-> key.init, final |-> key.final,
             UV |-> key.UV, IR |-> key.IR, resum |-> key.resum, z |-> key.z]
  BY DEF MultipoleKeys
<1>2. PICK xk : xk = XYKeyOf(key)
  OBVIOUS
<1>3. PICK sk : sk = SpectrumKeyOf(key)
  OBVIOUS
<1>4. /\ sk.k = key.k /\ sk.loop = key.loop /\ sk.growth = key.growth
      /\ sk.init = key.init /\ sk.final = key.final /\ sk.UV = key.UV /\ sk.IR = key.IR
      /\ sk.z = key.z
  BY <1>3 DEF SpectrumKeyOf
<1>5. PICK o : o = FoundXY(xk)
  OBVIOUS
<1>6. PICK d : d = FoundSpectra(sk)
  OBVIOUS
<1>7. /\ DOMAIN d = {"k", "loop_params", "growth_params", "init_Pk", "final_Pk",
                     "UV_cutoff", "IR_cutoff", "z", "value"}
      /\ d.k = key.k /\ d.loop_params = key.loop /\ d.growth_params = key.growth
      /\ d.init_Pk = key.init /\ d.final_Pk = key.final /\ d.UV_cutoff = key.UV
      /\ d.IR_cutoff = key.IR /\ d.z = key.z /\ d.value = SpectrumValue(sk)
  BY <1>3, <1>4, <1>6 DEF FoundSpectra
<1>8. /\ DOMAIN r = {"k", "XY", "data", "Df_data", "Pk_init", "Pk_final"}
      /\ r.k = key.k /\ r.XY = o /\ r.data = d /\ r.Df_data = <<key.growth, key.z>>
      /\ r.Pk_init = wiggle_Pk(key.init)
  BY <1>2, <1>3, <1>5, <1>6 DEF multipole_Pk_work_record
<1>9. /\ p.k = key.k /\ p.XY = Through(o, Matsubara_XY) /\ p.data = Through(d, oneloop_Pk)
      /\ p.Df_data = <<key.growth, key.z>> /\ p.Pk_init = wiggle_Pk(key.init)
  BY <1>8 DEF ThroughParts, new_multipole_Pk
<1>10. PICK pd : pd = p.data
  OBVIOUS
<1>11. PICK px : px = p.XY
  OBVIOUS
<1>12. /\ pd.k = key.k /\ pd.loop_params = key.loop /\ pd.growth_params = key.growth
       /\ pd.init_Pk = key.init /\ pd.final_Pk = key.final /\ pd.UV_cutoff = key.UV
       /\ pd.IR_cutoff = key.IR /\ pd.z = key.z /\ pd.value = SpectrumValue(sk)
  BY <1>7, <1>9, <1>10 DEF Through, oneloop_Pk
<1>13. /\ px.params_tok = key.XY /\ px.IR_resum_tok = key.resum
       /\ px.value = XYValue(xk)
  BY <1>2, <1>5, <1>9, <1>11, XYArrives
<1>14. p.Pk_init.data = key.init
  BY <1>9 DEF wiggle_Pk
<1>15. PICK v : v = [k |-> p.k, XY |-> px.value, data |-> pd.value, Df |-> p.Df_data,
                     init |-> p.Pk_init.data]
  OBVIOUS
<1>16. PICK y : y = calculate_Legendre(p)
  OBVIOUS
<1>17. /\ DOMAIN y = multipole_Pk
       /\ y.k = key.k /\ y.growth_params = key.growth /\ y.loop_params = key.loop
       /\ y.XY_params = key.XY /\ y.init_Pk = key.init /\ y.final_Pk = key.final
       /\ y.UV_cutoff = key.UV /\ y.IR_cutoff = key.IR /\ y.z = key.z
       /\ y.IR_resum = key.resum /\ y.value = v
  BY <1>10, <1>11, <1>12, <1>13, <1>15, <1>16 DEF calculate_Legendre, multipole_Pk
<1>18. /\ x.k = key.k /\ x.growth_params = key.growth /\ x.loop_params = key.loop
       /\ x.XY_params = key.XY /\ x.init_Pk = key.init /\ x.final_Pk = key.final
       /\ x.UV_cutoff = key.UV /\ x.IR_cutoff = key.IR /\ x.z = key.z
       /\ x.IR_resum = key.resum /\ x.value = v
  BY <1>16, <1>17 DEF multipole_Pk_ready, Through, multipole_Pk
<1>19. [model |-> job.model, growth |-> x.growth_params, loop |-> x.loop_params,
        XY |-> x.XY_params, k |-> x.k, init |-> x.init_Pk, final |-> x.final_Pk,
        UV |-> x.UV_cutoff, IR |-> x.IR_cutoff, resum |-> x.IR_resum, z |-> x.z] = key
  BY <1>1, <1>18
<1>20. x.value = MultipoleValue(key)
  BY <1>2, <1>3, <1>9, <1>12, <1>13, <1>14, <1>15, <1>18 DEF MultipoleValue
<1> QED BY <1>19, <1>20 DEF store_multipole_Pk

\* The counterterms, each in the table of its own power of mu.
LEMMA CountertermTrip ==
  ASSUME job \in Jobs, NEW key \in CountertermKeys(job), NEW r, NEW p, NEW xs,
         Find("Matsubara_XY", XYKeyOf(key)) = XYValue(XYKeyOf(key)),
         r = counterterm_work_record(key),
         p = ThroughParts(r, new_counterterm, [XY |-> Matsubara_XY]),
         xs = counterterm_ready(calculate_counterterms(p))
  PROVE  store_counterterm(job.model, xs)
           = {Row(t, key, CountertermValue(key, t)) : t \in Tables("counterterm")}
<1>1. /\ key = [model |-> job.model, growth |-> key.growth, XY |-> key.XY, k |-> key.k,
                init |-> key.init, final |-> key.final, UV |-> key.UV, IR |-> key.IR,
                resum |-> key.resum, z |-> key.z]
      /\ key.final = job.final
  BY DEF CountertermKeys
<1>2. PICK xk : xk = XYKeyOf(key)
  OBVIOUS
<1>3. PICK o : o = FoundXY(xk)
  OBVIOUS
<1>4. /\ DOMAIN r = {"k", "k_tok", "XY", "IR_tok", "UV_tok", "z_tok", "growth_tok",
                     "Df_data", "Pk_init", "Pk_final"}
      /\ r.k = key.k /\ r.k_tok = key.k /\ r.XY = o /\ r.IR_tok = key.IR
      /\ r.UV_tok = key.UV /\ r.z_tok = key.z /\ r.growth_tok = key.growth
      /\ r.Df_data = <<key.growth, key.z>> /\ r.Pk_init = wiggle_Pk(key.init)
      /\ r.Pk_final = optional_Pk(key.final)
  BY <1>2, <1>3 DEF counterterm_work_record
<1>5. /\ p.k = key.k /\ p.k_tok = key.k /\ p.XY = Through(o, Matsubara_XY)
      /\ p.IR_tok = key.IR /\ p.UV_tok = key.UV /\ p.z_tok = key.z
      /\ p.growth_tok = key.growth /\ p.Df_data = <<key.growth, key.z>>
      /\ p.Pk_init = wiggle_Pk(key.init) /\ p.Pk_final = optional_Pk(key.final)
  BY <1>4 DEF ThroughParts, new_counterterm
<1>6. PICK px : px = p.XY
  OBVIOUS
<1>7. /\ px.params_tok = key.XY /\ px.IR_resum_tok = key.resum
      /\ px.value = XYValue(xk)
  BY <1>2, <1>3, <1>5, <1>6, XYArrives
<1>8. /\ p.Pk_init.tok = key.init /\ p.Pk_init.data = key.init
      /\ FinalToken(p.Pk_final) = key.final
      /\ p.Pk_final = None <=> key.final = None
      /\ key.final # None => p.Pk_final.data = key.final
  <2>1. /\ FinalToken(p.Pk_final) = job.final
        /\ p.Pk_final = None <=> job.final = None
        /\ job.final # None => p.Pk_final.data = job.final
    BY <1>1, <1>5, OptionalFacts
  <2>2. p.Pk_init.tok = key.init /\ p.Pk_init.data = key.init
    BY <1>5 DEF wiggle_Pk
  <2> QED BY <1>1, <2>1, <2>2
<1>9. DOMAIN PowerOfMu = Tables("counterterm")
  BY DEF PowerOfMu, Tables
<1> DEFINE V(c) == [k |-> key.k, XY |-> XYValue(xk), Df |-> <<key.growth, key.z>>,
                    mu |-> PowerOfMu[c],
                    tree |-> IF key.final = None THEN key.init ELSE key.final]
           S(c) == [k |-> key.k, growth_params |-> key.growth, XY_params |-> key.XY,
                    init_Pk |-> key.init, final_Pk |-> key.final, UV_cutoff |-> key.UV,
                    IR_cutoff |-> key.IR, z |-> key.z, IR_resum |-> key.resum,
                    value |-> V(c)]
<1>10. calculate_counterterms(p) = [c \in DOMAIN PowerOfMu |-> S(c)]
  <2>1. (IF p.Pk_final = None THEN p.Pk_init.data ELSE p.Pk_final.data)
          = (IF key.final = None THEN key.init ELSE key.final)
    BY <1>8
  <2> QED BY <1>5, <1>6, <1>7, <1>8, <2>1 DEF calculate_counterterms
<1>11. \A c : Through(S(c), multipole_counterterm) = S(c)
  <2> HIDE DEF V
  <2> QED BY DEF Through, multipole_counterterm
<1>12. xs = [c \in DOMAIN PowerOfMu |-> S(c)]
  <2>1. PICK ys : ys = calculate_counterterms(p)
    OBVIOUS
  <2>2. xs = [c \in DOMAIN ys |-> Through(ys[c], multipole_counterterm)]
    BY <2>1 DEF counterterm_ready
  <2> HIDE DEF S
  <2> QED BY <1>10, <1>11, <2>1, <2>2
<1>13. \A c \in DOMAIN xs :
         /\ [model |-> job.model, growth |-> xs[c].growth_params, XY |-> xs[c].XY_params,
             k |-> xs[c].k, init |-> xs[c].init_Pk, final |-> xs[c].final_Pk,
             UV |-> xs[c].UV_cutoff, IR |-> xs[c].IR_cutoff, resum |-> xs[c].IR_resum,
             z |-> xs[c].z] = key
         /\ xs[c].value = V(c)
  <2> SUFFICES ASSUME NEW c \in DOMAIN xs
               PROVE  /\ [model |-> job.model, growth |-> xs[c].growth_params,
                          XY |-> xs[c].XY_params, k |-> xs[c].k, init |-> xs[c].init_Pk,
                          final |-> xs[c].final_Pk, UV |-> xs[c].UV_cutoff,
                          IR |-> xs[c].IR_cutoff, resum |-> xs[c].IR_resum,
                          z |-> xs[c].z] = key
                      /\ xs[c].value = V(c)
    OBVIOUS
  <2>1. PICK y : y = xs[c]
    OBVIOUS
  <2>2. y = S(c)
    BY <1>12, <2>1
  <2>3. /\ y.k = key.k /\ y.growth_params = key.growth /\ y.XY_params = key.XY
        /\ y.init_Pk = key.init /\ y.final_Pk = key.final /\ y.UV_cutoff = key.UV
        /\ y.IR_cutoff = key.IR /\ y.z = key.z /\ y.IR_resum = key.resum
        /\ y.value = V(c)
    <3> HIDE DEF V
    <3> QED BY <2>2
  <2> HIDE DEF S, V
  <2> QED BY <1>1, <2>1, <2>3
<1>14. \A c \in DOMAIN xs : V(c) = CountertermValue(key, c)
  BY <1>2 DEF CountertermValue
<1>15. DOMAIN xs = Tables("counterterm")
  BY <1>9, <1>12
<1> DEFINE R(c) == Row(c, [model |-> job.model, growth |-> xs[c].growth_params,
                           XY |-> xs[c].XY_params, k |-> xs[c].k, init |-> xs[c].init_Pk,
                           final |-> xs[c].final_Pk, UV |-> xs[c].UV_cutoff,
                           IR |-> xs[c].IR_cutoff, resum |-> xs[c].IR_resum,
                           z |-> xs[c].z], xs[c].value)
<1>16. store_counterterm(job.model, xs) = {R(c) : c \in DOMAIN xs}
  BY DEF store_counterterm
<1>17. \A c \in DOMAIN xs : R(c) = Row(c, key, CountertermValue(key, c))
  <2> HIDE DEF V, S
  <2> QED BY <1>13, <1>14
<1> HIDE DEF V, S, R
<1> QED BY <1>15, <1>16, <1>17

------------------------------------------------------------------------------
(***************************************************************************)
(* Kinds, tables and rows.                                                 *)
(***************************************************************************)
KindSet == {"filter_Pk", "Matsubara_XY", "loop_integral", "one_loop_Pk",
            "multipole_Pk", "counterterm"}

\* The kinds, one by one.
LEMMA KindFacts ==
  /\ Len(Kinds) = 6 /\ DOMAIN Kinds = 1 .. 6
  /\ Kinds[1] = "filter_Pk" /\ Kinds[2] = "Matsubara_XY"
  /\ Kinds[3] = "loop_integral" /\ Kinds[4] = "one_loop_Pk"
  /\ Kinds[5] = "multipole_Pk" /\ Kinds[6] = "counterterm"
  BY DEF Kinds

\* Every kind has a place, and every place a kind.
LEMMA KindsOnto ==
  /\ \A n \in DOMAIN Kinds : Kinds[n] \in KindSet
  /\ \A s \in KindSet : \E n \in DOMAIN Kinds : Kinds[n] = s
<1>1. \A n \in DOMAIN Kinds : Kinds[n] \in KindSet
  BY KindFacts DEF KindSet
<1>2. \A s \in KindSet : \E n \in DOMAIN Kinds : Kinds[n] = s
  BY KindFacts DEF KindSet
<1> QED BY <1>1, <1>2

\* Their tables, one by one.
LEMMA TableNames ==
  /\ Tables("filter_Pk") = {"filter_Pk"} /\ Tables("Matsubara_XY") = {"Matsubara_XY"}
  /\ Tables("loop_integral") = {"loop_integral"}
  /\ Tables("one_loop_Pk") = {"one_loop_Pk"}
  /\ Tables("multipole_Pk") = {"P0", "P2", "P4"}
  /\ Tables("counterterm") = {"c0", "c2", "c4", "c6"}
  BY DEF Tables

\* A table is one kind's.
LEMMA TablesApart ==
  ASSUME NEW s \in KindSet, NEW u \in KindSet, s # u
  PROVE  Tables(s) \cap Tables(u) = {}
  BY TableNames DEF KindSet

\* The kind at hand.
LEMMA KindAtHand ==
  ASSUME TypeOK
  PROVE  kind \in KindSet /\ stage \in 1 .. 6 /\ job \in Job
  BY KindFacts, KindsOnto, JobsAssumption DEF TypeOK, kind

\* What a row holds.
LEMMA RowFields ==
  ASSUME NEW t, NEW key, NEW value
  PROVE  /\ Row(t, key, value).table = t /\ Row(t, key, value).key = key
         /\ Row(t, key, value).value = value
  BY DEF Row

\* A job's keys, with one redshift for another.
LEMMA OtherRedshift ==
  ASSUME NEW j \in Job, NEW key \in SpectrumKeys(j), NEW z \in j.z
  PROVE  /\ [key EXCEPT !.z = z] \in SpectrumKeys(j)
         /\ key \in {[key EXCEPT !.z = y] : y \in j.z}
<1>1. [key EXCEPT !.z = z] \in SpectrumKeys(j)
  BY DEF SpectrumKeys
<1>2. key.z \in j.z /\ [key EXCEPT !.z = key.z] = key
  BY DEF SpectrumKeys
<1> QED BY <1>1, <1>2

\* The value of the row of a table for a key a job asks for.
ValueOf(j, s, t, key) ==
  CASE s = "filter_Pk"     -> FilterValue(j.model, key)
    [] s = "Matsubara_XY"  -> XYValue(key)
    [] s = "loop_integral" -> LoopValue(key)
    [] s = "one_loop_Pk"   -> SpectrumValue(key)
    [] s = "multipole_Pk"  -> MultipoleValue(key)
    [] s = "counterterm"   -> CountertermValue(key, t)

\* What a job asks of a stage, in one form.
LEMMA AsAskedForm ==
  ASSUME NEW j, NEW s \in KindSet
  PROVE  AsAsked(j, s)
           = {Row(t, key, ValueOf(j, s, t, key)) : t \in Tables(s), key \in Wanted(j, s)}
<1>1. CASE s = "filter_Pk"     BY <1>1, TableNames DEF AsAsked, ValueOf
<1>2. CASE s = "Matsubara_XY"  BY <1>2, TableNames DEF AsAsked, ValueOf
<1>3. CASE s = "loop_integral" BY <1>3, TableNames DEF AsAsked, ValueOf
<1>4. CASE s = "one_loop_Pk"   BY <1>4, TableNames DEF AsAsked, ValueOf
<1>5. CASE s = "multipole_Pk"  BY <1>5 DEF AsAsked, ValueOf
<1>6. CASE s = "counterterm"   BY <1>6 DEF AsAsked, ValueOf
<1> QED BY <1>1, <1>2, <1>3, <1>4, <1>5, <1>6 DEF KindSet

\* The keys a product for a key is stored under.
KeysWith(j, s, key) ==
  IF s = "one_loop_Pk" THEN {[key EXCEPT !.z = z] : z \in j.z} ELSE {key}

\* What a product is stored as, in one form.
LEMMA RowsOfForm ==
  ASSUME NEW j, NEW s \in KindSet, NEW key
  PROVE  RowsOf(j, s, key)
           = {Row(t, k, ValueOf(j, s, t, k)) : t \in Tables(s), k \in KeysWith(j, s, key)}
<1>1. CASE s = "filter_Pk"     BY <1>1, TableNames DEF RowsOf, ValueOf, KeysWith
<1>2. CASE s = "Matsubara_XY"  BY <1>2, TableNames DEF RowsOf, ValueOf, KeysWith
<1>3. CASE s = "loop_integral" BY <1>3, TableNames DEF RowsOf, ValueOf, KeysWith
<1>4. CASE s = "one_loop_Pk"
  <2> DEFINE K(z) == [key EXCEPT !.z = z]
  <2>1. RowsOf(j, s, key) = {Row(s, K(z), SpectrumValue(K(z))) : z \in j.z}
    BY <1>4 DEF RowsOf
  <2>2. Tables(s) = {s} /\ KeysWith(j, s, key) = {K(z) : z \in j.z}
    BY <1>4, TableNames DEF KeysWith
  <2>3. \A k : ValueOf(j, s, s, k) = SpectrumValue(k)
    BY <1>4 DEF ValueOf
  <2> HIDE DEF K
  <2> QED BY <2>1, <2>2, <2>3
<1>5. CASE s = "multipole_Pk"  BY <1>5 DEF RowsOf, ValueOf, KeysWith
<1>6. CASE s = "counterterm"   BY <1>6 DEF RowsOf, ValueOf, KeysWith
<1> QED BY <1>1, <1>2, <1>3, <1>4, <1>5, <1>6 DEF KindSet

\* These keys are asked for, and the key is one of them.
LEMMA KeysWithFacts ==
  ASSUME NEW j \in Job, NEW s \in KindSet, NEW key \in Wanted(j, s)
  PROVE  /\ KeysWith(j, s, key) \subseteq Wanted(j, s)
         /\ key \in KeysWith(j, s, key)
<1>1. CASE s = "one_loop_Pk"
  <2>1. Wanted(j, s) = SpectrumKeys(j)
    BY <1>1 DEF Wanted
  <2>2. KeysWith(j, s, key) = {[key EXCEPT !.z = z] : z \in j.z}
    BY <1>1 DEF KeysWith
  <2>3. \A z \in j.z : [key EXCEPT !.z = z] \in Wanted(j, s)
    BY <2>1, OtherRedshift
  <2>4. key.z \in j.z
    BY <2>1 DEF SpectrumKeys
  <2>5. key \in KeysWith(j, s, key)
    BY <2>1, <2>2, <2>4, OtherRedshift
  <2> QED BY <2>2, <2>3, <2>5
<1>2. CASE s # "one_loop_Pk"
  BY <1>2 DEF KeysWith
<1> QED BY <1>1, <1>2

\* A product is stored as rows that are asked for.
LEMMA RowsOfAsked ==
  ASSUME NEW j \in Job, NEW s \in KindSet, NEW key \in Wanted(j, s)
  PROVE  RowsOf(j, s, key) \subseteq AsAsked(j, s)
  BY RowsOfForm, AsAskedForm, KeysWithFacts

\* Its cells, one row each.
LEMMA RowsOfCells ==
  ASSUME NEW j, NEW s \in KindSet, NEW key
  PROVE  /\ CellsIn(RowsOf(j, s, key)) = Tables(s) \X KeysWith(j, s, key)
         /\ \A q, r \in RowsOf(j, s, key) : q.table = r.table /\ q.key = r.key => q = r
<1>1. \A r \in RowsOf(j, s, key) :
        /\ r.table \in Tables(s) /\ r.key \in KeysWith(j, s, key)
        /\ r = Row(r.table, r.key, ValueOf(j, s, r.table, r.key))
  BY RowsOfForm, RowFields
<1>2. \A t \in Tables(s), k \in KeysWith(j, s, key) :
        <<t, k>> \in CellsIn(RowsOf(j, s, key))
  <2> SUFFICES ASSUME NEW t \in Tables(s), NEW k \in KeysWith(j, s, key)
               PROVE  <<t, k>> \in CellsIn(RowsOf(j, s, key))
    OBVIOUS
  <2>1. PICK r : r = Row(t, k, ValueOf(j, s, t, k))
    OBVIOUS
  <2>2. r \in RowsOf(j, s, key) /\ r.table = t /\ r.key = k
    BY <2>1, RowsOfForm, RowFields
  <2> QED BY <2>2 DEF CellsIn
<1>3. CellsIn(RowsOf(j, s, key)) \subseteq Tables(s) \X KeysWith(j, s, key)
  BY <1>1 DEF CellsIn
<1>4. CellsIn(RowsOf(j, s, key)) = Tables(s) \X KeysWith(j, s, key)
  <2>1. \A c \in Tables(s) \X KeysWith(j, s, key) : c \in CellsIn(RowsOf(j, s, key))
    BY <1>2
  <2> QED BY <1>3, <2>1
<1>5. ASSUME NEW q \in RowsOf(j, s, key), NEW r \in RowsOf(j, s, key),
             q.table = r.table, q.key = r.key
      PROVE  q = r
  BY <1>1, <1>5
<1> QED BY <1>4, <1>5

------------------------------------------------------------------------------
(***************************************************************************)
(* What is found, and what becomes of a list.                              *)
(***************************************************************************)
\* A row of the tables is some job's.
LEMMA SomeJobsRow ==
  ASSUME RowsAreAsAsked, NEW r \in BagToSet(rows)
  PROVE  \E j \in Jobs, s \in KindSet :
           /\ r.table \in Tables(s) /\ r.key \in Wanted(j, s)
           /\ r = Row(r.table, r.key, ValueOf(j, s, r.table, r.key))
           /\ r.value = ValueOf(j, s, r.table, r.key)
<1>1. PICK j \in Jobs, n \in DOMAIN Kinds : r \in AsAsked(j, Kinds[n])
  BY DEF RowsAreAsAsked
<1>2. PICK s \in KindSet : s = Kinds[n]
  BY KindsOnto
<1>3. r \in {Row(t, key, ValueOf(j, s, t, key)) : t \in Tables(s), key \in Wanted(j, s)}
  BY <1>1, <1>2, AsAskedForm
<1>4. PICK t \in Tables(s), key \in Wanted(j, s) : r = Row(t, key, ValueOf(j, s, t, key))
  BY <1>3
<1>5. r.table = t /\ r.key = key /\ r.value = ValueOf(j, s, t, key)
  BY <1>4, RowFields
<1> QED BY <1>4, <1>5

\* What find() returns is some job's value for the table and the key.
LEMMA FoundValue ==
  ASSUME RowsAreAsAsked, NEW s \in KindSet, NEW t \in Tables(s), NEW key,
         RowsFor(t, key) # {}
  PROVE  \E j \in Jobs : key \in Wanted(j, s) /\ Find(t, key) = ValueOf(j, s, t, key)
<1>1. PICK r : r = CHOOSE q \in RowsFor(t, key) : TRUE
  OBVIOUS
<1>2. r \in RowsFor(t, key) /\ Find(t, key) = r.value
  BY <1>1 DEF Find
<1>3. r \in BagToSet(rows) /\ r.table = t /\ r.key = key
  BY <1>2 DEF RowsFor
<1>4. PICK j \in Jobs, u \in KindSet :
        /\ r.table \in Tables(u) /\ r.key \in Wanted(j, u)
        /\ r.value = ValueOf(j, u, r.table, r.key)
  BY <1>3, SomeJobsRow
<1>5. u = s
  BY <1>3, <1>4, TablesApart
<1> QED BY <1>2, <1>3, <1>4, <1>5

\* One row is a row.
LEMMA OneRowThere ==
  ASSUME NEW t, NEW key, OneRow(t, key)
  PROVE  RowsFor(t, key) # {}
  BY DEF OneRow

\* If every find() returns, a list is made of what the job asks for.
LEMMA ListFate ==
  ASSUME FirstTokens, RowsAreAsAsked, job \in Jobs, NEW s \in KindSet,
         NEW missing \in SUBSET Wanted(job, s), InputsReadable(s, missing),
         NEW key \in missing
  PROVE  Fate(s, job.model, <<"list", WorkRecord(s, key)>>) = RowsOf(job, s, key)
<1>1. job \in Job /\ job.init = Default /\ job.loop = Default
  BY JobsAssumption DEF FirstTokens
<1>2. PICK r : r = WorkRecord(s, key)
  OBVIOUS
<1>3. PICK q : q = build_payload(s, job.model, r)
  OBVIOUS
<1>4. PICK p : p = NewItem(s, q)
  OBVIOUS
<1>5. PICK x : x = Result(s, p)
  OBVIOUS
<1>6. Fate(s, job.model, <<"list", WorkRecord(s, key)>>) = NewRows(s, job.model, x)
  BY <1>2, <1>3, <1>4, <1>5 DEF Fate
<1> SUFFICES NewRows(s, job.model, x) = RowsOf(job, s, key)
  BY <1>6
<1>7. CASE s = "filter_Pk"
  <2>1. key \in FilterKeys(job)
    BY <1>7 DEF Wanted
  <2>2. r = filter_Pk_work_record(key)
    BY <1>2, <1>7 DEF WorkRecord
  <2>3. p = Through(q, new_filter_Pk)
    BY <1>4, <1>7 DEF NewItem
  <2>4. x = filter_Pk_ready(FilterSample(p, TRUE))
    BY <1>5, <1>7 DEF Result
  <2>5. store_filtered_Pk_value(x) = {Row("filter_Pk", key, FilterValue(job.model, key))}
    BY <1>1, <1>3, <1>7, <2>1, <2>2, <2>3, <2>4, FilterTrip
  <2> QED BY <1>7, <2>5 DEF NewRows, RowsOf
<1>8. CASE s = "Matsubara_XY"
  <2>1. key \in XYKeys(job)
    BY <1>8 DEF Wanted
  <2>2. r = Matsubara_XY_work_record(key)
    BY <1>2, <1>8 DEF WorkRecord
  <2>3. p = Through(r, new_Matsubara_XY)
    BY <1>3, <1>4, <1>8 DEF NewItem, build_payload
  <2>4. x = Matsubara_XY_ready(calculate_Matsubara_XY(p))
    BY <1>5, <1>8 DEF Result
  <2>5. store_Matsubara_XY(job.model, x) = {Row("Matsubara_XY", key, XYValue(key))}
    BY <1>1, <2>1, <2>2, <2>3, <2>4, XYTrip
  <2> QED BY <1>8, <2>5 DEF NewRows, RowsOf
<1>9. CASE s = "loop_integral"
  <2>1. key \in LoopKeys(job)
    BY <1>9 DEF Wanted
  <2>2. r = loop_integral_work_record(key)
    BY <1>2, <1>9 DEF WorkRecord
  <2>3. p = Through(q, new_loop_momentum_integration)
    BY <1>4, <1>9 DEF NewItem
  <2>4. x = loop_momentum_integration_ready(LoopSample(Begin(p)))
    BY <1>5, <1>9 DEF Result
  <2>5. store_loop_kernel(job.model, x) = {Row("loop_integral", key, LoopValue(key))}
    BY <1>1, <1>3, <1>9, <2>1, <2>2, <2>3, <2>4, LoopTrip
  <2> QED BY <1>9, <2>5 DEF NewRows, RowsOf
<1>10. CASE s = "one_loop_Pk"
  <2>1. key \in SpectrumKeys(job)
    BY <1>10 DEF Wanted
  <2>2. r = one_loop_Pk_work_record(key)
    BY <1>2, <1>10 DEF WorkRecord
  <2>3. p = ThroughParts(r, new_one_loop_Pk, [loop_data |-> loop_integral])
    BY <1>3, <1>4, <1>10 DEF NewItem, build_payload
  <2>4. x = one_loop_Pk_ready(calculate_Pk(p))
    BY <1>5, <1>10 DEF Result
  <2>5. Find("loop_integral", LoopKeyOf(key)) = LoopValue(LoopKeyOf(key))
    <3>1. RowsFor("loop_integral", LoopKeyOf(key)) # {}
      BY <1>10, OneRowThere DEF InputsReadable
    <3>2. "loop_integral" \in KindSet /\ "loop_integral" \in Tables("loop_integral")
      BY TableNames DEF KindSet
    <3> QED BY <3>1, <3>2, FoundValue DEF ValueOf
  <2>6. store_one_loop_rsd_Pk(job.model, x)
          = {Row("one_loop_Pk", [key EXCEPT !.z = z],
                 SpectrumValue([key EXCEPT !.z = z])) : z \in job.z}
    BY <1>1, <2>1, <2>2, <2>3, <2>4, <2>5, SpectrumTrip
  <2> QED BY <1>10, <2>6 DEF NewRows, RowsOf
<1>11. ASSUME s \in {"multipole_Pk", "counterterm"}
       PROVE  Find("Matsubara_XY", XYKeyOf(key)) = XYValue(XYKeyOf(key))
  <2>1. RowsFor("Matsubara_XY", XYKeyOf(key)) # {}
    BY <1>11, OneRowThere DEF InputsReadable
  <2>2. "Matsubara_XY" \in KindSet /\ "Matsubara_XY" \in Tables("Matsubara_XY")
    BY TableNames DEF KindSet
  <2> QED BY <2>1, <2>2, FoundValue DEF ValueOf
<1>12. CASE s = "multipole_Pk"
  <2>1. key \in MultipoleKeys(job)
    BY <1>12 DEF Wanted
  <2>2. r = multipole_Pk_work_record(key)
    BY <1>2, <1>12 DEF WorkRecord
  <2>3. p = ThroughParts(r, new_multipole_Pk, [XY |-> Matsubara_XY, data |-> oneloop_Pk])
    BY <1>3, <1>4, <1>12 DEF NewItem, build_payload
  <2>4. x = multipole_Pk_ready(calculate_Legendre(p))
    BY <1>5, <1>12 DEF Result
  <2>5. Find("one_loop_Pk", SpectrumKeyOf(key)) = SpectrumValue(SpectrumKeyOf(key))
    <3>1. RowsFor("one_loop_Pk", SpectrumKeyOf(key)) # {}
      BY <1>12, OneRowThere DEF InputsReadable
    <3>2. "one_loop_Pk" \in KindSet /\ "one_loop_Pk" \in Tables("one_loop_Pk")
      BY TableNames DEF KindSet
    <3> QED BY <3>1, <3>2, FoundValue DEF ValueOf
  <2>6. store_multipole_Pk(job.model, x)
          = {Row(t, key, MultipoleValue(key)) : t \in Tables("multipole_Pk")}
    BY <1>1, <1>11, <1>12, <2>1, <2>2, <2>3, <2>4, <2>5, MultipoleTrip
  <2> QED BY <1>12, <2>6 DEF NewRows, RowsOf
<1>13. CASE s = "counterterm"
  <2>1. key \in CountertermKeys(job)
    BY <1>13 DEF Wanted
  <2>2. r = counterterm_work_record(key)
    BY <1>2, <1>13 DEF WorkRecord
  <2>3. p = ThroughParts(r, new_counterterm, [XY |-> Matsubara_XY])
    BY <1>3, <1>4, <1>13 DEF NewItem, build_payload
  <2>4. x = counterterm_ready(calculate_counterterms(p))
    BY <1>5, <1>13 DEF Result
  <2>5. store_counterterm(job.model, x)
          = {Row(t, key, CountertermValue(key, t)) : t \in Tables("counterterm")}
    BY <1>1, <1>11, <1>13, <2>1, <2>2, <2>3, <2>4, CountertermTrip
  <2> QED BY <1>13, <2>5 DEF NewRows, RowsOf
<1> QED BY <1>7, <1>8, <1>9, <1>10, <1>12, <1>13 DEF KindSet

------------------------------------------------------------------------------
(***************************************************************************)
(* Types: how far a worker is with a kernel record.                        *)
(***************************************************************************)
\* A call of the integrator.
LEMMA OneCall ==
  ASSUME NEW d, d \in [item : {d.item}, at : 1 .. 5, tries : 0 .. 4, fail : BOOLEAN,
                       unset : {d.unset}],
         ~d.fail => d.unset = {}, d.at <= 4, NEW converges \in BOOLEAN,
         NEW e, e = Evaluate(d, converges)
  PROVE  /\ e \in [item : {e.item}, at : 1 .. 5, tries : 0 .. 4, fail : BOOLEAN,
                    unset : {e.unset}]
         /\ ~e.fail => e.unset = {}
         /\ e.item = d.item
<1>1. d.at \in 1 .. 4 /\ d.tries \in 0 .. 4 /\ d.fail \in BOOLEAN
      /\ DOMAIN d = {"item", "at", "tries", "fail", "unset"}
      /\ d = [item |-> d.item, at |-> d.at, tries |-> d.tries, fail |-> d.fail,
              unset |-> d.unset]
  OBVIOUS
<1>2. MaxTries(d.at) \in {3, 5}
  BY <1>1 DEF MaxTries, Integrals
<1>3. CASE converges
  <2>1. e = [d EXCEPT !.at = @ + 1, !.tries = 0]
    BY <1>3 DEF Evaluate
  <2>2. e = [item |-> d.item, at |-> d.at + 1, tries |-> 0, fail |-> d.fail,
             unset |-> d.unset]
    BY <1>1, <2>1
  <2>3. d.at + 1 \in 1 .. 5
    BY <1>1
  <2> QED BY <1>1, <2>2, <2>3
<1>4. CASE ~converges /\ d.tries + 1 >= MaxTries(d.at)
  <2>1. e = [d EXCEPT !.at = @ + 1, !.tries = 0, !.fail = TRUE, !.unset = @ \cup {d.at}]
    BY <1>4 DEF Evaluate
  <2>2. e = [item |-> d.item, at |-> d.at + 1, tries |-> 0, fail |-> TRUE,
             unset |-> d.unset \cup {d.at}]
    BY <1>1, <2>1
  <2>3. d.at + 1 \in 1 .. 5
    BY <1>1
  <2> QED BY <2>2, <2>3
<1>5. CASE ~converges /\ ~(d.tries + 1 >= MaxTries(d.at))
  <2>1. e = [d EXCEPT !.tries = @ + 1]
    BY <1>5 DEF Evaluate
  <2>2. d.tries + 1 \in 0 .. 4
    BY <1>1, <1>2, <1>5
  <2>3. e = [item |-> d.item, at |-> d.at, tries |-> d.tries + 1, fail |-> d.fail,
             unset |-> d.unset]
    BY <1>1, <2>1
  <2> QED BY <1>1, <2>2, <2>3
<1> QED BY <1>3, <1>4, <1>5

\* A worker's desk, action by action.
LEMMA NextDesk ==
  ASSUME TypeOK, DeskInv, [Next]_vars
  PROVE  DeskInv'
<1>1. ASSUME NEW p \in sent, BeginLoopItem(p) PROVE DeskInv'
  <2>1. desk' = desk \cup {Begin(p)}
    BY <1>1 DEF BeginLoopItem
  <2>2. PICK d : d = Begin(p)
    OBVIOUS
  <2>3. /\ d \in [item : {d.item}, at : 1 .. 5, tries : 0 .. 4, fail : BOOLEAN,
                   unset : {d.unset}]
        /\ ~d.fail => d.unset = {}
    BY <2>2 DEF Begin
  <2> QED BY <2>1, <2>2, <2>3 DEF DeskInv
<1>2. ASSUME NEW d \in desk, NEW converges \in BOOLEAN, Cuhre(d, converges) PROVE DeskInv'
  <2>1. desk' = (desk \ {d}) \cup {Evaluate(d, converges)} /\ d.at <= 4
    BY <1>2 DEF Cuhre, Integrals
  <2>2. PICK e : e = Evaluate(d, converges)
    OBVIOUS
  <2>3. /\ e \in [item : {e.item}, at : 1 .. 5, tries : 0 .. 4, fail : BOOLEAN,
                   unset : {e.unset}]
        /\ ~e.fail => e.unset = {}
    BY <2>1, <2>2, OneCall DEF DeskInv
  <2> QED BY <2>1, <2>2, <2>3 DEF DeskInv
<1>3. CASE desk' \subseteq desk
  BY <1>3 DEF DeskInv
<1>4. ASSUME NEW d \in desk, FinishLoopItem(d) PROVE desk' \subseteq desk
  BY <1>4 DEF FinishLoopItem
<1>5. ASSUME NEW how, EndJob(how) PROVE desk' \subseteq desk
  BY <1>5 DEF EndJob
<1>6. ASSUME NEW p \in sent, NEW x, Work(p, x) PROVE desk' \subseteq desk
  BY <1>6 DEF Work
<1> QED BY <1>1, <1>2, <1>3, <1>4, <1>5, <1>6
     DEF Next, StartJob, BuildList, Send, FilterItem, XYItem, SpectrumItem, MultipoleItem,
         CountertermItem, StoreProduct, StoreThrows, EndStage, Kill, vars

\* A job that ends leaves nothing on its way.
LEMMA EndJobTypes ==
  ASSUME TypeOK, NEW how \in {"done", "killed", "misread", "store_error"}, EndJob(how)
  PROVE  TypeOK'
  BY KindFacts DEF EndJob, TypeOK

\* Things only travel while a list is worked on, kernel records only in their stage.
LEMMA NextTypes ==
  ASSUME TypeOK, DeskInv, [Next]_vars
  PROVE  TypeOK'
<1>0. DeskInv'
  BY NextDesk
<1>1. ASSUME NEW j \in Jobs, StartJob(j) PROVE TypeOK'
  BY <1>1, KindFacts DEF StartJob, TypeOK
<1>2. CASE BuildList
  <2>1. CASE EndJob("misread")
    BY <2>1, EndJobTypes
  <2>2. CASE pc' = "farm" /\ UNCHANGED <<job, stage, sent, desk, returned, outcome>>
    BY <2>2 DEF TypeOK, kind
  <2> QED BY <1>2, <2>1, <2>2 DEF BuildList
<1>3. ASSUME pc = "farm", UNCHANGED <<job, pc, stage, outcome>>,
             desk' # {} => kind = "loop_integral"
      PROVE  TypeOK'
  <2>1. \A d \in desk' : d.at \in 1 .. 5 /\ d.tries \in 0 .. 4
    BY <1>0 DEF DeskInv
  <2> QED BY <1>3, <2>1 DEF TypeOK, kind
<1>4. (sent # {} \/ desk # {} \/ returned # {} \/ list # {}) => pc = "farm"
  BY DEF TypeOK
<1>5. desk # {} => kind = "loop_integral"
  BY DEF TypeOK
<1>6. ASSUME NEW r \in list, Send(r) PROVE TypeOK'
  BY <1>3, <1>4, <1>5, <1>6 DEF Send
<1>7. ASSUME NEW p \in sent, NEW x, Work(p, x) PROVE TypeOK'
  BY <1>3, <1>4, <1>5, <1>7 DEF Work
<1>8. ASSUME NEW p \in sent, BeginLoopItem(p) PROVE TypeOK'
  BY <1>3, <1>4, <1>8 DEF BeginLoopItem
<1>9. ASSUME NEW d \in desk, NEW converges \in BOOLEAN, Cuhre(d, converges) PROVE TypeOK'
  BY <1>3, <1>4, <1>5, <1>9 DEF Cuhre
<1>10. ASSUME NEW d \in desk, FinishLoopItem(d) PROVE TypeOK'
  BY <1>3, <1>4, <1>5, <1>10 DEF FinishLoopItem
<1>11. ASSUME NEW x \in returned, StoreProduct(x) PROVE TypeOK'
  BY <1>3, <1>4, <1>5, <1>11 DEF StoreProduct
<1>12. ASSUME NEW x \in returned, StoreThrows(x) PROVE TypeOK'
  BY <1>12, EndJobTypes DEF StoreThrows
<1>13. CASE EndStage
  <2>1. CASE stage = Len(Kinds)
    BY <1>13, <2>1, EndJobTypes DEF EndStage
  <2>2. CASE stage # Len(Kinds)
    BY <1>13, <2>2, KindFacts DEF EndStage, TypeOK
  <2> QED BY <2>1, <2>2
<1>14. CASE Kill
  BY <1>14, EndJobTypes DEF Kill
<1>15. CASE UNCHANGED vars
  BY <1>15 DEF vars, TypeOK, kind
<1>16. ASSUME NEW p \in sent, NEW ok \in BOOLEAN,
              FilterItem(p, ok) \/ XYItem(p) \/ SpectrumItem(p) \/ MultipoleItem(p)
                \/ CountertermItem(p)
       PROVE  TypeOK'
  BY <1>7, <1>16 DEF FilterItem, XYItem, SpectrumItem, MultipoleItem, CountertermItem
<1> QED BY <1>1, <1>2, <1>6, <1>8, <1>9, <1>10, <1>11, <1>12, <1>13, <1>14, <1>15, <1>16
     DEF Next

(***************************************************************************)
(* Items travel only while a list is worked on, and a worker calls the     *)
(* integrator at most five times for each of the four integrals of a       *)
(* kernel record, whichever calls fail.                                    *)
(***************************************************************************)
THEOREM ProductTypes == Spec => []TypeOK
<1>1. Init => TypeOK /\ DeskInv
  BY KindFacts DEF Init, TypeOK, DeskInv
<1>2. TypeOK /\ DeskInv /\ [Next]_vars => TypeOK' /\ DeskInv'
  BY NextTypes, NextDesk
<1> QED BY <1>1, <1>2, PTL DEF Spec

------------------------------------------------------------------------------
(***************************************************************************)
(* What is on its way passes from place to place and keeps its fate.       *)
(***************************************************************************)
\* The places, one by one.
LEMMA Places ==
  /\ \A y : y \in InFlight <=>
       \/ \E r \in list : y = <<"list", r>>
       \/ \E p \in sent : y = <<"sent", p>>
       \/ \E d \in desk : y = <<"desk", d>>
       \/ \E x \in returned : y = <<"returned", x>> /\ ~MarkedFailed(kind, x)
  /\ \A r : <<"list", r>> \in InFlight <=> r \in list
  /\ \A p : <<"sent", p>> \in InFlight <=> p \in sent
  /\ \A d : <<"desk", d>> \in InFlight <=> d \in desk
  /\ \A x : <<"returned", x>> \in InFlight <=> x \in returned /\ ~MarkedFailed(kind, x)
<1>1. \A y : y \in InFlight <=>
       \/ \E r \in list : y = <<"list", r>>
       \/ \E p \in sent : y = <<"sent", p>>
       \/ \E d \in desk : y = <<"desk", d>>
       \/ \E x \in returned : y = <<"returned", x>> /\ ~MarkedFailed(kind, x)
  BY DEF InFlight
<1> QED BY <1>1

\* What waits at each of them ends up as.
LEMMA FateListed ==
  ASSUME NEW s, NEW m, NEW o, NEW y, y = <<"list", o>>
  PROVE  Fate(s, m, y) = NewRows(s, m, Result(s, NewItem(s, build_payload(s, m, o))))
<1>1. y[1] = "list" /\ y[2] = o
  OBVIOUS
<1> QED BY <1>1 DEF Fate

LEMMA FateSent ==
  ASSUME NEW s, NEW m, NEW o, NEW y, y = <<"sent", o>>
  PROVE  Fate(s, m, y) = NewRows(s, m, Result(s, o))
<1>1. y[1] = "sent" /\ y[2] = o
  OBVIOUS
<1> QED BY <1>1 DEF Fate

LEMMA FateOnDesk ==
  ASSUME NEW s, NEW m, NEW o, NEW y, y = <<"desk", o>>
  PROVE  Fate(s, m, y) = NewRows(s, m, Result(s, o.item))
<1>1. y[1] = "desk" /\ y[2] = o
  OBVIOUS
<1> QED BY <1>1 DEF Fate

LEMMA FateReturned ==
  ASSUME NEW s, NEW m, NEW o, NEW y, y = <<"returned", o>>
  PROVE  Fate(s, m, y) = NewRows(s, m, o)
<1>1. y[1] = "returned" /\ y[2] = o
  OBVIOUS
<1> QED BY <1>1 DEF Fate

\* One thing passes on, or is lost because it failed.
Passes ==
  /\ UNCHANGED <<job, pc, stage, rows, outcome>>
  /\ returned \subseteq returned'
  /\ \E y \in InFlight : \E z :
       /\ Fate(kind, job.model, z) = Fate(kind, job.model, y)
       /\ InFlight' \subseteq (InFlight \ {y}) \cup {z}
       /\ \/ (InFlight \ {y}) \cup {z} \subseteq InFlight'
          \/ \E x \in returned' : MarkedFailed(kind, x)

\* The master sends an item.
LEMMA SendPasses ==
  ASSUME NEW r \in list, Send(r)
  PROVE  Passes
<1> DEFINE p == NewItem(kind, build_payload(kind, job.model, r))
<1>1. /\ UNCHANGED <<job, pc, stage, rows, outcome, desk, returned>>
      /\ list' = list \ {r} /\ sent' = sent \cup {p} /\ kind' = kind
  BY DEF Send, kind
<1>2. PICK y : y = <<"list", r>>
  OBVIOUS
<1>3. PICK z : z = <<"sent", p>>
  OBVIOUS
<1>4. Fate(kind, job.model, z) = Fate(kind, job.model, y)
  BY <1>2, <1>3, FateListed, FateSent
<1> HIDE DEF p
<1>5. y \in InFlight
  BY <1>2, Places
<1>6. InFlight' = (InFlight \ {y}) \cup {z}
  BY <1>1, <1>2, <1>3 DEF InFlight
<1> QED BY <1>1, <1>4, <1>5, <1>6 DEF Passes

\* A worker answers an item.
LEMMA WorkPasses ==
  ASSUME NEW p \in sent, NEW x, Work(p, x),
         MarkedFailed(kind, x) \/ x = Result(kind, p)
  PROVE  Passes
<1>1. /\ UNCHANGED <<job, pc, stage, rows, outcome, desk, list>>
      /\ sent' = sent \ {p} /\ returned' = returned \cup {x} /\ kind' = kind
  BY DEF Work, kind
<1>2. PICK y : y = <<"sent", p>>
  OBVIOUS
<1>3. y \in InFlight
  BY <1>2, Places
<1>4. CASE MarkedFailed(kind, x)
  <2>1. InFlight' = InFlight \ {y}
    BY <1>1, <1>2, <1>4 DEF InFlight
  <2>2. InFlight' \subseteq (InFlight \ {y}) \cup {y}
    BY <2>1
  <2>3. \E w \in returned' : MarkedFailed(kind, w)
    BY <1>1, <1>4
  <2> QED BY <1>1, <1>3, <2>2, <2>3 DEF Passes
<1>5. CASE ~MarkedFailed(kind, x)
  <2>1. PICK z : z = <<"returned", x>>
    OBVIOUS
  <2>2. Fate(kind, job.model, z) = Fate(kind, job.model, y)
    BY <1>2, <1>5, <2>1, FateSent, FateReturned
  <2>3. InFlight' = (InFlight \ {y}) \cup {z}
    BY <1>1, <1>2, <1>5, <2>1 DEF InFlight
  <2> QED BY <1>1, <1>3, <2>2, <2>3 DEF Passes
<1> QED BY <1>4, <1>5

\* The work functions answer with the result of the item, or fail.
LEMMA ItemPasses ==
  ASSUME NEW p \in sent, NEW ok \in BOOLEAN,
         FilterItem(p, ok) \/ XYItem(p) \/ SpectrumItem(p) \/ MultipoleItem(p)
           \/ CountertermItem(p)
  PROVE  Passes
<1>1. CASE FilterItem(p, ok)
  <2>1. PICK x : x = filter_Pk_ready(FilterSample(p, ok))
    OBVIOUS
  <2>2. kind = "filter_Pk" /\ Work(p, x)
    BY <1>1, <2>1 DEF FilterItem
  <2>3. CASE ok = TRUE
    <3>1. x = Result(kind, p)
      BY <2>1, <2>2, <2>3 DEF Result
    <3> QED BY <2>2, <3>1, WorkPasses
  <2>4. CASE ok = FALSE
    <3>1. PICK y : y = FilterSample(p, FALSE)
      OBVIOUS
    <3>2. "fail" \in DOMAIN y /\ y.fail = TRUE
      BY <3>1 DEF FilterSample
    <3>3. x.fail = TRUE
      BY <2>1, <2>4, <3>1, <3>2 DEF filter_Pk_ready, Through, filtered_Pk_value
    <3>4. MarkedFailed(kind, x)
      BY <2>2, <3>3 DEF MarkedFailed
    <3> QED BY <2>2, <3>4, WorkPasses
  <2> QED BY <2>3, <2>4
<1>2. CASE XYItem(p)
  <2>1. PICK x : x = Matsubara_XY_ready(calculate_Matsubara_XY(p))
    OBVIOUS
  <2>2. Work(p, x) /\ x = Result(kind, p)
    BY <1>2, <2>1 DEF XYItem, Result
  <2> QED BY <2>2, WorkPasses
<1>3. CASE SpectrumItem(p)
  <2>1. PICK x : x = one_loop_Pk_ready(calculate_Pk(p))
    OBVIOUS
  <2>2. Work(p, x) /\ x = Result(kind, p)
    BY <1>3, <2>1 DEF SpectrumItem, Result
  <2> QED BY <2>2, WorkPasses
<1>4. CASE MultipoleItem(p)
  <2>1. PICK x : x = multipole_Pk_ready(calculate_Legendre(p))
    OBVIOUS
  <2>2. Work(p, x) /\ x = Result(kind, p)
    BY <1>4, <2>1 DEF MultipoleItem, Result
  <2> QED BY <2>2, WorkPasses
<1>5. CASE CountertermItem(p)
  <2>1. PICK x : x = counterterm_ready(calculate_counterterms(p))
    OBVIOUS
  <2>2. Work(p, x) /\ x = Result(kind, p)
    BY <1>5, <2>1 DEF CountertermItem, Result
  <2> QED BY <2>2, WorkPasses
<1> QED BY <1>1, <1>2, <1>3, <1>4, <1>5

\* A worker begins a kernel record.
LEMMA BeginPasses ==
  ASSUME NEW p \in sent, BeginLoopItem(p)
  PROVE  Passes
<1>1. /\ UNCHANGED <<job, pc, stage, rows, outcome, list, returned>> /\ kind' = kind
      /\ sent' = sent \ {p} /\ desk' = desk \cup {Begin(p)}
  BY DEF BeginLoopItem, kind
<1>2. PICK d : d = Begin(p)
  OBVIOUS
<1>3. d.item = p
  BY <1>2 DEF Begin
<1>4. PICK y : y = <<"sent", p>>
  OBVIOUS
<1>5. PICK z : z = <<"desk", d>>
  OBVIOUS
<1>6. Fate(kind, job.model, z) = Fate(kind, job.model, y)
  BY <1>3, <1>4, <1>5, FateSent, FateOnDesk
<1>7. y \in InFlight
  BY <1>4, Places
<1>8. InFlight' = (InFlight \ {y}) \cup {z}
  BY <1>1, <1>2, <1>4, <1>5 DEF InFlight
<1> QED BY <1>1, <1>6, <1>7, <1>8 DEF Passes

\* A worker calls the integrator.
LEMMA CuhrePasses ==
  ASSUME DeskInv, NEW d \in desk, NEW converges \in BOOLEAN, Cuhre(d, converges)
  PROVE  Passes
<1>1. /\ UNCHANGED <<job, pc, stage, rows, outcome, list, sent, returned>> /\ kind' = kind
      /\ desk' = (desk \ {d}) \cup {Evaluate(d, converges)} /\ d.at <= 4
  BY DEF Cuhre, kind, Integrals
<1>2. PICK e : e = Evaluate(d, converges)
  OBVIOUS
<1>3. e.item = d.item
  BY <1>1, <1>2, OneCall DEF DeskInv
<1>4. PICK y : y = <<"desk", d>>
  OBVIOUS
<1>5. PICK z : z = <<"desk", e>>
  OBVIOUS
<1>6. Fate(kind, job.model, z) = Fate(kind, job.model, y)
  BY <1>3, <1>4, <1>5, FateOnDesk
<1>7. y \in InFlight
  BY <1>4, Places
<1>8. InFlight' = (InFlight \ {y}) \cup {z}
  BY <1>1, <1>2, <1>4, <1>5 DEF InFlight
<1> QED BY <1>1, <1>6, <1>7, <1>8 DEF Passes

\* A worker sends a kernel record, marked if any integral failed.
LEMMA FinishPasses ==
  ASSUME TypeOK, DeskInv, NEW d \in desk, FinishLoopItem(d)
  PROVE  Passes
<1>1. PICK x : x = loop_momentum_integration_ready(LoopSample(d))
  OBVIOUS
<1>2. /\ UNCHANGED <<job, pc, stage, rows, outcome, list, sent>> /\ kind' = kind
      /\ desk' = desk \ {d} /\ returned' = returned \cup {x}
  BY <1>1 DEF FinishLoopItem, kind
<1>3. kind = "loop_integral" /\ d.fail \in BOOLEAN
  BY DEF TypeOK, DeskInv
<1>4. PICK w : w = LoopSample(d)
  OBVIOUS
<1>5. DOMAIN w = {"k", "params", "Pk_lin", "UV_cutoff", "IR_cutoff", "ker"}
      /\ w.ker.fail = d.fail
  BY <1>4 DEF LoopSample
<1>6. x.ker.fail = d.fail
  BY <1>1, <1>4, <1>5 DEF loop_momentum_integration_ready, Through, loop_integral
<1>7. PICK y : y = <<"desk", d>>
  OBVIOUS
<1>8. y \in InFlight
  BY <1>7, Places
<1>9. CASE d.fail = TRUE
  <2>1. MarkedFailed(kind, x)
    BY <1>3, <1>6, <1>9 DEF MarkedFailed
  <2>2. InFlight' = InFlight \ {y}
    BY <1>2, <1>7, <2>1 DEF InFlight
  <2>3. InFlight' \subseteq (InFlight \ {y}) \cup {y}
    BY <2>2
  <2>4. \E v \in returned' : MarkedFailed(kind, v)
    BY <1>2, <2>1
  <2> QED BY <1>2, <1>8, <2>3, <2>4 DEF Passes
<1>10. CASE d.fail = FALSE
  <2>1. ~MarkedFailed(kind, x)
    BY <1>3, <1>6, <1>10 DEF MarkedFailed
  <2>2. d.unset = {}
    BY <1>10 DEF DeskInv
  <2>3. PICK b : b = Begin(d.item)
    OBVIOUS
  <2>4. b.item = d.item /\ b.fail = FALSE /\ b.unset = {}
    BY <2>3 DEF Begin
  <2>5. LoopSample(b) = LoopSample(d)
    BY <1>10, <2>2, <2>4 DEF LoopSample
  <2>6. x = Result(kind, d.item)
    BY <1>1, <1>3, <2>3, <2>5 DEF Result
  <2>7. PICK z : z = <<"returned", x>>
    OBVIOUS
  <2>8. Fate(kind, job.model, z) = Fate(kind, job.model, y)
    BY <1>7, <2>6, <2>7, FateOnDesk, FateReturned
  <2>9. InFlight' = (InFlight \ {y}) \cup {z}
    BY <1>2, <1>7, <2>1, <2>7 DEF InFlight
  <2> QED BY <1>2, <1>8, <2>8, <2>9 DEF Passes
<1> QED BY <1>3, <1>9, <1>10

------------------------------------------------------------------------------
(***************************************************************************)
(* The other steps.                                                        *)
(***************************************************************************)
\* Nothing is on its way unless a list is worked on.
LEMMA QuietFlight ==
  ASSUME TypeOK, pc # "farm"
  PROVE  InFlight = {}
<1>1. list = {} /\ sent = {} /\ desk = {} /\ returned = {}
  BY DEF TypeOK
<1> QED BY <1>1 DEF InFlight

\* Every step passes something on, stores something, makes a list, goes on to
\* another stage, or begins or ends a job.
LEMMA StepKinds ==
  ASSUME TypeOK, DeskInv, [Next]_vars
  PROVE  \/ Passes
         \/ \E x \in returned : StoreProduct(x)
         \/ BuildList
         \/ EndStage
         \/ \E j \in Jobs : StartJob(j)
         \/ \E how \in {"killed", "store_error"} : EndJob(how) /\ UNCHANGED rows
         \/ UNCHANGED vars
<1>1. ASSUME NEW r \in list, Send(r) PROVE Passes
  BY <1>1, SendPasses
<1>2. ASSUME NEW p \in sent, NEW ok \in BOOLEAN, FilterItem(p, ok) PROVE Passes
  BY <1>2, ItemPasses
<1>3. ASSUME NEW p \in sent,
             XYItem(p) \/ SpectrumItem(p) \/ MultipoleItem(p) \/ CountertermItem(p)
      PROVE  Passes
  BY <1>3, ItemPasses
<1>4. ASSUME NEW p \in sent, BeginLoopItem(p) PROVE Passes
  BY <1>4, BeginPasses
<1>5. ASSUME NEW d \in desk, FinishLoopItem(d) PROVE Passes
  BY <1>5, FinishPasses
<1>6. ASSUME NEW d \in desk, NEW converges \in BOOLEAN, Cuhre(d, converges) PROVE Passes
  BY <1>6, CuhrePasses
<1>7. ASSUME NEW x \in returned, StoreThrows(x)
      PROVE  EndJob("store_error") /\ UNCHANGED rows
  BY <1>7 DEF StoreThrows
<1>8. Kill => EndJob("killed") /\ UNCHANGED rows
  BY DEF Kill
<1> QED BY <1>1, <1>2, <1>3, <1>4, <1>5, <1>6, <1>7, <1>8 DEF Next

\* A product is stored.
LEMMA StoreStep ==
  ASSUME NEW x \in returned, StoreProduct(x), NEW y, y = <<"returned", x>>,
         NEW F, F = Fate(kind, job.model, y)
  PROVE  /\ UNCHANGED <<job, pc, stage, outcome>> /\ kind' = kind
         /\ y \in InFlight /\ InFlight' = InFlight \ {y}
         /\ returned' = returned \ {x} /\ ~MarkedFailed(kind, x)
         /\ BagToSet(rows)' = BagToSet(rows) \cup F
         /\ \A r \in BagToSet(rows) : rows[r] = 1 /\ r \notin F => rows'[r] = 1
         /\ \A r \in F : r \notin BagToSet(rows) => rows'[r] = 1
<1>1. /\ UNCHANGED <<job, pc, stage, outcome, list, sent, desk>> /\ kind' = kind
      /\ returned' = returned \ {x} /\ ~MarkedFailed(kind, x)
      /\ rows' = rows (+) SetToBag(NewRows(kind, job.model, x))
  BY DEF StoreProduct, kind
<1>2. y \in InFlight
  BY <1>1, Places
<1>3. InFlight' = InFlight \ {y}
  BY <1>1 DEF InFlight
<1>4. F = NewRows(kind, job.model, x)
  BY FateReturned
<1>5. PICK B : B = SetToBag(F)
  OBVIOUS
<1>6. DOMAIN B = F /\ \A r \in F : B[r] = 1
  BY <1>5 DEF SetToBag
<1>7. rows' = [e \in DOMAIN rows \cup DOMAIN B |->
                (IF e \in DOMAIN rows THEN rows[e] ELSE 0)
                  + (IF e \in DOMAIN B THEN B[e] ELSE 0)]
  BY <1>1, <1>4, <1>5 DEF (+)
<1>8. BagToSet(rows)' = BagToSet(rows) \cup F
  BY <1>6, <1>7 DEF BagToSet
<1>9. \A r \in F : r \notin BagToSet(rows) => rows'[r] = 1
  BY <1>6, <1>7 DEF BagToSet
<1>10. \A r \in BagToSet(rows) : rows[r] = 1 /\ r \notin F => rows'[r] = 1
  BY <1>6, <1>7 DEF BagToSet
<1> QED BY <1>1, <1>2, <1>3, <1>8, <1>9, <1>10

\* A list is made.
LEMMA ListStep ==
  ASSUME TypeOK, BuildList, InputsReadable(kind, Missing(kind))
  PROVE  /\ UNCHANGED <<job, stage, returned, outcome, rows>> /\ kind' = kind
         /\ pc = "build" /\ pc' = "farm" /\ returned = {}
         /\ \A y : y \in InFlight' <=>
              \E key \in Missing(kind) : y = <<"list", WorkRecord(kind, key)>>
<1>1. /\ UNCHANGED <<job, stage, sent, desk, returned, outcome, rows>> /\ kind' = kind
      /\ pc = "build" /\ pc' = "farm"
      /\ list' = {WorkRecord(kind, key) : key \in Missing(kind)}
  BY DEF BuildList, kind
<1>2. sent = {} /\ desk = {} /\ returned = {}
  BY <1>1 DEF TypeOK
<1>3. InFlight' = {"list"} \X list'
  BY <1>1, <1>2 DEF InFlight
<1>4. \A y : y \in InFlight' <=>
        \E key \in Missing(kind) : y = <<"list", WorkRecord(kind, key)>>
  <2> DEFINE R(key) == WorkRecord(kind, key)
             M == Missing(kind)
  <2>1. list' = {R(key) : key \in M}
    BY <1>1
  <2> HIDE DEF R, M
  <2>2. \A y : y \in InFlight' <=> \E key \in M : y = <<"list", R(key)>>
    BY <1>3, <2>1
  <2> QED BY <2>2 DEF R, M
<1> QED BY <1>1, <1>2, <1>4

\* Every other step leaves nothing on its way, and the tables as they are.
QuietStep ==
  \/ BuildList /\ ~InputsReadable(kind, Missing(kind))
  \/ EndStage
  \/ \E j \in Jobs : StartJob(j)
  \/ \E how \in {"killed", "store_error"} : EndJob(how) /\ UNCHANGED rows

LEMMA QuietSteps ==
  ASSUME TypeOK, QuietStep
  PROVE  InFlight' = {} /\ UNCHANGED rows
<1>1. ASSUME NEW how, EndJob(how) PROVE InFlight' = {}
  BY <1>1 DEF EndJob, InFlight
<1>2. ASSUME NEW j \in Jobs, StartJob(j) PROVE InFlight' = {} /\ UNCHANGED rows
  <2>1. UNCHANGED <<list, sent, desk, returned, rows>> /\ pc = "idle"
    BY <1>2 DEF StartJob
  <2> QED BY <2>1 DEF TypeOK, InFlight
<1>3. ASSUME EndStage PROVE InFlight' = {} /\ UNCHANGED rows
  <2>1. CASE EndJob("done")
    BY <1>1, <1>3, <2>1 DEF EndStage
  <2>2. CASE UNCHANGED <<list, sent, desk, returned>>
    BY <1>3, <2>2 DEF EndStage, InFlight
  <2> QED BY <1>3, <2>1, <2>2 DEF EndStage
<1>4. ASSUME BuildList, ~InputsReadable(kind, Missing(kind))
      PROVE  InFlight' = {} /\ UNCHANGED rows
  BY <1>1, <1>4 DEF BuildList
<1> QED BY <1>1, <1>2, <1>3, <1>4 DEF QuietStep

------------------------------------------------------------------------------
(***************************************************************************)
(* Rows are as asked.                                                      *)
(***************************************************************************)
\* Every step keeps it so.
LEMMA NextAsked ==
  ASSUME FirstTokens, AskedInv, [Next]_vars
  PROVE  AskedInv'
<1>0. /\ TypeOK /\ DeskInv /\ RowsAreAsAsked /\ FatesAsked
      /\ kind \in KindSet /\ job \in Job /\ job \in Jobs
  BY KindAtHand DEF AskedInv, TypeOK
<1>1. TypeOK' /\ DeskInv'
  BY <1>0, NextTypes, NextDesk
<1>2. ASSUME UNCHANGED rows PROVE RowsAreAsAsked'
  BY <1>0, <1>2 DEF RowsAreAsAsked
<1>3. ASSUME InFlight' = {} PROVE FatesAsked'
  BY <1>3 DEF FatesAsked
<1>4. ASSUME UNCHANGED <<job, stage>>,
             \A w \in InFlight' : \E key \in Wanted(job, kind) :
               Fate(kind, job.model, w) = RowsOf(job, kind, key)
      PROVE  FatesAsked'
  BY <1>4 DEF FatesAsked, kind
<1>5. CASE Passes
  <2>1. UNCHANGED <<job, stage, rows>>
    BY <1>5 DEF Passes
  <2>2. PICK y \in InFlight : \E z :
          /\ Fate(kind, job.model, z) = Fate(kind, job.model, y)
          /\ InFlight' \subseteq (InFlight \ {y}) \cup {z}
    BY <1>5 DEF Passes
  <2>3. \A w \in InFlight' : \E key \in Wanted(job, kind) :
          Fate(kind, job.model, w) = RowsOf(job, kind, key)
    BY <1>0, <2>2 DEF FatesAsked
  <2>4. FatesAsked' /\ RowsAreAsAsked'
    BY <1>2, <1>4, <2>1, <2>3
  <2> QED BY <1>1, <2>4 DEF AskedInv
<1>6. ASSUME NEW x \in returned, StoreProduct(x) PROVE AskedInv'
  <2>1. PICK y : y = <<"returned", x>>
    OBVIOUS
  <2>2. PICK F : F = Fate(kind, job.model, y)
    OBVIOUS
  <2>3. /\ UNCHANGED <<job, stage>> /\ y \in InFlight /\ InFlight' = InFlight \ {y}
        /\ BagToSet(rows)' = BagToSet(rows) \cup F
    BY <1>6, <2>1, <2>2, StoreStep
  <2>4. PICK key \in Wanted(job, kind) : F = RowsOf(job, kind, key)
    BY <1>0, <2>2, <2>3 DEF FatesAsked
  <2>5. F \subseteq AsAsked(job, kind)
    BY <1>0, <2>4, RowsOfAsked
  <2>6. PICK n \in DOMAIN Kinds : Kinds[n] = kind
    BY <1>0, KindsOnto
  <2>7. RowsAreAsAsked'
    BY <1>0, <2>3, <2>5, <2>6 DEF RowsAreAsAsked
  <2>8. FatesAsked'
    BY <1>0, <1>4, <2>3 DEF FatesAsked
  <2> QED BY <1>1, <2>7, <2>8 DEF AskedInv
<1>7. CASE BuildList /\ InputsReadable(kind, Missing(kind))
  <2>1. /\ UNCHANGED <<job, stage, rows>>
        /\ \A y : y \in InFlight' <=>
             \E key \in Missing(kind) : y = <<"list", WorkRecord(kind, key)>>
    BY <1>0, <1>7, ListStep
  <2>2. PICK M : M = Missing(kind)
    OBVIOUS
  <2>3. M \in SUBSET Wanted(job, kind)
    BY <2>2 DEF Missing
  <2>4. \A key \in M :
          Fate(kind, job.model, <<"list", WorkRecord(kind, key)>>) = RowsOf(job, kind, key)
    BY <1>0, <1>7, <2>2, <2>3, ListFate
  <2>5. \A w \in InFlight' : \E key \in Wanted(job, kind) :
          Fate(kind, job.model, w) = RowsOf(job, kind, key)
    BY <2>1, <2>2, <2>3, <2>4
  <2>6. FatesAsked' /\ RowsAreAsAsked'
    BY <1>2, <1>4, <2>1, <2>5
  <2> QED BY <1>1, <2>6 DEF AskedInv
<1>8. CASE QuietStep
  BY <1>0, <1>1, <1>2, <1>3, <1>8, QuietSteps DEF AskedInv
<1>9. CASE UNCHANGED vars
  <2>1. UNCHANGED <<job, stage, rows>> /\ InFlight' = InFlight
    BY <1>9 DEF vars, InFlight, kind
  <2>2. FatesAsked'
    BY <1>0, <1>4, <2>1 DEF FatesAsked
  <2> QED BY <1>1, <1>2, <2>1, <2>2 DEF AskedInv
<1> QED BY <1>0, <1>5, <1>6, <1>7, <1>8, <1>9, StepKinds DEF QuietStep

\* At first there is nothing.
LEMMA InitAsked == Init => AskedInv
<1> SUFFICES ASSUME Init PROVE AskedInv
  OBVIOUS
<1>1. TypeOK /\ DeskInv
  BY KindFacts DEF Init, TypeOK, DeskInv
<1>2. BagToSet(rows) = {}
  BY DEF Init, EmptyBag, SetToBag, BagToSet
<1>3. InFlight = {}
  BY <1>1, QuietFlight DEF Init
<1> QED BY <1>1, <1>2, <1>3 DEF AskedInv, RowsAreAsAsked, FatesAsked

(***************************************************************************)
(* In a database whose jobs ask for the first power spectrum and the first *)
(* loop parameters, every row is the result some job asked for: no packing *)
(* and unpacking, no failed integral and no killed job puts a value in the *)
(* wrong row or leaves one half computed.                                  *)
(***************************************************************************)
THEOREM RowsFaithful ==
  ASSUME FirstTokens
  PROVE  Spec => []RowsAreAsAsked
<1>1. AskedInv /\ [Next]_vars => AskedInv'
  BY NextAsked
<1>2. AskedInv => RowsAreAsAsked
  BY DEF AskedInv
<1> QED BY <1>1, <1>2, InitAsked, PTL DEF Spec

------------------------------------------------------------------------------
(***************************************************************************)
(* Done is stored.                                                         *)
(***************************************************************************)
\* Tables only grow, so that what is there stays.
LEMMA StaysPresent ==
  ASSUME BagToSet(rows) \subseteq BagToSet(rows)'
  PROVE  /\ \A t, key : RowsFor(t, key) # {} => RowsFor(t, key)' # {}
         /\ \A j, s : Present(j, s) => Present(j, s)'
<1>1. \A t, key : RowsFor(t, key) \subseteq RowsFor(t, key)'
  BY DEF RowsFor
<1>2. \A t, key : RowsFor(t, key) # {} => RowsFor(t, key)' # {}
  BY <1>1
<1> QED BY <1>2 DEF Present

\* When nothing is on its way and nothing failed, the stage is complete.
LEMMA StageComplete ==
  ASSUME TypeOK, CoverInv, EndStage
  PROVE  \A n \in 1 .. stage : Present(job, Kinds[n])
<1>1. pc = "farm" /\ list = {} /\ sent = {} /\ desk = {} /\ returned = {}
  BY DEF EndStage
<1>2. InFlight = {}
  BY <1>1 DEF InFlight
<1>3. Present(job, kind)
  BY <1>1, <1>2 DEF CoverInv, Present
<1>4. \A n \in 1 .. stage - 1 : Present(job, Kinds[n])
  BY <1>1 DEF CoverInv
<1>5. \A n \in 1 .. stage : n = stage \/ n \in 1 .. stage - 1
  BY DEF TypeOK
<1> QED BY <1>3, <1>4, <1>5 DEF kind

\* What is not stored is on its way, action by action.
LEMMA NextCover ==
  ASSUME FirstTokens, AskedInv, CoverInv, [Next]_vars
  PROVE  CoverInv'
<1>0. /\ TypeOK /\ DeskInv /\ RowsAreAsAsked /\ FatesAsked
      /\ kind \in KindSet /\ job \in Job /\ job \in Jobs /\ stage \in 1 .. 6
  BY KindAtHand DEF AskedInv, TypeOK
<1> DEFINE Failed == \E x \in returned : MarkedFailed(kind, x)
           Covered(t, key) ==
             \/ RowsFor(t, key) # {}
             \/ \E y \in InFlight : <<t, key>> \in CellsIn(Fate(kind, job.model, y))
           Earlier == \A n \in 1 .. stage - 1 : Present(job, Kinds[n])
           All == \A t \in Tables(kind), key \in Wanted(job, kind) : Covered(t, key)
<1>1. CoverInv <=> (pc # "idle" => Earlier) /\ (pc = "farm" => Failed \/ All)
  BY DEF CoverInv
<1>2. CoverInv' <=> (pc' # "idle" => Earlier') /\ (pc' = "farm" => Failed' \/ All')
  BY DEF CoverInv
<1>3. ASSUME UNCHANGED <<job, stage>>, BagToSet(rows) \subseteq BagToSet(rows)', Earlier
      PROVE  Earlier'
  <2>1. \A n \in 1 .. stage - 1 : Present(job, Kinds[n])'
    BY <1>3, StaysPresent
  <2> QED BY <1>3, <2>1
<1>4. CASE Passes
  <2>1. /\ UNCHANGED <<job, pc, stage, rows>> /\ kind' = kind
        /\ returned \subseteq returned'
    BY <1>4 DEF Passes, kind
  <2>2. pc' # "idle" => Earlier'
    BY <1>1, <1>3, <2>1
  <2>3. PICK y \in InFlight : \E z :
          /\ Fate(kind, job.model, z) = Fate(kind, job.model, y)
          /\ (InFlight \ {y}) \cup {z} \subseteq InFlight' \/ Failed'
    BY <1>4, <2>1 DEF Passes
  <2>4. Failed => Failed'
    BY <2>1
  <2>5. ASSUME ~Failed', All PROVE All'
    <3>1. PICK z : /\ Fate(kind, job.model, z) = Fate(kind, job.model, y)
                   /\ (InFlight \ {y}) \cup {z} \subseteq InFlight'
      BY <2>3, <2>5
    <3>2. ASSUME NEW w \in InFlight
          PROVE  \E v \in InFlight' : Fate(kind, job.model, v) = Fate(kind, job.model, w)
      BY <3>1
    <3>3. \A t, key : Covered(t, key) => Covered(t, key)'
      <4> SUFFICES ASSUME NEW t, NEW key, Covered(t, key) PROVE Covered(t, key)'
        OBVIOUS
      <4>1. CASE RowsFor(t, key) # {}
        BY <2>1, <4>1 DEF RowsFor
      <4>2. ASSUME NEW w \in InFlight, <<t, key>> \in CellsIn(Fate(kind, job.model, w))
            PROVE  Covered(t, key)'
        BY <2>1, <3>2, <4>2
      <4> QED BY <4>1, <4>2
    <3> HIDE DEF Covered
    <3> QED BY <2>1, <2>5, <3>3
  <2>6. pc' = "farm" => Failed' \/ All'
    BY <1>1, <2>1, <2>4, <2>5
  <2> QED BY <1>2, <2>2, <2>6
<1>5. ASSUME NEW x \in returned, StoreProduct(x) PROVE CoverInv'
  <2>1. PICK y : y = <<"returned", x>>
    OBVIOUS
  <2>2. PICK F : F = Fate(kind, job.model, y)
    OBVIOUS
  <2>3. /\ UNCHANGED <<job, pc, stage>> /\ kind' = kind
        /\ y \in InFlight /\ InFlight' = InFlight \ {y}
        /\ returned' = returned \ {x} /\ ~MarkedFailed(kind, x)
        /\ BagToSet(rows)' = BagToSet(rows) \cup F
    BY <1>5, <2>1, <2>2, StoreStep
  <2>4. pc' # "idle" => Earlier'
    BY <1>1, <1>3, <2>3
  <2>5. Failed => Failed'
    BY <2>3
  <2>6. \A t, key : Covered(t, key) => Covered(t, key)'
    <3> SUFFICES ASSUME NEW t, NEW key, Covered(t, key) PROVE Covered(t, key)'
      OBVIOUS
    <3>1. CASE RowsFor(t, key) # {}
      BY <2>3, <3>1, StaysPresent
    <3>2. CASE <<t, key>> \in CellsIn(F)
      <4>1. PICK r \in F : r.table = t /\ r.key = key
        BY <3>2 DEF CellsIn
      <4>2. r \in RowsFor(t, key)'
        BY <2>3, <4>1 DEF RowsFor
      <4> QED BY <4>2
    <3>3. ASSUME NEW w \in InFlight, w # y, <<t, key>> \in CellsIn(Fate(kind, job.model, w))
          PROVE  Covered(t, key)'
      BY <2>3, <3>3
    <3> QED BY <2>2, <3>1, <3>2, <3>3
  <2>7. All => All'
    <3> HIDE DEF Covered
    <3> QED BY <2>3, <2>6
  <2> QED BY <1>1, <1>2, <2>3, <2>4, <2>5, <2>7
<1>6. CASE BuildList /\ InputsReadable(kind, Missing(kind))
  <2>1. /\ UNCHANGED <<job, stage, rows>> /\ kind' = kind /\ pc = "build"
        /\ \A y : y \in InFlight' <=>
             \E key \in Missing(kind) : y = <<"list", WorkRecord(kind, key)>>
    BY <1>0, <1>6, ListStep
  <2>2. Earlier'
    BY <1>1, <1>3, <2>1
  <2>3. PICK M : M = Missing(kind)
    OBVIOUS
  <2>4. M \in SUBSET Wanted(job, kind)
    BY <2>3 DEF Missing
  <2>5. \A key \in M :
          Fate(kind, job.model, <<"list", WorkRecord(kind, key)>>) = RowsOf(job, kind, key)
    BY <1>0, <1>6, <2>3, <2>4, ListFate
  <2>6. ASSUME NEW t \in Tables(kind), NEW key \in Wanted(job, kind)
        PROVE  Covered(t, key)'
    <3>1. CASE RowsFor(t, key) # {}
      BY <2>1, <3>1 DEF RowsFor
    <3>2. CASE RowsFor(t, key) = {}
      <4>1. key \in M
        BY <2>3, <3>2 DEF Missing
      <4>2. <<t, key>> \in CellsIn(RowsOf(job, kind, key))
        BY <1>0, RowsOfCells, KeysWithFacts
      <4>3. PICK y : y = <<"list", WorkRecord(kind, key)>>
        OBVIOUS
      <4>4. y \in InFlight' /\ <<t, key>> \in CellsIn(Fate(kind, job.model, y))
        BY <2>1, <2>3, <2>5, <4>1, <4>2, <4>3
      <4> QED BY <2>1, <4>4
    <3> QED BY <3>1, <3>2
  <2>7. All'
    <3> HIDE DEF Covered
    <3> QED BY <2>1, <2>6
  <2> QED BY <1>2, <2>2, <2>7
<1>7. ASSUME NEW how, EndJob(how) PROVE CoverInv'
  BY <1>2, <1>7 DEF EndJob
<1>8. ASSUME NEW j \in Jobs, StartJob(j) PROVE CoverInv'
  BY <1>2, <1>8 DEF StartJob
<1>9. CASE EndStage
  <2>1. CASE stage = Len(Kinds)
    BY <1>7, <1>9, <2>1 DEF EndStage
  <2>2. CASE stage # Len(Kinds)
    <3>1. \A n \in 1 .. stage : Present(job, Kinds[n])
      BY <1>0, <1>9, StageComplete
    <3>2. pc' = "build" /\ stage' = stage + 1 /\ job' = job /\ UNCHANGED rows
      BY <1>9, <2>2 DEF EndStage
    <3>3. \A n \in 1 .. stage : Present(job, Kinds[n])'
      BY <3>1, <3>2, StaysPresent
    <3>4. stage' - 1 = stage
      BY <1>0, <3>2
    <3>5. Earlier'
      BY <3>2, <3>3, <3>4
    <3> QED BY <1>2, <3>2, <3>5
  <2> QED BY <2>1, <2>2
<1>10. CASE UNCHANGED vars
  BY <1>10 DEF vars, CoverInv, Present, RowsFor, InFlight, kind
<1>11. CASE BuildList /\ ~InputsReadable(kind, Missing(kind))
  BY <1>7, <1>11 DEF BuildList
<1> QED BY <1>0, <1>4, <1>5, <1>6, <1>7, <1>8, <1>9, <1>10, <1>11, StepKinds

(***************************************************************************)
(* The table of filtered power spectra has no column for the cosmological  *)
(* model: with one model, the rows of a key are one row.                   *)
(***************************************************************************)
SameModel == \A i, j \in Jobs : i.model = j.model

\* What is there for a key is what the job asked for.
LEMMA PresentIsStored ==
  ASSUME SameModel, RowsAreAsAsked, NEW j \in Jobs, NEW s \in KindSet, Present(j, s)
  PROVE  AsAsked(j, s) \subseteq BagToSet(rows)
<1> SUFFICES ASSUME NEW q \in AsAsked(j, s) PROVE q \in BagToSet(rows)
  OBVIOUS
<1>1. PICK t \in Tables(s), key \in Wanted(j, s) : q = Row(t, key, ValueOf(j, s, t, key))
  BY AsAskedForm
<1>2. PICK r \in BagToSet(rows) : r.table = t /\ r.key = key
  BY DEF Present, RowsFor
<1>3. PICK i \in Jobs, u \in KindSet :
        /\ t \in Tables(u) /\ r = Row(t, key, ValueOf(i, u, t, key))
  BY <1>2, SomeJobsRow
<1>4. u = s
  BY <1>3, TablesApart
<1>5. ValueOf(i, s, t, key) = ValueOf(j, s, t, key)
  <2>1. i.model = j.model
    BY DEF SameModel
  <2> QED BY <2>1 DEF ValueOf
<1> QED BY <1>1, <1>2, <1>3, <1>4, <1>5

\* Every step keeps what is done stored.
LEMMA NextStored ==
  ASSUME FirstTokens, SameModel, StoredInv, [Next]_vars
  PROVE  StoredInv'
<1>0. /\ AskedInv /\ CoverInv /\ DoneIsStored /\ TypeOK /\ DeskInv /\ RowsAreAsAsked
      /\ job \in Jobs
  BY DEF StoredInv, AskedInv, TypeOK
<1>1. AskedInv' /\ CoverInv'
  BY <1>0, NextAsked, NextCover
<1> SUFFICES DoneIsStored'
  BY <1>1 DEF StoredInv
<1>2. pc = "farm" \/ InFlight = {}
  BY <1>0, QuietFlight
<1>3. CASE Passes
  BY <1>2, <1>3 DEF Passes, DoneIsStored
<1>4. ASSUME NEW x \in returned, StoreProduct(x) PROVE DoneIsStored'
  <2>1. pc = "farm"
    BY <1>0 DEF TypeOK
  <2> QED BY <1>4, <2>1 DEF StoreProduct, DoneIsStored
<1>5. CASE BuildList
  <2>1. pc' = "farm" \/ outcome' = "misread"
    BY <1>5 DEF BuildList, EndJob
  <2> QED BY <2>1 DEF DoneIsStored
<1>6. CASE EndStage
  <2>1. CASE stage = Len(Kinds)
    <3>1. UNCHANGED <<job, rows>>
      BY <1>6, <2>1 DEF EndStage, EndJob
    <3>2. \A n \in DOMAIN Kinds : Present(job, Kinds[n])
      BY <1>0, <1>6, <2>1, StageComplete, KindFacts
    <3>3. \A n \in DOMAIN Kinds : AsAsked(job, Kinds[n]) \subseteq BagToSet(rows)
      BY <1>0, <3>2, PresentIsStored, KindsOnto
    <3> QED BY <3>1, <3>3 DEF DoneIsStored
  <2>2. CASE stage # Len(Kinds)
    BY <1>6, <2>2 DEF EndStage, DoneIsStored
  <2> QED BY <2>1, <2>2
<1>7. ASSUME NEW j \in Jobs, StartJob(j) PROVE DoneIsStored'
  BY <1>7 DEF StartJob, DoneIsStored
<1>8. ASSUME NEW how \in {"killed", "store_error"}, EndJob(how) PROVE DoneIsStored'
  BY <1>8 DEF EndJob, DoneIsStored
<1>9. CASE UNCHANGED vars
  BY <1>0, <1>9 DEF vars, DoneIsStored
<1> QED BY <1>0, <1>3, <1>4, <1>5, <1>6, <1>7, <1>8, <1>9, StepKinds

(***************************************************************************)
(* In such a database with one model, a job that ends as done has left     *)
(* every row it was asked for: whatever was not stored by an earlier job   *)
(* was put on a list, and nothing on its way is lost without the job's     *)
(* ending in an error.                                                     *)
(***************************************************************************)
THEOREM DoneStored ==
  ASSUME FirstTokens, SameModel
  PROVE  Spec => []DoneIsStored
<1>1. Init => StoredInv
  BY InitAsked DEF Init, StoredInv, CoverInv, DoneIsStored
<1>2. StoredInv /\ [Next]_vars => StoredInv'
  BY NextStored
<1>3. StoredInv => DoneIsStored
  BY DEF StoredInv
<1> QED BY <1>1, <1>2, <1>3, PTL DEF Spec

------------------------------------------------------------------------------
(***************************************************************************)
(* Stored once.                                                            *)
(***************************************************************************)
\* Every job asks for the same redshifts.
SameRedshifts == \A i, j \in Jobs : i.z = j.z

\* A key's product determines the work record, and two products are stored under
\* the same keys or under different ones.
LEMMA KeysWithSame ==
  ASSUME SameRedshifts, NEW i \in Jobs, NEW j \in Jobs, NEW s \in KindSet,
         NEW a \in Wanted(i, s), NEW b \in Wanted(j, s),
         NEW k \in KeysWith(i, s, a), k \in KeysWith(j, s, b)
  PROVE  /\ KeysWith(i, s, a) = KeysWith(j, s, b)
         /\ WorkRecord(s, a) = WorkRecord(s, b)
<1>1. CASE s = "one_loop_Pk"
  <2>1. /\ KeysWith(i, s, a) = {[a EXCEPT !.z = z] : z \in i.z}
        /\ KeysWith(j, s, b) = {[b EXCEPT !.z = z] : z \in j.z}
        /\ a \in SpectrumKeys(i) /\ b \in SpectrumKeys(j) /\ i.z = j.z
    BY <1>1 DEF KeysWith, Wanted, SameRedshifts
  <2>2. PICK v \in i.z, w \in j.z : k = [a EXCEPT !.z = v] /\ k = [b EXCEPT !.z = w]
    BY <2>1
  <2>3. /\ a = [model |-> a.model, growth |-> a.growth, loop |-> a.loop, k |-> a.k,
                init |-> a.init, final |-> a.final, UV |-> a.UV, IR |-> a.IR, z |-> a.z]
        /\ b = [model |-> b.model, growth |-> b.growth, loop |-> b.loop, k |-> b.k,
                init |-> b.init, final |-> b.final, UV |-> b.UV, IR |-> b.IR, z |-> b.z]
    BY <2>1 DEF SpectrumKeys
  <2>4. /\ k.model = a.model /\ k.growth = a.growth /\ k.loop = a.loop /\ k.k = a.k
        /\ k.init = a.init /\ k.final = a.final /\ k.UV = a.UV /\ k.IR = a.IR
    BY <2>2, <2>3
  <2>5. /\ k.model = b.model /\ k.growth = b.growth /\ k.loop = b.loop /\ k.k = b.k
        /\ k.init = b.init /\ k.final = b.final /\ k.UV = b.UV /\ k.IR = b.IR
    BY <2>2, <2>3
  <2>6. \A z : [a EXCEPT !.z = z] = [b EXCEPT !.z = z]
    BY <2>3, <2>4, <2>5
  <2>7. LoopKeyOf(a) = LoopKeyOf(b)
    BY <2>4, <2>5 DEF LoopKeyOf
  <2>8. one_loop_Pk_work_record(a) = one_loop_Pk_work_record(b)
    BY <2>4, <2>5, <2>7 DEF one_loop_Pk_work_record
  <2>9. KeysWith(i, s, a) = KeysWith(j, s, b)
    <3> DEFINE A(z) == [a EXCEPT !.z = z]
               B(z) == [b EXCEPT !.z = z]
    <3>1. \A z : A(z) = B(z)
      BY <2>6
    <3>2. KeysWith(i, s, a) = {A(z) : z \in i.z} /\ KeysWith(j, s, b) = {B(z) : z \in i.z}
      BY <2>1
    <3> HIDE DEF A, B
    <3> QED BY <3>1, <3>2
  <2> QED BY <1>1, <2>8, <2>9 DEF WorkRecord
<1>2. CASE s # "one_loop_Pk"
  BY <1>2 DEF KeysWith
<1> QED BY <1>1, <1>2

\* The rows of a key are one row.
LEMMA OneOfKey ==
  ASSUME StoredOnce, NEW t, NEW key, RowsFor(t, key) # {}
  PROVE  OneRow(t, key)
<1>1. PICK r \in BagToSet(rows) : r.table = t /\ r.key = key
  BY DEF RowsFor
<1>2. rows[r] = 1 /\ RowsFor(t, key) = {r}
  BY <1>1 DEF StoredOnce
<1> QED BY <1>2 DEF OneRow

\* The results behind a key are those of earlier stages that the job asked for.
LEMMA KeysBehind ==
  ASSUME NEW j \in Job
  PROVE  /\ \A key \in SpectrumKeys(j) : LoopKeyOf(key) \in LoopKeys(j)
         /\ \A key \in MultipoleKeys(j) :
              SpectrumKeyOf(key) \in SpectrumKeys(j) /\ XYKeyOf(key) \in XYKeys(j)
         /\ \A key \in CountertermKeys(j) : XYKeyOf(key) \in XYKeys(j)
<1>1. ASSUME NEW key \in SpectrumKeys(j) PROVE LoopKeyOf(key) \in LoopKeys(j)
  BY DEF SpectrumKeys, LoopKeys, LoopKeyOf
<1>2. ASSUME NEW key \in MultipoleKeys(j) PROVE XYKeyOf(key) \in XYKeys(j)
  BY DEF MultipoleKeys, XYKeys, XYKeyOf
<1>3. ASSUME NEW key \in CountertermKeys(j) PROVE XYKeyOf(key) \in XYKeys(j)
  BY DEF CountertermKeys, XYKeys, XYKeyOf
<1>4. ASSUME NEW key \in MultipoleKeys(j) PROVE SpectrumKeyOf(key) \in SpectrumKeys(j)
  <2>1. SpectrumKeyOf(key)
          = [model |-> key.model, growth |-> key.growth, loop |-> key.loop, k |-> key.k,
             init |-> key.init, final |-> key.final, UV |-> key.UV, IR |-> key.IR,
             z |-> key.z]
    BY DEF SpectrumKeyOf
  <2>2. /\ key.model = j.model /\ key.growth = j.growth /\ key.loop = j.loop
        /\ key.k \in j.k /\ key.init = j.init /\ key.final = j.final
        /\ key.UV \in j.UV /\ key.IR \in j.IR /\ key.z \in j.z
    BY DEF MultipoleKeys
  <2> QED BY <2>1, <2>2 DEF SpectrumKeys
<1> QED BY <1>1, <1>2, <1>3, <1>4

\* The master finds what it builds on.
LEMMA InputsFound ==
  ASSUME TypeOK, CoverInv, StoredOnce, pc = "build"
  PROVE  InputsReadable(kind, Missing(kind))
<1>0. kind \in KindSet /\ job \in Job /\ stage \in 1 .. 6 /\ kind = Kinds[stage]
  BY KindAtHand DEF kind
<1>1. \A n \in 1 .. stage - 1 : Present(job, Kinds[n])
  BY DEF CoverInv
<1>2. Missing(kind) \subseteq Wanted(job, kind)
  BY DEF Missing
<1> /\ kind = "one_loop_Pk" => stage = 4
    /\ kind = "multipole_Pk" => stage = 5
    /\ kind = "counterterm" => stage = 6
  <2>1. stage = 1 \/ stage = 2 \/ stage = 3 \/ stage = 4 \/ stage = 5 \/ stage = 6
    BY <1>0
  <2> QED BY <1>0, <2>1, KindFacts
<1>3. ASSUME stage > 2, NEW k \in XYKeys(job) PROVE OneRow("Matsubara_XY", k)
  <2>1. Present(job, "Matsubara_XY")
    BY <1>0, <1>1, <1>3, KindFacts
  <2>2. RowsFor("Matsubara_XY", k) # {}
    BY <1>3, <2>1, TableNames DEF Present, Wanted
  <2> QED BY <2>2, OneOfKey
<1>4. ASSUME stage > 3, NEW k \in LoopKeys(job) PROVE OneRow("loop_integral", k)
  <2>1. Present(job, "loop_integral")
    BY <1>0, <1>1, <1>4, KindFacts
  <2>2. RowsFor("loop_integral", k) # {}
    BY <1>4, <2>1, TableNames DEF Present, Wanted
  <2> QED BY <2>2, OneOfKey
<1>5. ASSUME stage > 4, NEW k \in SpectrumKeys(job) PROVE OneRow("one_loop_Pk", k)
  <2>1. Present(job, "one_loop_Pk")
    BY <1>0, <1>1, <1>5, KindFacts
  <2>2. RowsFor("one_loop_Pk", k) # {}
    BY <1>5, <2>1, TableNames DEF Present, Wanted
  <2> QED BY <2>2, OneOfKey
<1>6. CASE kind = "one_loop_Pk"
  <2>1. stage > 3
    BY <1>6
  <2>2. \A key \in Missing(kind) : LoopKeyOf(key) \in LoopKeys(job)
    BY <1>0, <1>2, <1>6, KeysBehind DEF Wanted
  <2> QED BY <1>4, <1>6, <2>1, <2>2 DEF InputsReadable
<1>7. CASE kind = "multipole_Pk"
  <2>1. stage > 4
    BY <1>7
  <2>2. \A key \in Missing(kind) :
          SpectrumKeyOf(key) \in SpectrumKeys(job) /\ XYKeyOf(key) \in XYKeys(job)
    BY <1>0, <1>2, <1>7, KeysBehind DEF Wanted
  <2> QED BY <1>0, <1>3, <1>5, <1>7, <2>1, <2>2 DEF InputsReadable
<1>8. CASE kind = "counterterm"
  <2>1. stage > 2
    BY <1>8
  <2>2. \A key \in Missing(kind) : XYKeyOf(key) \in XYKeys(job)
    BY <1>0, <1>2, <1>8, KeysBehind DEF Wanted
  <2> QED BY <1>3, <1>8, <2>1, <2>2 DEF InputsReadable
<1>9. CASE kind \in {"filter_Pk", "Matsubara_XY", "loop_integral"}
  BY <1>9 DEF InputsReadable
<1> QED BY <1>0, <1>6, <1>7, <1>8, <1>9 DEF KindSet

\* What is known of the tables and of what is on its way, together.
ApartInv == FatesApart /\ FatesOpen /\ StoredOnce /\ WholeInv

\* A step that changes neither the tables nor what becomes of things.
LEMMA PassesApart ==
  ASSUME ApartInv, Passes
  PROVE  ApartInv'
<1>1. UNCHANGED <<job, rows>> /\ kind' = kind
  BY DEF Passes, kind
<1>2. PICK y \in InFlight : \E z :
        /\ Fate(kind, job.model, z) = Fate(kind, job.model, y)
        /\ InFlight' \subseteq (InFlight \ {y}) \cup {z}
  BY DEF Passes
<1> PICK z : /\ Fate(kind, job.model, z) = Fate(kind, job.model, y)
             /\ InFlight' \subseteq (InFlight \ {y}) \cup {z}
  BY <1>2
<1>3. StoredOnce' /\ WholeInv'
  BY <1>1 DEF ApartInv, StoredOnce, WholeInv, RowsFor
<1>4. FatesOpen'
  <2>1. ASSUME NEW w \in InFlight', NEW c \in CellsIn(Fate(kind, job.model, w))
        PROVE  RowsFor(c[1], c[2]) = {}
    BY <1>2 DEF ApartInv, FatesOpen
  <2> QED BY <1>1, <2>1 DEF FatesOpen, RowsFor
<1>5. FatesApart'
  <2>1. ASSUME NEW v \in InFlight', NEW w \in InFlight', v # w
        PROVE  CellsIn(Fate(kind, job.model, v)) \cap CellsIn(Fate(kind, job.model, w)) = {}
    <3> DEFINE C(u) == CellsIn(Fate(kind, job.model, u))
    <3>1. C(z) = C(y)
      BY <1>2
    <3>2. \A a, b \in InFlight : a # b => C(a) \cap C(b) = {}
      BY DEF ApartInv, FatesApart
    <3> HIDE DEF C
    <3>3. C(v) \cap C(w) = {}
      BY <1>2, <2>1, <3>1, <3>2
    <3> QED BY <3>3 DEF C
  <2> QED BY <1>1, <2>1 DEF FatesApart
<1> QED BY <1>3, <1>4, <1>5 DEF ApartInv

\* A step that leaves nothing on its way.
LEMMA QuietApart ==
  ASSUME ApartInv, InFlight' = {}, UNCHANGED rows
  PROVE  ApartInv'
<1>1. FatesOpen' /\ FatesApart'
  BY DEF FatesOpen, FatesApart
<1> QED BY <1>1 DEF ApartInv, StoredOnce, WholeInv, RowsFor

\* A list is made of what is nowhere in the tables, each cell once.
LEMMA ListApart ==
  ASSUME FirstTokens, SameRedshifts, AskedInv, ApartInv, BuildList,
         InputsReadable(kind, Missing(kind))
  PROVE  ApartInv'
<1>0. /\ TypeOK /\ RowsAreAsAsked /\ kind \in KindSet /\ job \in Job /\ job \in Jobs
  BY KindAtHand DEF AskedInv, TypeOK
<1>1. /\ UNCHANGED <<job, stage, rows>> /\ kind' = kind
      /\ \A y : y \in InFlight' <=>
           \E key \in Missing(kind) : y = <<"list", WorkRecord(kind, key)>>
  BY <1>0, ListStep
<1>2. PICK M : M = Missing(kind)
  OBVIOUS
<1>3. M \in SUBSET Wanted(job, kind)
  BY <1>2 DEF Missing
<1>4. ASSUME NEW key \in M
      PROVE  CellsIn(Fate(kind, job.model, <<"list", WorkRecord(kind, key)>>))
               = Tables(kind) \X KeysWith(job, kind, key)
  <2>1. Fate(kind, job.model, <<"list", WorkRecord(kind, key)>>) = RowsOf(job, kind, key)
    BY <1>0, <1>2, <1>3, ListFate
  <2> QED BY <1>0, <2>1, RowsOfCells
<1>5. ASSUME NEW key \in M, NEW t \in Tables(kind), NEW k \in KeysWith(job, kind, key)
      PROVE  RowsFor(t, k) = {}
  <2>1. PICK u \in Tables(kind) : RowsFor(u, key) = {}
    BY <1>2 DEF Missing
  <2>2. PICK n \in DOMAIN Kinds : Kinds[n] = kind
    BY <1>0, KindsOnto
  <2>3. PICK c : c = <<u, key>>
    OBVIOUS
  <2>4. PICK d : d = <<t, k>>
    OBVIOUS
  <2>5. c \in CellsIn(RowsOf(job, kind, key)) /\ d \in CellsIn(RowsOf(job, kind, key))
    <3>1. CellsIn(RowsOf(job, kind, key)) = Tables(kind) \X KeysWith(job, kind, key)
      BY <1>0, RowsOfCells
    <3>2. key \in KeysWith(job, kind, key)
      BY <1>0, <1>3, <1>5, KeysWithFacts
    <3> QED BY <1>5, <2>3, <2>4, <3>1, <3>2
  <2>6. RowsFor(c[1], c[2]) = {}
    BY <2>1, <2>3
  <2>7. RowsFor(d[1], d[2]) = {}
    BY <1>0, <1>3, <2>2, <2>5, <2>6 DEF ApartInv, WholeInv
  <2> QED BY <2>4, <2>7
<1>6. StoredOnce' /\ WholeInv'
  BY <1>1 DEF ApartInv, StoredOnce, WholeInv, RowsFor
<1>7. FatesOpen'
  <2>1. ASSUME NEW w \in InFlight', NEW c \in CellsIn(Fate(kind, job.model, w))
        PROVE  RowsFor(c[1], c[2]) = {}
    <3>1. PICK key \in M : w = <<"list", WorkRecord(kind, key)>>
      BY <1>1, <1>2
    <3>2. c \in Tables(kind) \X KeysWith(job, kind, key)
      BY <1>4, <2>1, <3>1
    <3> QED BY <1>5, <3>2
  <2> QED BY <1>1, <2>1 DEF FatesOpen, RowsFor
<1>8. FatesApart'
  <2>1. ASSUME NEW v \in InFlight', NEW w \in InFlight', v # w,
               NEW c \in CellsIn(Fate(kind, job.model, v)),
               c \in CellsIn(Fate(kind, job.model, w))
        PROVE  FALSE
    <3>1. PICK a \in M : v = <<"list", WorkRecord(kind, a)>>
      BY <1>1, <1>2
    <3>2. PICK b \in M : w = <<"list", WorkRecord(kind, b)>>
      BY <1>1, <1>2
    <3>3. /\ c \in Tables(kind) \X KeysWith(job, kind, a)
          /\ c \in Tables(kind) \X KeysWith(job, kind, b)
      BY <1>4, <2>1, <3>1, <3>2
    <3>4. PICK k : k \in KeysWith(job, kind, a) /\ k \in KeysWith(job, kind, b)
      BY <3>3
    <3>5. WorkRecord(kind, a) = WorkRecord(kind, b)
      BY <1>0, <1>3, <3>4, KeysWithSame
    <3> QED BY <2>1, <3>1, <3>2, <3>5
  <2> QED BY <1>1, <2>1 DEF FatesApart
<1> QED BY <1>6, <1>7, <1>8 DEF ApartInv

\* A product is stored in cells that are empty, and in all of its own.
LEMMA StoreApart ==
  ASSUME SameRedshifts, AskedInv, ApartInv, NEW x \in returned, StoreProduct(x)
  PROVE  ApartInv'
<1>0. /\ TypeOK /\ FatesAsked /\ kind \in KindSet /\ job \in Job /\ job \in Jobs
  BY KindAtHand DEF AskedInv, TypeOK
<1>1. PICK y : y = <<"returned", x>>
  OBVIOUS
<1>2. PICK F : F = Fate(kind, job.model, y)
  OBVIOUS
<1>3. /\ UNCHANGED <<job, pc, stage>> /\ kind' = kind
      /\ y \in InFlight /\ InFlight' = InFlight \ {y}
      /\ BagToSet(rows)' = BagToSet(rows) \cup F
      /\ \A r \in BagToSet(rows) : rows[r] = 1 /\ r \notin F => rows'[r] = 1
      /\ \A r \in F : r \notin BagToSet(rows) => rows'[r] = 1
  BY <1>1, <1>2, StoreStep
<1>4. PICK key \in Wanted(job, kind) : F = RowsOf(job, kind, key)
  BY <1>0, <1>2, <1>3 DEF FatesAsked
<1>5. /\ CellsIn(F) = Tables(kind) \X KeysWith(job, kind, key)
      /\ \A q, r \in F : q.table = r.table /\ q.key = r.key => q = r
  BY <1>0, <1>4, RowsOfCells
<1>6. \A r \in F : <<r.table, r.key>> \in CellsIn(F)
  BY DEF CellsIn
<1>7. \A t, k : <<t, k>> \in CellsIn(F) => RowsFor(t, k) = {}
  <2> SUFFICES ASSUME NEW t, NEW k, <<t, k>> \in CellsIn(F) PROVE RowsFor(t, k) = {}
    OBVIOUS
  <2>1. PICK c : c = <<t, k>>
    OBVIOUS
  <2>2. RowsFor(c[1], c[2]) = {}
    BY <1>2, <1>3, <2>1 DEF ApartInv, FatesOpen
  <2> QED BY <2>1, <2>2
<1>8. \A t, k : RowsFor(t, k)' = RowsFor(t, k) \cup {r \in F : r.table = t /\ r.key = k}
  BY <1>3 DEF RowsFor
<1>9. \A t, k : <<t, k>> \notin CellsIn(F) => RowsFor(t, k)' = RowsFor(t, k)
  BY <1>6, <1>8
<1>10. StoredOnce'
  <2> SUFFICES ASSUME NEW r \in BagToSet(rows)'
               PROVE  rows'[r] = 1 /\ RowsFor(r.table, r.key)' = {r}
    BY DEF StoredOnce
  <2>1. CASE r \in F
    <3>1. RowsFor(r.table, r.key) = {}
      BY <1>6, <1>7, <2>1
    <3>2. r \notin BagToSet(rows)
      BY <3>1 DEF RowsFor
    <3>3. {q \in F : q.table = r.table /\ q.key = r.key} = {r}
      BY <1>5, <2>1
    <3> QED BY <1>3, <1>8, <2>1, <3>1, <3>2, <3>3
  <2>2. CASE r \notin F
    <3>1. r \in BagToSet(rows)
      BY <1>3, <2>2
    <3>2. rows[r] = 1 /\ RowsFor(r.table, r.key) = {r}
      BY <3>1 DEF ApartInv, StoredOnce
    <3>3. <<r.table, r.key>> \notin CellsIn(F)
      BY <1>7, <3>2
    <3>4. RowsFor(r.table, r.key)' = {r}
      BY <1>9, <3>2, <3>3
    <3> QED BY <1>3, <2>2, <3>1, <3>2, <3>4
  <2> QED BY <2>1, <2>2
<1>11. FatesOpen'
  <2>1. ASSUME NEW w \in InFlight', NEW c \in CellsIn(Fate(kind, job.model, w))
        PROVE  RowsFor(c[1], c[2])' = {}
    <3>1. w \in InFlight /\ w # y
      BY <1>3
    <3>2. c \notin CellsIn(F) /\ RowsFor(c[1], c[2]) = {}
      BY <1>2, <1>3, <2>1, <3>1 DEF ApartInv, FatesApart, FatesOpen
    <3>3. c = <<c[1], c[2]>>
      BY <2>1 DEF CellsIn
    <3>4. <<c[1], c[2]>> \notin CellsIn(F)
      BY <3>2, <3>3
    <3> QED BY <1>9, <3>2, <3>4
  <2> QED BY <1>3, <2>1 DEF FatesOpen
<1>12. FatesApart'
  BY <1>3 DEF ApartInv, FatesApart
<1>13. WholeInv'
  <2> SUFFICES ASSUME NEW j \in Jobs, NEW n \in DOMAIN Kinds,
                      NEW a \in Wanted(j, Kinds[n]),
                      NEW c \in CellsIn(RowsOf(j, Kinds[n], a)),
                      NEW d \in CellsIn(RowsOf(j, Kinds[n], a)),
                      RowsFor(c[1], c[2])' = {}
               PROVE  RowsFor(d[1], d[2])' = {}
    BY DEF WholeInv
  <2>1. PICK s \in KindSet : s = Kinds[n]
    BY KindsOnto
  <2>2. /\ c \in Tables(s) \X KeysWith(j, s, a) /\ d \in Tables(s) \X KeysWith(j, s, a)
    BY <2>1, RowsOfCells
  <2>3. c = <<c[1], c[2]>> /\ d = <<d[1], d[2]>>
    BY <2>2
  <2>4. RowsFor(c[1], c[2]) = {}
    BY <1>8
  <2>5. RowsFor(d[1], d[2]) = {}
    BY <2>4 DEF ApartInv, WholeInv
  <2>6. <<c[1], c[2]>> \notin CellsIn(F)
    <3> SUFFICES ASSUME <<c[1], c[2]>> \in CellsIn(F) PROVE FALSE
      OBVIOUS
    <3>1. PICK r \in F : r.table = c[1] /\ r.key = c[2]
      BY DEF CellsIn
    <3>2. r \in RowsFor(c[1], c[2])'
      BY <1>8, <3>1
    <3> QED BY <3>2
  <2>7. <<d[1], d[2]>> \notin CellsIn(F)
    <3> SUFFICES ASSUME d \in Tables(kind) \X KeysWith(job, kind, key) PROVE FALSE
      BY <1>5, <2>3
    <3>1. s = kind
      BY <1>0, <2>2, TablesApart
    <3>2. KeysWith(job, kind, key) = KeysWith(j, s, a)
      <4>1. PICK k : k = d[2]
        OBVIOUS
      <4>2. k \in KeysWith(job, kind, key) /\ k \in KeysWith(j, kind, a)
        BY <2>2, <3>1, <4>1
      <4>3. a \in Wanted(j, kind)
        BY <2>1, <3>1
      <4> QED BY <1>0, <3>1, <4>2, <4>3, KeysWithSame
    <3> QED BY <1>5, <2>2, <2>3, <2>6, <3>1, <3>2
  <2> QED BY <1>9, <2>5, <2>7
<1> QED BY <1>10, <1>11, <1>12, <1>13 DEF ApartInv

\* Every step keeps what is stored apart from what is on its way, and finds what
\* it builds on.
LEMMA NextOnce ==
  ASSUME FirstTokens, SameRedshifts, OnceInv, [Next]_vars
  PROVE  OnceInv'
<1>0. /\ AskedInv /\ CoverInv /\ ApartInv /\ NoMisread /\ TypeOK /\ DeskInv
      /\ RowsAreAsAsked /\ StoredOnce
  BY DEF OnceInv, AskedInv, ApartInv
<1>1. AskedInv' /\ CoverInv'
  BY <1>0, NextAsked, NextCover
<1>2. BuildList => InputsReadable(kind, Missing(kind))
  BY <1>0, InputsFound DEF BuildList
<1>3. ApartInv'
  <2>1. CASE Passes
    BY <1>0, <2>1, PassesApart
  <2>2. ASSUME NEW x \in returned, StoreProduct(x) PROVE ApartInv'
    BY <1>0, <2>2, StoreApart
  <2>3. CASE BuildList
    BY <1>0, <1>2, <2>3, ListApart
  <2>4. CASE QuietStep
    BY <1>0, <2>4, QuietSteps, QuietApart
  <2>5. CASE UNCHANGED vars
    BY <1>0, <2>5 DEF vars, ApartInv, FatesApart, FatesOpen, StoredOnce, WholeInv, RowsFor,
                      InFlight, kind
  <2> QED BY <1>0, <2>1, <2>2, <2>3, <2>4, <2>5, StepKinds DEF QuietStep
<1>4. NoMisread'
  <2>1. CASE BuildList
    BY <1>0, <1>2, <2>1 DEF BuildList, NoMisread
  <2>2. CASE EndStage
    BY <1>0, <2>2 DEF EndStage, EndJob, NoMisread
  <2>3. ASSUME NEW how \in {"killed", "store_error"}, EndJob(how) PROVE NoMisread'
    BY <2>3 DEF EndJob, NoMisread
  <2>4. ASSUME UNCHANGED outcome PROVE NoMisread'
    BY <1>0, <2>4 DEF NoMisread
  <2> QED BY <1>0, <2>1, <2>2, <2>3, <2>4, StepKinds DEF Passes, StoreProduct, StartJob, vars
<1> QED BY <1>1, <1>3, <1>4 DEF OnceInv, ApartInv

\* From the start.
LEMMA OnceAlways ==
  ASSUME FirstTokens, SameRedshifts
  PROVE  Spec => []OnceInv
<1>1. Init => OnceInv
  <2> SUFFICES ASSUME Init PROVE OnceInv
    OBVIOUS
  <2>1. AskedInv
    BY InitAsked
  <2>2. BagToSet(rows) = {}
    BY DEF Init, EmptyBag, SetToBag, BagToSet
  <2>3. InFlight = {}
    BY <2>1, QuietFlight DEF Init, AskedInv
  <2>4. CoverInv /\ NoMisread
    BY DEF Init, CoverInv, NoMisread
  <2> QED BY <2>1, <2>2, <2>3, <2>4
       DEF OnceInv, FatesApart, FatesOpen, StoredOnce, WholeInv, RowsFor
<1>2. OnceInv /\ [Next]_vars => OnceInv'
  BY NextOnce
<1> QED BY <1>1, <1>2, PTL DEF Spec

(***************************************************************************)
(* In a database whose jobs ask for the first power spectrum and the first *)
(* loop parameters, and for the same redshifts, nothing is stored twice,   *)
(* whichever jobs die half way: a product goes into cells that are empty,  *)
(* and no other product on its way will fill them.                         *)
(***************************************************************************)
THEOREM StoredApart ==
  ASSUME FirstTokens, SameRedshifts
  PROVE  Spec => []StoredOnce
<1>1. OnceInv => StoredOnce
  BY DEF OnceInv
<1> QED BY <1>1, OnceAlways, PTL

(***************************************************************************)
(* In such a database no job fails to find the result of an earlier stage: *)
(* each stage is complete, with one row for a key, before the next looks   *)
(* it up.                                                                  *)
(***************************************************************************)
THEOREM AlwaysFound ==
  ASSUME FirstTokens, SameRedshifts
  PROVE  Spec => []NoMisread
<1>1. OnceInv => NoMisread
  BY DEF OnceInv
<1> QED BY <1>1, OnceAlways, PTL
==============================================================================

--------------------------- MODULE IragUpstreams ---------------------------
(***************************************************************************)
(* irag/service.go and irag/download.go: what a provider is asked, given   *)
(* the path and the query the gateway was asked (upstreamPathAndQuery and  *)
(* the families it hands over to).                                         *)
(*                                                                         *)
(* buildChocomilkAIQueryShort is the body of a mutant.                     *)
(***************************************************************************)
EXTENDS IragRouteSpecs

question == <<"q", "query", "title">>
asQuestion == {"query", "q"}
image == <<"url", "image_url", "imgUrl">>
asImage == {"url", "image_url", "imgUrl"}

------------------------------------------------------------------------------
(* AI: text, images and image processing. *)

prompt == <<"ask", "text", "prompt", "q">>

buildAIImageQuery(query) ==
    Given(query, <<"prompt", "ask", "text", "q">>, {"prompt"})
        @@ Kept(query, {"model", "style", "size", "session"})

buildNexureAIQuery(query) ==
    Given(query, prompt, {"ask"})
        @@ Kept(query, {"model", "style", "session", "imageUrl", "temperature", "think"})

\* The model a provider needs when the caller names none.
DefaultModel(table, slug) ==
    ByName(table, slug, NoQuery)

buildNexureAIQueryForSlug(slug, query) ==
    buildNexureAIQuery(query)
        @@ DefaultModel(<< <<{"groq"}, [model |-> "groq/compound"]>>,
                           <<{"qwen"}, [model |-> "qwen3-coder-plus"]>>,
                           <<{"claila"}, [model |-> "gpt-5-mini"]>> >>, slug)

buildRyzumiAIQuery(query) ==
    Given(query, prompt, {"text", "prompt"}) @@ Kept(query, {"model", "session", "imageUrl", "style"})

buildRyzumiAIQueryForSlug(slug, query) ==
    buildRyzumiAIQuery(query) @@ DefaultModel(<< <<{"qwen"}, [model |-> "qwen3-coder-plus"]>> >>, slug)

\* The same without the names that came later.
buildChocomilkAIQueryShort(query) ==
    Given(query, <<"ask", "text">>, {"ask", "prompt", "text"}) @@ Kept(query, {"model", "session"})

buildChocomilkAIQuery(query) ==
    Given(query, prompt, {"ask", "prompt", "text"}) @@ Kept(query, {"model", "session"})

buildYTDLPAIQuery(slug, query) ==
    CASE slug = "gemini" -> Given(query, prompt, {"text"}) @@ Kept(query, {"model"})
                                @@ [model |-> "gemma-3-27b-it"]
      [] slug = "powerbrain" -> Given(query, prompt, {"question"})
      [] slug \in {"felo", "beago"} -> Given(query, prompt, {"text"})
      [] slug = "deepai-chat" -> Given(query, prompt, {"prompt"})
      [] OTHER -> Given(query, prompt, {"text"}) @@ Kept(query, {"model"})

nexureAIPathForSlug(slug) ==
    CASE slug = "gpt-v2" -> "/api/ai/v2/gpt"
      [] slug \in {"gpt", "claila", "copilot", "gemini", "deepseek", "groq", "meta", "perplexity",
                   "pollinations", "qwen", "webpilot", "ai4chat", "z-ai"} -> "/api/ai/" \o slug
      [] OTHER -> "/api/ai/gpt"

ryzumiAIPathForSlug(slug) ==
    CASE slug \in {"deepseek-ryz", "deepseek"} -> "/api/ai/deepseek"
      [] slug \in {"gemini-ryz", "gemini"} -> "/api/ai/gemini"
      [] slug \in {"mistral", "qwen"} -> "/api/ai/" \o slug
      [] OTHER -> "/api/ai/chatgpt"

ryzumiDirectAIPathForSlug(slug) ==
    IF slug \in {"gpt", "v2/gpt", "ai4chat", "copilot", "claila", "meta", "perplexity", "webpilot", "z-ai"}
    THEN "/api/ai/chatgpt" ELSE "/api/ai/" \o slug

chocomilkAIPathForSlug == "/api/ai/chatgpt"

ytdlpAIPathForSlug(slug) ==
    IF slug \in {"powerbrain", "felo", "beago", "deepai-chat"} THEN "/ai/" \o slug ELSE "/ai/gemini"

aiTextUpstream(path, provider, query) ==
    LET slug == After(path, "/v1/ai/text/")
    IN  CASE provider = "nexure" -> Sent(nexureAIPathForSlug(slug), buildNexureAIQueryForSlug(slug, query))
          [] provider = "ryzumi" -> Sent(ryzumiAIPathForSlug(slug), buildRyzumiAIQueryForSlug(slug, query))
          [] provider = "chocomilk" -> Sent(chocomilkAIPathForSlug, buildChocomilkAIQuery(query))
          [] provider = "ytdlp" -> Sent(ytdlpAIPathForSlug(slug), buildYTDLPAIQuery(slug, query))
          [] OTHER -> PassedOn(path, query)

aiDirectUpstreamPathAndQuery(slug, provider, query) ==
    IF isDirectAIImageSlug(slug)
    THEN Sent(IF provider = "kanata" THEN "/ai/image" ELSE "/api/ai/" \o slug, buildAIImageQuery(query))
    ELSE CASE provider = "ytdlp" -> Sent(ytdlpAIPathForSlug(slug), buildYTDLPAIQuery(slug, query))
           [] provider = "nexure" -> Sent("/api/ai/" \o slug, buildNexureAIQueryForSlug(slug, query))
           [] provider = "ryzumi" -> Sent(ryzumiDirectAIPathForSlug(slug), buildRyzumiAIQueryForSlug(slug, query))
           [] provider = "chocomilk" -> Sent("/api/ai/chatgpt", buildChocomilkAIQuery(query))
           [] OTHER -> Sent("/api/ai/" \o slug, query)

aiImageUpstream(path, provider, query) ==
    CASE provider \in {"nexure", "ryzumi", "chocomilk"} ->
             Sent("/api/ai/" \o After(path, "/v1/ai/image/"), buildAIImageQuery(query))
      [] provider = "kanata" -> Sent("/ai/image", buildAIImageQuery(query))
      [] OTHER -> PassedOn(path, query)

llmUpstreamPathAndQuery(path, provider, query) ==
    CASE provider = "chocomilk" -> Sent("/api/ai/chatgpt", buildChocomilkAIQuery(query))
      [] provider = "nexure" -> Sent("/api/ai/gpt", buildNexureAIQueryForSlug("gpt", query))
      [] provider = "ryzumi" -> Sent("/api/ai/chatgpt", buildRyzumiAIQueryForSlug("gpt", query))
      [] OTHER -> PassedOn(path, query)

processOptions == {"model", "session", "style", "seed", "quality", "width", "height",
                   "negative_prompt", "transparent", "aspectRatio", "enhance"}

\* The slug without its dashes, which only two slugs have.
Undashed(slug) == ByName(<< <<{"nano-banana"}, "nanobanana">>, <<{"nsfw-check"}, "nsfwcheck">> >>, slug, slug)

buildAIProcessQuery(slug, query) ==
    Kept(query, processOptions)
        @@ (CASE Undashed(slug) = "toanime" -> Given(query, image, asImage)
                                                   @@ Given(query, <<"style", "mode">>, {"style"})
              [] Undashed(slug) \in {"colorize", "removebg", "waifu2x", "image2txt", "enhance",
                                     "enhance2x", "tololi", "nanobanana"} ->
                     Given(query, image, asImage)
                         @@ Given(query, <<"text", "prompt", "ask">>, {"text", "prompt"})
              [] Undashed(slug) = "faceswap" ->
                     Given(query, <<"original", "url", "image_url">>, {"original"})
                         @@ Given(query, <<"face", "face_url", "faceUrl">>, {"face"})
              [] Undashed(slug) = "upscale" -> Given(query, image, asImage)
                                                   @@ Given(query, <<"scale", "factor">>, {"scale"})
              [] OTHER -> Given(query, image, asImage))

aiProcessUpstreamPathAndQuery(slug, provider, query) ==
    LET chocomilk == << <<{"tololi"}, "tololi">>, <<{"enhance2x"}, "enhance">>, <<{"nanobanana"}, "nano-banana">> >>
        path == CASE provider = "nexure" ->
                         ByName(<< <<{"nsfw-check"}, "/api/tools/nsfw-check">>,
                                   <<{"upscale", "enhance"}, "/api/tools/upscale">> >>, slug, "/api/ai/" \o slug)
                  [] provider = "ryzumi" ->
                         ByName(<< <<{"upscale"}, "/api/ai/upscaler">>, <<{"enhance"}, "/api/ai/remini">>,
                                   <<{"nsfw-check"}, "/api/tool/nsfw-checker">> >>, slug, "/api/ai/" \o slug)
                  [] provider = "chocomilk" -> "/v1/i2i/" \o ByName(chocomilk, Undashed(slug), slug)
                  [] OTHER -> "/v1/i2i/" \o slug
    IN  Sent(path, buildAIProcessQuery(slug, query))

aiProcessUpstream(path, provider, query) ==
    aiProcessUpstreamPathAndQuery(After(After(path, "/v1/ai/process/"), "/v1/i2i/"), provider, query)
=============================================================================
